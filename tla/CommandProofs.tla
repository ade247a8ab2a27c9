------------------------------ MODULE CommandProofs ------------------------------
(****************************************************************************)
(* Proofs about what a client does beside its connection: the hooks file of *)
(* the user, which Connect and Close take turns at, and the parts that      *)
(* MCCommands puts side by side.                                            *)
(*                                                                          *)
(* HookConfig's type invariant, and that the user's file survives, that one *)
(* client at a time is up, and that the last Close restores the file, for   *)
(* any number of clients, each in a process of its own, whose Connects do   *)
(* not overlap.                                                             *)
(*                                                                          *)
(* The guard of configuration writes holds for any number of writers: the   *)
(* two flags only fall towards refusal once Connect has returned, connected *)
(* is never stored again and closed is never taken back, so that what a     *)
(* write saw of them at the guard still refuses it in sendRaw, which loads  *)
(* them in the other order.                                                 *)
(*                                                                          *)
(* Each output buffer holds its end of the output, for any sizes of the     *)
(* buffers and of the writes.                                               *)
(*                                                                          *)
(* What runtime discovery reports is usable, and what it offers is allowed, *)
(* whatever the installed codex is and whenever it is replaced.             *)
(*                                                                          *)
(* The windows a caller reads a growing thread in tile it, and a listing of *)
(* background terminals is complete if the server's cursors are positions.  *)
(****************************************************************************)
EXTENDS HookConfig, ConfigWrites, OutputBuffers, RuntimeDiscovery,
        ThreadHistory, TerminalInventory, FiniteSetTheorems,
        WellFoundedInduction, TLAPS

-----------------------------------------------------------------------------
(* The inductive invariant, for processes of their own whose Connects do    *)
(* not overlap, and while nothing happened that the code does not cover.    *)

BackupOf(c) == backup[PidOf[c]]
Early == {"idle", "recovering", "restoring", "overwriting", "removing",
          "detecting", "reading", "backingUp"}
Holding(c) == pc[c] \in {"up"} \cup Closing
Gone(c) == pc[c] \notin Active \cup {"idle"}

\* Connects take turns, and the last to begin is the one that is at it.
Turns ==
    /\ \A c, d \in Clients :
          pc[c] \in Connecting /\ pc[d] \in Connecting => c = d
    /\ \A c \in Clients : pc[c] \in Connecting => last = c

\* What there is to read is the user's.
Genuine ==
    /\ hooks # None
    /\ \A c \in Clients : BackupOf(c) # None => BackupOf(c).data = "user"
    /\ \A c \in Clients :
          pc[c] \in {"overwriting", "backingUp", "installing", "up", "closing",
                     "rewriting"} => kept[c] = "user"

\* A client has its backup from the time it wrote it to the time it removes it.
Owned ==
    \A c \in Clients :
        /\ pc[c] \in Early => BackupOf(c) = None
        /\ pc[c] \in {"installing"} \cup {"up"} \cup Closing => BackupOf(c) # None

\* What a client recovered from: once that is written back, these backups are
\* removed, or passed over.
Recovered(c) == stale[c] \cup spared[c]
Dropping(c) == pc[c] \in {"removing", "detecting"}

\* A recovery removes the backups of clients that are gone.
Stale ==
    \A c \in Clients :
        /\ pc[c] \in {"restoring", "overwriting"} =>
              /\ stale[c] # {}
              /\ \A d \in Clients : PidOf[d] \in stale[c] => BackupOf(d) # None
        /\ pc[c] \in {"restoring", "overwriting", "removing", "detecting"} =>
              \A d \in Clients : PidOf[d] \in Recovered(c) => Gone(d)
        /\ pc[c] \in {"idle", "recovering", "restoring", "overwriting"} =>
              spared[c] = {}
        /\ pc[c] = "detecting" => stale[c] = {}

\* Past detectConcurrentSDK, a client is alone with the user's file, and with
\* backups that could not be removed.
Alone ==
    /\ \A c \in Clients : pc[c] \in {"reading", "backingUp", "installing"} =>
          /\ hooks = "user"
          /\ \A d \in Clients : d # c /\ BackupOf(d) # None => Gone(d)
    /\ \A c, d \in Clients : Holding(c) /\ Holding(d) => c = d

\* The user's file is in place, or in the backup of a client that will write it
\* back or of one that is gone and not about to be removed or passed over.
BackedUp(c) ==
    /\ BackupOf(c) # None
    /\ \/ pc[c] \in {"up", "closing", "rewriting"}
       \/ /\ Gone(c)
          /\ \A d \in Clients : Dropping(d) => PidOf[c] \notin Recovered(d)
Saved == hooks = "user" \/ \E c \in Clients : BackedUp(c)

\* The last client to connect found nobody else and is not followed.
Restored ==
    last # None =>
        /\ pc[last] \in {"forgetting", "restored"} => hooks = "user"
        /\ pc[last] = "restored" => \A d \in Clients : ~Holding(d)

Safe == Genuine /\ Owned /\ Stale /\ Alone /\ Saved /\ Restored
HInv == Turns /\ (original = "user" /\ Protected => Safe)

\* What the proofs assume of the clients.
Separate ==
    /\ ~MayOverlap
    /\ \A c, d \in Clients : PidOf[c] = PidOf[d] => c = d

-----------------------------------------------------------------------------
(* Type correctness.                                                        *)

Labels == Active \cup {"idle", "refused", "failed", "left", "restored", "crashed"}
Backups == {None} \cup [data : Contents, old : BOOLEAN, at : 1 .. writes]

FileTypes ==
    /\ original \in {None, "user"} /\ hooks \in Contents \cup {None}
    /\ writes \in Nat /\ backup \in [Pids -> Backups]
ClientTypes ==
    /\ pc \in [Clients -> Labels]
    /\ kept \in [Clients -> Contents \cup {None}]
    /\ \A c \in Clients : pc[c] \in {"overwriting", "rewriting", "backingUp"}
                          => kept[c] # None
    /\ stale \in [Clients -> SUBSET Pids]
    /\ spared \in [Clients -> SUBSET Pids]
HistoryTypes == last \in Clients \cup {None} /\ mishap \in Unprotected \cup {None}

LEMMA TypeParts == TypeOK <=> FileTypes /\ ClientTypes /\ HistoryTypes
BY DEF TypeOK, FileTypes, ClientTypes, HistoryTypes, Labels, Backups

LEMMA PidsOfClients ==
  /\ \A c \in Clients : PidOf[c] \in Pids
  /\ \A p \in Pids : \E c \in Clients : PidOf[c] = p
BY DEF Pids

LEMMA NoneIsNothing ==
  /\ None \notin Contents /\ None \notin Clients /\ None \notin Unprotected
  /\ \A r \in [data : Contents, old : BOOLEAN, at : Nat] : r # None
BY NoneAssumption, ClientAssumption

\* A step of one client, and what it may be about.
ClientStep(c) ==
    \/ Connect(c) \/ ListStale(c) \/ ReadStale(c) \/ CannotReadStale(c)
    \/ RestoreStale(c) \/ RemoveStale(c) \/ Detect(c)
    \/ ReadOriginal(c) \/ WriteBackup(c) \/ Install(c)
    \/ Close(c) \/ CloseRemoves(c) \/ ReadBackup(c) \/ Rewrite(c)
    \/ Forget(c)

LEMMA MishapTypes ==
  ASSUME mishap \in Unprotected \cup {None}, [Next]_vars
  PROVE  /\ mishap' \in Unprotected \cup {None}
         /\ mishap' = None => mishap = None
         /\ original' = original
<1> DEFINE Goal == /\ mishap' \in Unprotected \cup {None}
                   /\ mishap' = None => mishap = None
                   /\ original' = original
<1> USE NoneIsNothing DEF Mishap, Covered, Damaged, Unprotected
<1>1. ASSUME NEW c \in Clients,
             \/ Connect(c) \/ ListStale(c) \/ ReadStale(c) \/ CannotReadStale(c)
             \/ RestoreStale(c) \/ RemoveStale(c)
      PROVE  Goal
  BY <1>1 DEF Connect, ListStale, ReadStale, CannotReadStale, RestoreStale,
     RemoveStale
<1>2. ASSUME NEW c \in Clients,
             Detect(c) \/ ReadOriginal(c) \/ WriteBackup(c) \/ Install(c)
      PROVE  Goal
  BY <1>2 DEF Detect, ReadOriginal, WriteBackup, Install
<1>3. ASSUME NEW c \in Clients,
             \/ Close(c) \/ CloseRemoves(c) \/ ReadBackup(c)
             \/ Rewrite(c) \/ Forget(c) \/ CrashWriting(c) \/ CrashBackingUp(c)
      PROVE  Goal
  BY <1>3 DEF Close, CloseRemoves, ReadBackup, Rewrite, Forget,
     CrashWriting, CrashBackingUp
<1>4. ASSUME NEW p \in Pids, Crash(p) \/ Age(p)
      PROVE  Goal
  BY <1>4 DEF Crash, Age
<1>5. CASE UNCHANGED vars
  BY <1>5 DEF vars
<1> QED
  BY <1>1, <1>2, <1>3, <1>4, <1>5 DEF Next

LEMMA FilesStep ==
  ASSUME TypeOK, [Next]_vars
  PROVE  FileTypes'
<1>1. FileTypes /\ ClientTypes
  BY TypeParts
<1>2. original' = original
  BY MishapTypes, TypeParts DEF HistoryTypes
<1>3. ASSUME NEW text \in Contents
      PROVE  File(text) \in [data : Contents, old : BOOLEAN, at : 1 .. writes + 1]
  BY <1>1 DEF File, FileTypes
<1> USE <1>1, <1>2 DEF FileTypes, Contents
<1>4. ASSUME UNCHANGED <<backup, writes>>, hooks' \in Contents \cup {None}
      PROVE  FileTypes'
  BY <1>4 DEF Backups
<1>5. ASSUME NEW p \in Pids, backup' = [backup EXCEPT ![p] = None],
             UNCHANGED writes, hooks' \in Contents \cup {None}
      PROVE  FileTypes'
  BY <1>5 DEF Backups
<1>6. ASSUME NEW c \in Clients, NEW text \in Contents, UNCHANGED hooks,
             backup' = [backup EXCEPT ![PidOf[c]] = File(text)],
             writes' = writes + 1
      PROVE  FileTypes'
  <2>1. Backups \subseteq {None} \cup [data : Contents, old : BOOLEAN,
                                       at : 1 .. writes + 1]
    BY DEF Backups
  <2>2. Backups' = {None} \cup [data : Contents, old : BOOLEAN, at : 1 .. writes + 1]
    BY <1>6 DEF Backups
  <2>3. backup' \in [Pids -> Backups']
    BY <1>3, <1>6, <2>1, <2>2
  <2> QED
    BY <1>6, <2>3
<1>7. ASSUME NEW c \in Clients,
             \/ Connect(c) \/ ListStale(c) \/ ReadStale(c) \/ CannotReadStale(c)
             \/ RestoreStale(c) \/ Detect(c) \/ ReadOriginal(c) \/ Close(c)
             \/ CloseRemoves(c) \/ ReadBackup(c) \/ CrashWriting(c)
      PROVE  FileTypes'
  BY <1>4, <1>7 DEF Connect, ListStale, ReadStale, CannotReadStale, RestoreStale,
     Detect, ReadOriginal, Close, CloseRemoves, ReadBackup, CrashWriting, ClientTypes
<1>8. ASSUME NEW c \in Clients, RemoveStale(c)
      PROVE  FileTypes'
  <2>1. UNCHANGED <<writes, hooks>>
    BY <1>8 DEF RemoveStale
  <2>2. backup' = backup \/ \E p \in stale[c] : backup' = [backup EXCEPT ![p] = None]
    BY <1>8 DEF RemoveStale, First
  <2> QED
    BY <1>4, <1>5, <2>1, <2>2 DEF ClientTypes
<1>9. ASSUME NEW c \in Clients, WriteBackup(c)
      PROVE  FileTypes'
  <2>1. kept[c] \in Contents
    BY <1>9 DEF WriteBackup, ClientTypes
  <2> QED
    BY <1>4, <1>6, <1>9, <2>1 DEF WriteBackup
<1>10. ASSUME NEW c \in Clients, Install(c) \/ Rewrite(c) \/ Forget(c)
       PROVE  FileTypes'
  <2>1. UNCHANGED writes /\ hooks' \in Contents \cup {None}
    BY <1>10 DEF Install, Rewrite, Forget, Damaged, ClientTypes
  <2>2. backup' = backup \/ backup' = [backup EXCEPT ![PidOf[c]] = None]
    BY <1>10 DEF Install, Rewrite, Forget, Rollback, WithoutBackup, RetainedBackup
  <2> QED
    BY <1>4, <1>5, <2>1, <2>2, PidsOfClients
<1>11. ASSUME NEW c \in Clients, CrashBackingUp(c)
       PROVE  FileTypes'
  BY <1>6, <1>11 DEF CrashBackingUp
<1>12. ASSUME NEW p \in Pids, Crash(p)
       PROVE  FileTypes'
  BY <1>4, <1>12 DEF Crash
<1>13. ASSUME NEW p \in Pids, Age(p)
       PROVE  FileTypes'
  <2>1. backup[p] \in [data : Contents, old : BOOLEAN, at : 1 .. writes]
    BY <1>13 DEF Age, Backups
  <2>2. [backup[p] EXCEPT !.old = TRUE] \in Backups
    BY <2>1 DEF Backups
  <2>3. backup' = [backup EXCEPT ![p] = [backup[p] EXCEPT !.old = TRUE]]
        /\ UNCHANGED <<writes, hooks>>
    BY <1>13 DEF Age
  <2> QED
    BY <2>2, <2>3 DEF Backups
<1>14. CASE UNCHANGED vars
  BY <1>4, <1>14 DEF vars
<1> QED
  BY <1>7, <1>8, <1>9, <1>10, <1>11, <1>12, <1>13, <1>14 DEF Next

LEMMA ClientsStep ==
  ASSUME TypeOK, [Next]_vars
  PROVE  ClientTypes'
<1>1. FileTypes /\ ClientTypes
  BY TypeParts
<1>2. \A p \in Pids : backup[p] # None => backup[p].data \in Contents
  BY <1>1 DEF FileTypes, Backups
<1>3. "crashed" \in Labels /\ \A l \in Active : l \in Labels
  BY DEF Labels
<1> USE <1>1, <1>2, PidsOfClients, NoneIsNothing
    DEF ClientTypes, Labels, Active, Connecting, Closing, Goto
<1>4. ASSUME NEW c \in Clients, Connect(c) \/ Detect(c) \/ Install(c) \/ Close(c)
      PROVE  ClientTypes'
  BY <1>4 DEF Connect, Detect, Install, Close, mem
<1>5. ASSUME NEW c \in Clients, ListStale(c)
      PROVE  ClientTypes'
  BY <1>5 DEF ListStale, Old
<1>6. ASSUME NEW c \in Clients, ReadStale(c) \/ CannotReadStale(c)
      PROVE  ClientTypes'
  BY <1>6 DEF ReadStale, CannotReadStale, Oldest, mem
<1>7. ASSUME NEW c \in Clients, RestoreStale(c) \/ CloseRemoves(c) \/ Forget(c)
      PROVE  ClientTypes'
  BY <1>7 DEF RestoreStale, CloseRemoves, Forget, mem
<1>8. ASSUME NEW c \in Clients, RemoveStale(c)
      PROVE  ClientTypes'
  <2>1. UNCHANGED kept /\ \A d \in Clients : d # c => pc'[d] = pc[d]
    BY <1>8 DEF RemoveStale
  <2>2. pc' \in [Clients -> Labels] /\ pc'[c] \in {"removing", "detecting"}
    BY <1>8 DEF RemoveStale
  <2>3. stale' \in [Clients -> SUBSET Pids]
    BY <1>8 DEF RemoveStale
  <2>4. spared' \in [Clients -> SUBSET Pids]
    BY <1>8 DEF RemoveStale, First
  <2> QED
    BY <2>1, <2>2, <2>3, <2>4
<1>9. ASSUME NEW c \in Clients, ReadOriginal(c)
      PROVE  ClientTypes'
  BY <1>9 DEF ReadOriginal, IsFile, FileTypes
<1>10. ASSUME NEW c \in Clients, WriteBackup(c) \/ Rewrite(c)
       PROVE  ClientTypes'
  BY <1>10 DEF WriteBackup, Rewrite, mem
<1>11. ASSUME NEW c \in Clients, ReadBackup(c)
       PROVE  ClientTypes'
  BY <1>11 DEF ReadBackup
<1>12. ASSUME NEW p, Killed(p), UNCHANGED mem
       PROVE  ClientTypes'
  BY <1>12 DEF Killed, mem
<1>13. ASSUME NEW c \in Clients, CrashWriting(c) \/ CrashBackingUp(c)
       PROVE  ClientTypes'
  BY <1>12, <1>13 DEF CrashWriting, CrashBackingUp
<1>14. ASSUME NEW p \in Pids, Crash(p) \/ Age(p)
       PROVE  ClientTypes'
  BY <1>12, <1>14 DEF Crash, Age, mem
<1>15. CASE UNCHANGED vars
  BY <1>15 DEF vars, mem
<1> QED
  BY <1>4, <1>5, <1>6, <1>7, <1>8, <1>9, <1>10, <1>11, <1>13, <1>14, <1>15 DEF Next

LEMMA TypeInit == Init => TypeOK
BY DEF Init, TypeOK, Contents, Active

LEMMA LastStep ==
  ASSUME TypeOK, [Next]_vars
  PROVE  last' = last \/ \E c \in Clients : Connect(c) /\ last' = c
BY DEF Next, vars, Connect, ListStale, ReadStale, CannotReadStale, RestoreStale,
   RemoveStale, Detect, ReadOriginal, WriteBackup, Install, Close, CloseRemoves,
   ReadBackup, Rewrite, Forget, CrashWriting, CrashBackingUp, Crash, Age

LEMMA TypeStep == TypeOK /\ [Next]_vars => TypeOK'
<1> SUFFICES ASSUME TypeOK, [Next]_vars PROVE TypeOK'
  OBVIOUS
<1>1. FileTypes' /\ ClientTypes'
  BY FilesStep, ClientsStep
<1>2. HistoryTypes'
  BY MishapTypes, LastStep, TypeParts DEF HistoryTypes
<1>3. TypeOK' <=> FileTypes' /\ ClientTypes' /\ HistoryTypes'
  BY DEF TypeOK, FileTypes, ClientTypes, HistoryTypes, Labels, Backups
<1> QED
  BY <1>1, <1>2, <1>3

\* The files hold what a file may hold, and every client is at a step of the
\* code, for any clients and processes.
THEOREM HookConfigTypes == Spec => []TypeOK
<1> QED
  BY TypeInit, TypeStep, PTL DEF Spec

-----------------------------------------------------------------------------
(* The user's file.                                                         *)

LEMMA Distinct ==
  ASSUME Separate, NEW c \in Clients, NEW d \in Clients, c # d
  PROVE  PidOf[c] # PidOf[d]
BY DEF Separate

\* Who moves: a client by itself, a client by being killed, or the clock.
Moves(c, label) ==
    /\ pc' = [pc EXCEPT ![c] = label]
    /\ \A d \in Clients : d # c => pc'[d] = pc[d]
    /\ pc'[c] = label

LEMMA GotoMoves ==
  ASSUME TypeOK, NEW c \in Clients, NEW label, Goto(c, label)
  PROVE  Moves(c, label)
BY DEF TypeOK, Goto, Moves

LEMMA KilledMoves ==
  ASSUME TypeOK, Separate, NEW c \in Clients, pc[c] \in Active, Killed(PidOf[c])
  PROVE  Moves(c, "crashed")
<1>1. \A d \in Clients : PidOf[d] = PidOf[c] <=> d = c
  BY DEF Separate
<1>2. pc \in [Clients -> Labels]
  BY TypeParts DEF ClientTypes
<1> QED
  BY <1>1, <1>2 DEF Killed, Moves

\* What a write or a removal of one backup leaves of the others.
LEMMA BackupMoves ==
  ASSUME TypeOK, Separate, NEW c \in Clients, NEW b,
         backup' = [backup EXCEPT ![PidOf[c]] = b]
  PROVE  /\ BackupOf(c)' = b
         /\ \A d \in Clients : d # c => BackupOf(d)' = BackupOf(d)
BY PidsOfClients, Distinct DEF TypeOK, BackupOf

\* Connects take turns.
LEMMA TurnsStep ==
  ASSUME TypeOK, Separate, Turns, [Next]_vars
  PROVE  Turns'
<1> USE DEF Turns, Connecting
<1>1. ASSUME NEW c \in Clients, Connect(c)
      PROVE  Turns'
  <2>1. /\ \A d \in Clients : pc[d] \notin Connecting
        /\ Moves(c, "recovering") /\ last' = c
    BY <1>1, GotoMoves DEF Connect, Separate
  <2> QED
    BY <2>1 DEF Moves
<1>2. ASSUME last' = last,
             \A c \in Clients : pc'[c] \in Connecting => pc[c] \in Connecting
      PROVE  Turns'
  BY <1>2
<1>3. ASSUME NEW c \in Clients, NEW label, Goto(c, label), last' = last,
             pc[c] \in Connecting \/ label \notin Connecting
      PROVE  Turns'
  BY <1>2, <1>3, GotoMoves DEF Moves
<1>4. ASSUME NEW c \in Clients,
             \/ ListStale(c) \/ ReadStale(c) \/ CannotReadStale(c) \/ RestoreStale(c)
             \/ Detect(c) \/ ReadOriginal(c) \/ WriteBackup(c) \/ Install(c)
      PROVE  Turns'
  BY <1>3, <1>4 DEF ListStale, ReadStale, CannotReadStale, RestoreStale, Detect, ReadOriginal,
     WriteBackup, Install
<1>5. ASSUME NEW c \in Clients, RemoveStale(c)
      PROVE  Turns'
  BY <1>2, <1>3, <1>5 DEF RemoveStale
<1>6. ASSUME NEW c \in Clients,
             Close(c) \/ CloseRemoves(c) \/ ReadBackup(c) \/ Rewrite(c) \/ Forget(c)
      PROVE  Turns'
  BY <1>3, <1>6 DEF Close, CloseRemoves, ReadBackup, Rewrite, Forget
<1>7. ASSUME NEW p, Killed(p), last' = last
      PROVE  Turns'
  BY <1>2, <1>7 DEF Killed
<1>8. ASSUME NEW c \in Clients, CrashWriting(c) \/ CrashBackingUp(c)
      PROVE  Turns'
  BY <1>7, <1>8 DEF CrashWriting, CrashBackingUp
<1>9. ASSUME NEW p \in Pids, Crash(p) \/ Age(p)
      PROVE  Turns'
  BY <1>2, <1>7, <1>9 DEF Crash, Age
<1>10. CASE UNCHANGED vars
  BY <1>10 DEF vars
<1> QED
  BY <1>1, <1>4, <1>5, <1>6, <1>8, <1>9, <1>10 DEF Next

\* What the code does not protect against is no longer covered once it happened.
LEMMA NotProtected ==
  ASSUME NEW kind \in Unprotected, Mishap(kind)
  PROVE  ~Protected'
BY NoneIsNothing DEF Mishap, Protected, Unprotected

LEMMA BackupsKept ==
  ASSUME UNCHANGED backup  PROVE \A d \in Clients : BackupOf(d)' = BackupOf(d)
BY DEF BackupOf

LEMMA ConnectSafe ==
  ASSUME TypeOK, Separate, Turns, Safe, NEW c \in Clients, Connect(c)
  PROVE  Safe'
<1>1. /\ pc[c] = "idle" /\ Moves(c, "recovering") /\ last' = c
      /\ UNCHANGED <<hooks, kept, stale, spared>>
      /\ \A d \in Clients : BackupOf(d)' = BackupOf(d)
  BY GotoMoves, BackupsKept DEF Connect, mem
<1> USE <1>1 DEF Safe, Moves
<1>2. Genuine'  BY DEF Genuine
<1>3. Owned'  BY DEF Owned, Early, Closing
<1>4. Stale'  BY DEF Stale, Recovered, Gone, Active, Connecting, Closing
<1>5. Alone'  BY DEF Alone, Holding, Closing, Gone, Active, Connecting
<1>6. Saved'
  BY DEF Saved, BackedUp, Dropping, Recovered, Gone, Active, Connecting, Closing
<1>7. Restored'  BY DEF Restored
<1> QED
  BY <1>2, <1>3, <1>4, <1>5, <1>6, <1>7

\* Every old backup a client lists is of a client that is gone.
LEMMA ListStaleSafe ==
  ASSUME TypeOK, Separate, Turns, Safe, NEW c \in Clients, ListStale(c), Protected'
  PROVE  Safe'
<1>1. /\ pc[c] = "recovering" /\ UNCHANGED <<hooks, kept, spared, last>>
      /\ \A d \in Clients : BackupOf(d)' = BackupOf(d)
  BY BackupsKept DEF ListStale
<1>2. PICK listed \in SUBSET Old :
        /\ stale' = [stale EXCEPT ![c] = listed]
        /\ Moves(c, IF listed = {} THEN "detecting" ELSE "restoring")
        /\ \A p \in listed : ~Live(p)
  BY GotoMoves, NotProtected DEF ListStale, Unprotected
<1>3. /\ stale'[c] = listed /\ spared[c] = {}
      /\ \A d \in Clients : d # c => stale'[d] = stale[d]
  BY <1>1, <1>2 DEF TypeOK, Safe, Stale
<1>4. ASSUME NEW d \in Clients, PidOf[d] \in listed
      PROVE  BackupOf(d) # None /\ Gone(d)
  <2>1. BackupOf(d) # None /\ ~Holding(d)
    BY <1>2, <1>4 DEF Old, BackupOf, Live, Holding
  <2>2. pc[d] \notin Early
    BY <2>1 DEF Safe, Owned
  <2>3. pc[d] # "installing"
    BY <1>1 DEF Turns, Connecting
  <2> QED
    BY <2>1, <2>2, <2>3 DEF Gone, Holding, Active, Connecting, Closing, Early
<1>5. \A d \in Clients : Dropping(d)' => d = c
  BY <1>1, <1>2 DEF Turns, Moves, Dropping, Connecting
<1> USE <1>1, <1>2 DEF Safe, Moves
<1>6. Genuine'  BY DEF Genuine
<1>7. Owned'  BY DEF Owned, Early, Closing
<1>8. Stale'
  <2>1. \A d \in Clients : Gone(d) => Gone(d)'
    BY DEF Gone, Active, Connecting
  <2> QED
    BY <1>3, <1>4, <2>1 DEF Stale, Recovered
<1>9. Alone'  BY DEF Alone, Holding, Closing, Gone, Active, Connecting
<1>10. Saved'
  <2>1. ASSUME NEW d \in Clients, BackedUp(d)
        PROVE  BackedUp(d)' \/ hooks = "user"
    <3>1. CASE listed = {}
      BY <1>3, <1>5, <2>1, <3>1
      DEF BackedUp, Dropping, Recovered, Gone, Active, Connecting, Closing
    <3>2. CASE listed # {}
      BY <1>3, <1>5, <2>1, <3>2
      DEF BackedUp, Dropping, Recovered, Gone, Active, Connecting, Closing
    <3> QED
      BY <3>1, <3>2
  <2> QED
    BY <2>1 DEF Saved
<1>11. Restored'  BY DEF Restored, Holding, Closing
<1> QED
  BY <1>6, <1>7, <1>8, <1>9, <1>10, <1>11

LEMMA ReadStaleSafe ==
  ASSUME TypeOK, Separate, Turns, Safe, NEW c \in Clients, ReadStale(c)
  PROVE  Safe'
<1>1. /\ pc[c] = "restoring" /\ UNCHANGED <<hooks, stale, spared, last>>
      /\ \A d \in Clients : BackupOf(d)' = BackupOf(d)
  BY BackupsKept DEF ReadStale
<1>2. PICK p \in Oldest(stale[c]) :
        backup[p] # None /\ kept' = [kept EXCEPT ![c] = backup[p].data]
  BY DEF ReadStale
<1>3. PICK e \in Clients : PidOf[e] = p
  BY <1>2, PidsOfClients DEF TypeOK, Oldest
<1>4. /\ Moves(c, "overwriting")
      /\ kept' = [kept EXCEPT ![c] = "user"]
  BY <1>2, <1>3, GotoMoves DEF ReadStale, Safe, Genuine, BackupOf
<1>5. kept'[c] = "user" /\ \A d \in Clients : d # c => kept'[d] = kept[d]
  BY <1>4 DEF TypeOK
<1> USE <1>1, <1>4 DEF Safe, Moves
<1>6. Genuine'  BY <1>5 DEF Genuine
<1>7. Owned'  BY DEF Owned, Early, Closing
<1>8. Stale'  BY DEF Stale, Recovered, Gone, Active, Connecting
<1>9. Alone'  BY DEF Alone, Holding, Closing, Gone, Active, Connecting
<1>10. Saved'
  BY DEF Saved, BackedUp, Dropping, Recovered, Gone, Active, Connecting, Closing
<1>11. Restored'  BY DEF Restored, Holding, Closing
<1> QED
  BY <1>6, <1>7, <1>8, <1>9, <1>10, <1>11

\* The recovery that fails to read is not covered.
LEMMA CannotReadStaleUnprotected ==
  ASSUME NEW c \in Clients, CannotReadStale(c)
  PROVE  ~Protected'
BY NotProtected DEF CannotReadStale, Unprotected

LEMMA RestoreStaleSafe ==
  ASSUME TypeOK, Separate, Turns, Safe, NEW c \in Clients, RestoreStale(c),
         Protected'
  PROVE  Safe'
<1>1. /\ pc[c] = "overwriting" /\ UNCHANGED <<kept, stale, spared, last>>
      /\ \A d \in Clients : BackupOf(d)' = BackupOf(d)
  BY BackupsKept DEF RestoreStale, mem
<1>2. hooks' = "user" /\ Moves(c, "removing")
  BY <1>1, GotoMoves, NotProtected DEF RestoreStale, Unprotected, Safe, Genuine
<1> USE <1>1, <1>2 DEF Safe, Moves
<1>3. Genuine'
  BY NoneIsNothing DEF Genuine, Contents
<1>4. Owned'  BY DEF Owned, Early, Closing
<1>5. Stale'  BY DEF Stale, Recovered, Gone, Active, Connecting
<1>6. Alone'  BY DEF Alone, Holding, Closing, Gone, Active, Connecting
<1>7. Saved'  BY DEF Saved
<1>8. Restored'  BY DEF Restored, Holding, Closing
<1> QED
  BY <1>3, <1>4, <1>5, <1>6, <1>7, <1>8

LEMMA RemoveStaleSafe ==
  ASSUME TypeOK, Separate, Turns, Safe, NEW c \in Clients, RemoveStale(c)
  PROVE  Safe'
<1>1. pc[c] = "removing" /\ UNCHANGED <<hooks, kept, last>>
  BY DEF RemoveStale
<1>2. \A d \in Clients : pc[d] \in Connecting => d = c
  BY <1>1 DEF Turns, Connecting
<1>3. CASE /\ stale[c] = {} /\ Goto(c, "detecting")
           /\ UNCHANGED <<backup, stale, spared>>
  <2>1. /\ Moves(c, "detecting") /\ UNCHANGED <<stale, spared>>
        /\ \A d \in Clients : BackupOf(d)' = BackupOf(d)
    BY <1>3, GotoMoves, BackupsKept
  <2> USE <1>1, <1>3, <2>1 DEF Safe, Moves
  <2>2. Genuine'  BY DEF Genuine
  <2>3. Owned'  BY DEF Owned, Early, Closing
  <2>4. Stale'  BY DEF Stale, Recovered, Gone, Active, Connecting
  <2>5. Alone'  BY DEF Alone, Holding, Closing, Gone, Active, Connecting
  <2>6. Saved'
    BY DEF Saved, BackedUp, Dropping, Recovered, Gone, Active, Connecting, Closing
  <2>7. Restored'  BY DEF Restored, Holding, Closing
  <2> QED
    BY <2>2, <2>3, <2>4, <2>5, <2>6, <2>7
<1>4. ASSUME NEW p \in stale[c], UNCHANGED pc,
             stale' = [stale EXCEPT ![c] = @ \ {p}],
             \/ backup' = [backup EXCEPT ![p] = None] /\ UNCHANGED spared
             \/ spared' = [spared EXCEPT ![c] = @ \cup {p}] /\ UNCHANGED backup
      PROVE  Safe'
  <2>1. PICK e \in Clients : PidOf[e] = p
    BY PidsOfClients DEF TypeOK
  <2>2. /\ BackupOf(e)' \in {None, BackupOf(e)}
        /\ \A d \in Clients : d # e => BackupOf(d)' = BackupOf(d)
    BY <1>4, <2>1, BackupMoves, BackupsKept
  <2>3. Gone(e)
    BY <1>1, <2>1 DEF Safe, Stale, Recovered
  <2>4. /\ Recovered(c)' \subseteq Recovered(c)
        /\ \A d \in Clients : d # c =>
              /\ stale'[d] = stale[d] /\ spared'[d] = spared[d]
              /\ Recovered(d)' = Recovered(d)
    BY <1>4 DEF TypeOK, Recovered
  <2> USE <1>1, <1>4, <2>2, <2>4 DEF Safe
  <2>5. Genuine'  BY DEF Genuine
  <2>6. Owned'  BY <2>3 DEF Owned, Gone, Active, Connecting
  <2>7. Stale'  BY <1>2 DEF Stale, Gone, Connecting
  <2>8. Alone'  BY DEF Alone, Holding, Gone
  <2>9. Saved'
    <3>1. ASSUME NEW d \in Clients, BackedUp(d)
          PROVE  BackedUp(d)'
      <4>1. d # e
        BY <2>1, <2>3, <3>1
        DEF BackedUp, Dropping, Recovered, Gone, Active, Closing
      <4> QED
        BY <3>1, <4>1 DEF BackedUp, Dropping, Gone
    <3> QED
      BY <3>1 DEF Saved
  <2>10. Restored'  BY DEF Restored, Holding
  <2> QED
    BY <2>5, <2>6, <2>7, <2>8, <2>9, <2>10
<1> QED
  BY <1>3, <1>4 DEF RemoveStale, First

\* A step that only takes one client out of its call: the files stay, and it
\* has no backup.
LEMMA LeavesSafe ==
  ASSUME TypeOK, Separate, Turns, Safe, NEW c \in Clients, NEW label,
         label \in {"refused", "failed", "left", "crashed"}, Moves(c, label),
         pc[c] \in Active, UNCHANGED <<hooks, kept, stale, spared, last>>,
         \A d \in Clients : BackupOf(d)' = BackupOf(d),
         pc[c] = "forgetting" => label = "crashed"
  PROVE  Safe'
<1> USE DEF Safe, Moves
<1>1. Genuine'  BY DEF Genuine
<1>2. Owned'  BY DEF Owned, Early, Closing
<1>3. Stale'  BY DEF Stale, Recovered, Gone, Active, Connecting, Closing
<1>4. Alone'  BY DEF Alone, Holding, Closing, Gone, Active, Connecting
<1>5. Saved'
  <2>1. ASSUME NEW e \in Clients, BackedUp(e)
        PROVE  BackedUp(e)'
    <3>1. CASE e # c
      BY <2>1, <3>1 DEF BackedUp, Dropping, Recovered, Gone, Active, Connecting, Closing
    <3>2. CASE e = c
      <4>1. pc[c] \in {"up", "closing", "rewriting"} /\ BackupOf(c) # None
        BY <2>1, <3>2 DEF BackedUp, Gone
      <4>2. \A d \in Clients : Dropping(d)' => PidOf[c] \notin Recovered(d)'
        BY <4>1 DEF Stale, Dropping, Recovered, Gone, Active, Closing
      <4> QED
        BY <3>2, <4>1, <4>2 DEF BackedUp, Gone, Active, Connecting, Closing
    <3> QED
      BY <3>1, <3>2
  <2> QED
    BY <2>1 DEF Saved
<1>6. Restored'  BY DEF Restored, Holding, Closing
<1> QED
  BY <1>1, <1>2, <1>3, <1>4, <1>5, <1>6

\* A client that gets past detectConcurrentSDK leaves no backup behind it but of
\* clients that are gone, the ones it has written back itself.
LEMMA DetectSafe ==
  ASSUME TypeOK, Separate, Turns, Safe, NEW c \in Clients, Detect(c), Protected'
  PROVE  Safe'
<1>1. /\ pc[c] = "detecting" /\ UNCHANGED <<hooks, kept, stale, spared, last>>
      /\ \A d \in Clients : BackupOf(d)' = BackupOf(d)
  BY BackupsKept DEF Detect, mem
<1>2. \/ Goto(c, "refused") \/ Goto(c, "failed")
      \/ Concurrent(c) = {} /\ ~Slipped(c) /\ Goto(c, "reading")
  BY NotProtected DEF Detect, Unprotected
<1>3. CASE Goto(c, "refused") \/ Goto(c, "failed")
  BY <1>1, <1>3, GotoMoves, LeavesSafe DEF Active, Connecting
<1>4. CASE Concurrent(c) = {} /\ ~Slipped(c) /\ Goto(c, "reading")
  <2>1. Moves(c, "reading")
    BY <1>4, GotoMoves
  <2>2. stale[c] = {} /\ BackupOf(c) = None
    BY <1>1 DEF Safe, Stale, Owned, Early
  <2>3. ASSUME NEW d \in Clients, BackupOf(d) # None
        PROVE  d # c /\ PidOf[d] \in Recovered(c) /\ Gone(d)
    <3>1. PidOf[d] \in Pids \ {PidOf[c]}
      BY <2>2, <2>3, Distinct, PidsOfClients
    <3>2. PidOf[d] \in Recovered(c)
      BY <1>4, <2>3, <3>1 DEF Concurrent, Slipped, Old, BackupOf, Recovered
    <3> QED
      BY <1>1, <2>2, <2>3, <3>2 DEF Safe, Stale
  <2>4. hooks = "user"
    BY <1>1, <2>3 DEF Safe, Saved, BackedUp, Dropping, Gone, Active, Closing
  <2> USE <1>1, <2>1, <2>3, <2>4 DEF Safe, Moves
  <2>5. Genuine'  BY DEF Genuine
  <2>6. Owned'  BY DEF Owned, Early, Closing
  <2>7. Stale'  BY DEF Stale, Recovered, Gone, Active, Connecting, Closing
  <2>8. Alone'  BY DEF Alone, Holding, Closing, Gone, Active, Connecting
  <2>9. Saved'  BY DEF Saved
  <2>10. Restored'  BY DEF Restored, Holding, Closing
  <2> QED
    BY <2>5, <2>6, <2>7, <2>8, <2>9, <2>10
<1> QED
  BY <1>2, <1>3, <1>4

LEMMA ReadOriginalSafe ==
  ASSUME TypeOK, Separate, Turns, Safe, NEW c \in Clients, ReadOriginal(c)
  PROVE  Safe'
<1>1. /\ pc[c] = "reading" /\ UNCHANGED <<hooks, stale, spared, last>>
      /\ \A d \in Clients : BackupOf(d)' = BackupOf(d)
  BY BackupsKept DEF ReadOriginal
<1>2. hooks = "user" /\ IsFile(hooks)
  BY <1>1, NoneIsNothing DEF Safe, Alone, IsFile, Contents
<1>3. CASE kept' = [kept EXCEPT ![c] = hooks] /\ Goto(c, "backingUp")
  <2>1. Moves(c, "backingUp")
    BY <1>3, GotoMoves
  <2>2. kept'[c] = "user" /\ \A d \in Clients : d # c => kept'[d] = kept[d]
    BY <1>2, <1>3 DEF TypeOK
  <2> USE <1>1, <2>1, <2>2 DEF Safe, Moves
  <2>3. Genuine'  BY DEF Genuine
  <2>4. Owned'  BY DEF Owned, Early, Closing
  <2>5. Stale'  BY DEF Stale, Recovered, Gone, Active, Connecting, Closing
  <2>6. Alone'  BY DEF Alone, Holding, Closing, Gone, Active, Connecting
  <2>7. Saved'  BY <1>2 DEF Saved
  <2>8. Restored'  BY DEF Restored, Holding, Closing
  <2> QED
    BY <2>3, <2>4, <2>5, <2>6, <2>7, <2>8
<1>4. CASE UNCHANGED kept /\ Goto(c, "failed")
  BY <1>1, <1>4, GotoMoves, LeavesSafe DEF Active, Connecting
<1> QED
  BY <1>2, <1>3, <1>4 DEF ReadOriginal

LEMMA WriteBackupSafe ==
  ASSUME TypeOK, Separate, Turns, Safe, NEW c \in Clients, WriteBackup(c),
         Protected'
  PROVE  Safe'
<1>1. pc[c] = "backingUp" /\ UNCHANGED <<hooks, kept, stale, spared, last>>
  BY DEF WriteBackup, mem
<1>2. kept[c] = "user"
  BY <1>1 DEF Safe, Genuine
<1>3. CASE UNCHANGED backup /\ Goto(c, "failed")
  BY <1>1, <1>3, BackupsKept, GotoMoves, LeavesSafe DEF Active, Connecting
<1>4. CASE /\ backup' = [backup EXCEPT ![PidOf[c]] = File(kept[c])]
           /\ Goto(c, "installing")
  <2>1. Moves(c, "installing")
    BY <1>4, GotoMoves
  <2>2. /\ BackupOf(c)' = File("user")
        /\ \A d \in Clients : d # c => BackupOf(d)' = BackupOf(d)
    BY <1>2, <1>4, BackupMoves
  <2>3. File("user").data = "user" /\ File("user") # None
    <3>1. writes + 1 \in Nat /\ "user" \in Contents
      BY DEF TypeOK, Contents
    <3>2. File("user") \in [data : Contents, old : BOOLEAN, at : Nat]
      BY <3>1 DEF File
    <3> QED
      BY <3>2, NoneIsNothing DEF File
  <2> USE <1>1, <2>1, <2>2, <2>3 DEF Safe, Moves
  <2>4. Genuine'  BY <1>2 DEF Genuine
  <2>5. Owned'  BY DEF Owned, Early, Closing
  <2>6. Stale'  BY DEF Stale, Recovered, Gone, Active, Connecting, Turns
  <2>7. Alone'  BY DEF Alone, Holding, Closing, Gone, Active, Connecting, Turns
  <2>8. Saved'  BY DEF Saved, Alone
  <2>9. Restored'  BY DEF Restored, Holding, Closing
  <2> QED
    BY <2>4, <2>5, <2>6, <2>7, <2>8, <2>9
<1> QED
  BY <1>3, <1>4, NotProtected DEF WriteBackup, Unprotected

\* hooks.json is cut short or left, and the client that wrote it is killed.
LEMMA CrashWritingSafe ==
  ASSUME TypeOK, Separate, Turns, Safe, NEW c \in Clients, CrashWriting(c)
  PROVE  Safe'
<1>1. /\ pc[c] \in {"overwriting", "installing", "rewriting"}
      /\ hooks' = "empty" /\ UNCHANGED <<kept, stale, spared, last>>
      /\ Moves(c, "crashed")
      /\ \A d \in Clients : BackupOf(d)' = BackupOf(d)
  BY KilledMoves, BackupsKept
  DEF CrashWriting, mem, Active, Connecting, Closing
<1> USE <1>1 DEF Safe, Moves
<1>2. Genuine'
  BY NoneIsNothing DEF Genuine, Contents
<1>3. Owned'  BY DEF Owned, Early, Closing
<1>4. Stale'  BY DEF Stale, Recovered, Gone, Active, Connecting, Closing
<1>5. Alone'
  <2>1. \A d \in Clients : pc'[d] \notin {"reading", "backingUp", "installing"}
    <3>1. CASE pc[c] = "rewriting"
      BY <3>1 DEF Alone, Owned, Gone, Active, Closing
    <3>2. CASE pc[c] # "rewriting"
      BY <3>2 DEF Turns, Connecting
    <3> QED
      BY <3>1, <3>2
  <2> QED
    BY <2>1 DEF Alone, Holding, Closing
<1>6. Saved'
  <2>1. CASE pc[c] = "overwriting"
    <3>1. PICK e \in Clients : PidOf[e] \in stale[c]
      BY <2>1, PidsOfClients DEF Stale, Recovered, TypeOK
    <3>2. BackupOf(e) # None /\ Gone(e)
      BY <2>1, <3>1 DEF Stale, Recovered
    <3>3. \A d \in Clients : ~Dropping(d)'
      BY <2>1 DEF Turns, Dropping, Connecting
    <3>4. BackedUp(e)'
      BY <2>1, <3>2, <3>3 DEF BackedUp, Gone, Active, Connecting
    <3> QED
      BY <3>4 DEF Saved
  <2>2. CASE pc[c] \in {"installing", "rewriting"}
    <3>1. BackupOf(c) # None
      BY <2>2 DEF Owned, Closing
    <3>2. \A d \in Clients : Dropping(d)' => PidOf[c] \notin Recovered(d)'
      BY <2>2 DEF Stale, Dropping, Recovered, Gone, Active, Connecting, Closing
    <3>3. BackedUp(c)'
      BY <3>1, <3>2 DEF BackedUp, Gone, Active, Connecting, Closing
    <3> QED
      BY <3>3 DEF Saved
  <2> QED
    BY <2>1, <2>2
<1>7. Restored'
  <2> SUFFICES ASSUME last # None PROVE pc'[last] \notin {"forgetting", "restored"}
    BY DEF Restored
  <2>1. last \in Clients
    BY DEF TypeOK
  <2>2. CASE pc[c] \in {"overwriting", "installing"}
    BY <2>1, <2>2 DEF Turns, Connecting
  <2>3. CASE pc[c] = "rewriting"
    BY <2>1, <2>3 DEF Restored, Alone, Holding, Closing
  <2> QED
    BY <2>2, <2>3
<1> QED
  BY <1>2, <1>3, <1>4, <1>5, <1>6, <1>7

LEMMA InstallSafe ==
  ASSUME TypeOK, Separate, Turns, Safe, NEW c \in Clients, Install(c), Protected'
  PROVE  Safe'
<1>1. /\ pc[c] = "installing" /\ UNCHANGED <<kept, stale, spared, last>>
      /\ kept[c] # None /\ hooks = "user"
      /\ \A d \in Clients : d # c /\ BackupOf(d) # None => Gone(d)
  BY NoneIsNothing DEF Install, mem, Safe, Genuine, Alone, Contents
<1>2. \A d \in Clients : ~Holding(d)
  BY <1>1 DEF Safe, Owned, Holding, Gone, Active, Closing
<1>3. \A d \in Clients : pc[d] \in Connecting => d = c
  BY <1>1 DEF Turns, Connecting
<1>4. CASE hooks' = "sdk" /\ Goto(c, "up") /\ UNCHANGED backup
  <2>1. /\ Moves(c, "up")
        /\ \A d \in Clients : BackupOf(d)' = BackupOf(d)
    BY <1>4, GotoMoves, BackupsKept
  <2> USE <1>1, <1>2, <1>3, <2>1 DEF Safe, Moves
  <2>2. Genuine'
    BY <1>4, NoneIsNothing DEF Genuine, Contents
  <2>3. Owned'  BY DEF Owned, Early, Closing
  <2>4. Stale'  BY DEF Stale, Recovered, Gone, Active, Connecting, Closing
  <2>5. Alone'  BY DEF Alone, Holding, Closing, Gone, Active, Connecting
  <2>6. Saved'  BY DEF Saved, BackedUp, Dropping, Recovered, Owned
  <2>7. Restored'
    <3>1. last = c
      BY DEF Turns, Connecting
    <3> QED
      BY <3>1 DEF Restored
  <2> QED
    BY <2>2, <2>3, <2>4, <2>5, <2>6, <2>7
<1>5. CASE Damaged(hooks, hooks') /\ backup' \in Rollback(c) /\ Goto(c, "failed")
  <2>1. UNCHANGED hooks
    BY <1>5, NotProtected DEF Damaged, Unprotected
  <2>2. /\ Moves(c, "failed") /\ BackupOf(c)' \in {None, BackupOf(c)}
        /\ \A d \in Clients : d # c => BackupOf(d)' = BackupOf(d)
    BY <1>5, GotoMoves, BackupMoves, BackupsKept DEF Rollback, WithoutBackup
  <2> USE <1>1, <1>2, <1>3, <2>1, <2>2 DEF Safe, Moves
  <2>3. Genuine'  BY DEF Genuine
  <2>4. Owned'
    BY DEF Owned, Early, Closing, Holding, Connecting
  <2>5. Stale'  BY DEF Stale, Recovered, Gone, Active, Connecting
  <2>6. Alone'  BY DEF Alone, Holding, Closing, Gone, Active, Connecting
  <2>7. Saved'  BY DEF Saved
  <2>8. Restored'  BY DEF Restored, Holding, Closing
  <2> QED
    BY <2>3, <2>4, <2>5, <2>6, <2>7, <2>8
<1> QED
  BY <1>4, <1>5 DEF Install

LEMMA CloseSafe ==
  ASSUME TypeOK, Separate, Turns, Safe, NEW c \in Clients, Close(c)
  PROVE  Safe'
<1>1. /\ pc[c] = "up" /\ Moves(c, "closing")
      /\ UNCHANGED <<hooks, kept, stale, spared, last>>
      /\ \A d \in Clients : BackupOf(d)' = BackupOf(d)
  BY GotoMoves, BackupsKept DEF Close, mem
<1> USE <1>1 DEF Safe, Moves
<1>2. Genuine'  BY DEF Genuine
<1>3. Owned'  BY DEF Owned, Early, Closing
<1>4. Stale'  BY DEF Stale, Recovered, Gone, Active, Connecting, Closing
<1>5. Alone'  BY DEF Alone, Holding, Closing, Gone, Active, Connecting
<1>6. Saved'
  BY DEF Saved, BackedUp, Dropping, Recovered, Gone, Active, Connecting, Closing
<1>7. Restored'  BY DEF Restored, Holding, Closing
<1> QED
  BY <1>2, <1>3, <1>4, <1>5, <1>6, <1>7

LEMMA ReadBackupSafe ==
  ASSUME TypeOK, Separate, Turns, Safe, NEW c \in Clients, ReadBackup(c)
  PROVE  Safe'
<1>1. /\ pc[c] = "closing" /\ UNCHANGED <<hooks, stale, spared, last>>
      /\ \A d \in Clients : BackupOf(d)' = BackupOf(d)
  BY BackupsKept DEF ReadBackup
<1>2. CASE UNCHANGED kept /\ Goto(c, "left")
  BY <1>1, <1>2, GotoMoves, LeavesSafe DEF Active, Closing
<1>3. CASE kept' = [kept EXCEPT ![c] = backup[PidOf[c]].data] /\ Goto(c, "rewriting")
  <2>1. BackupOf(c).data = "user"
    BY <1>1 DEF Safe, Owned, Genuine, Closing
  <2>2. /\ Moves(c, "rewriting") /\ kept'[c] = "user"
        /\ \A d \in Clients : d # c => kept'[d] = kept[d]
    BY <1>3, <2>1, GotoMoves DEF TypeOK, BackupOf
  <2> USE <1>1, <2>2 DEF Safe, Moves
  <2>3. Genuine'  BY DEF Genuine
  <2>4. Owned'  BY DEF Owned, Early, Closing
  <2>5. Stale'  BY DEF Stale, Recovered, Gone, Active, Connecting, Closing
  <2>6. Alone'  BY DEF Alone, Holding, Closing, Gone, Active, Connecting
  <2>7. Saved'
    BY DEF Saved, BackedUp, Dropping, Recovered, Gone, Active, Connecting, Closing
  <2>8. Restored'  BY DEF Restored, Holding, Closing
  <2> QED
    BY <2>3, <2>4, <2>5, <2>6, <2>7, <2>8
<1> QED
  BY <1>2, <1>3 DEF ReadBackup

LEMMA RewriteSafe ==
  ASSUME TypeOK, Separate, Turns, Safe, NEW c \in Clients, Rewrite(c), Protected'
  PROVE  Safe'
<1>1. /\ pc[c] = "rewriting" /\ UNCHANGED <<kept, stale, spared, last>> /\ kept[c] = "user"
      /\ \A d \in Clients : BackupOf(d)' = BackupOf(d)
  BY BackupsKept DEF Rewrite, RetainedBackup, mem, Safe, Genuine
<1>2. CASE Damaged(hooks, hooks') /\ Goto(c, "left")
  <2>1. UNCHANGED hooks
    BY <1>2, NotProtected DEF Damaged, Unprotected
  <2> QED
    BY <1>1, <1>2, <2>1, GotoMoves, LeavesSafe DEF Active, Closing
<1>3. CASE hooks' = "user" /\ Goto(c, "forgetting")
  <2>1. Moves(c, "forgetting")
    BY <1>3, GotoMoves
  <2> USE <1>1, <1>3, <2>1 DEF Safe, Moves
  <2>2. Genuine'
    BY NoneIsNothing DEF Genuine, Contents
  <2>3. Owned'  BY DEF Owned, Early, Closing
  <2>4. Stale'  BY DEF Stale, Recovered, Gone, Active, Connecting, Closing
  <2>5. Alone'  BY DEF Alone, Holding, Closing, Gone, Active, Connecting
  <2>6. Saved'  BY DEF Saved
  <2>7. Restored'  BY DEF Restored, Holding, Closing
  <2> QED
    BY <2>2, <2>3, <2>4, <2>5, <2>6, <2>7
<1> QED
  BY <1>1, <1>2, <1>3 DEF Rewrite

LEMMA ForgetSafe ==
  ASSUME TypeOK, Separate, Turns, Safe, NEW c \in Clients, Forget(c)
  PROVE  Safe'
<1>1. /\ pc[c] = "forgetting" /\ UNCHANGED <<hooks, kept, stale, spared, last>>
      /\ Moves(c, "restored") /\ BackupOf(c)' \in {None, BackupOf(c)}
      /\ \A d \in Clients : d # c => BackupOf(d)' = BackupOf(d)
  BY GotoMoves, BackupMoves, BackupsKept DEF Forget, WithoutBackup, mem
<1>2. \A d \in Clients : d # c => ~Holding(d)
  BY <1>1 DEF Safe, Alone, Holding, Closing
<1> USE <1>1, <1>2 DEF Safe, Moves
<1>3. Genuine'  BY DEF Genuine
<1>4. Owned'  BY DEF Owned, Early, Closing
<1>5. Stale'  BY DEF Stale, Recovered, Gone, Active, Connecting, Closing
<1>6. Alone'  BY DEF Alone, Holding, Closing, Gone, Active, Connecting
<1>7. Saved'
  BY DEF Saved, BackedUp, Dropping, Recovered, Gone, Active, Connecting, Closing
<1>8. Restored'  BY DEF Restored, Holding, Closing
<1> QED
  BY <1>3, <1>4, <1>5, <1>6, <1>7, <1>8

LEMMA AgedFile ==
  ASSUME NEW r \in [data : Contents, old : BOOLEAN, at : Nat]
  PROVE  /\ [r EXCEPT !.old = TRUE].data = r.data
         /\ [r EXCEPT !.old = TRUE] \in [data : Contents, old : BOOLEAN, at : Nat]
OBVIOUS

LEMMA AgeSafe ==
  ASSUME TypeOK, Separate, Turns, Safe, NEW p \in Pids, Age(p)
  PROVE  Safe'
<1>1. PICK c \in Clients : PidOf[c] = p
  BY PidsOfClients
<1>2. /\ UNCHANGED <<hooks, pc, kept, stale, spared, last>> /\ BackupOf(c) # None
      /\ backup' = [backup EXCEPT ![PidOf[c]] = [BackupOf(c) EXCEPT !.old = TRUE]]
  BY <1>1 DEF Age, mem, BackupOf
<1>3. /\ BackupOf(c)' = [BackupOf(c) EXCEPT !.old = TRUE]
      /\ \A d \in Clients : d # c => BackupOf(d)' = BackupOf(d)
  BY <1>2, BackupMoves
<1>4. BackupOf(c) \in [data : Contents, old : BOOLEAN, at : 1 .. writes]
      /\ writes \in Nat
  BY <1>1, <1>2 DEF TypeOK, BackupOf
<1>5. /\ [BackupOf(c) EXCEPT !.old = TRUE].data = BackupOf(c).data
      /\ [BackupOf(c) EXCEPT !.old = TRUE] \in [data : Contents, old : BOOLEAN, at : Nat]
  <2>1. BackupOf(c) \in [data : Contents, old : BOOLEAN, at : Nat]
    BY <1>4
  <2> QED
    BY <2>1, AgedFile
<1>6. \A d \in Clients :
        /\ BackupOf(d)' # None <=> BackupOf(d) # None
        /\ BackupOf(d)' # None => BackupOf(d)'.data = BackupOf(d).data
  BY <1>2, <1>3, <1>5, NoneIsNothing
<1> USE <1>2, <1>6 DEF Safe
<1>7. Genuine'  BY DEF Genuine
<1>8. Owned'  BY DEF Owned
<1>9. Stale'  BY DEF Stale, Recovered, Gone
<1>10. Alone'  BY DEF Alone, Holding, Gone
<1>11. Saved'  BY DEF Saved, BackedUp, Dropping, Recovered, Gone
<1>12. Restored'  BY DEF Restored, Holding
<1> QED
  BY <1>7, <1>8, <1>9, <1>10, <1>11, <1>12

LEMMA CrashSafe ==
  ASSUME TypeOK, Separate, Turns, Safe, Protected',
         (\E p \in Pids : Crash(p)) \/ (\E c \in Clients : CrashBackingUp(c))
  PROVE  Safe'
<1>1. ~ \E c \in Clients : CrashBackingUp(c)
  BY NotProtected DEF CrashBackingUp, Unprotected
<1>2. PICK p \in Pids : Crash(p)
  BY <1>1
<1>3. PICK c \in Clients : PidOf[c] = p /\ pc[c] \in Active
  BY <1>2 DEF Crash
<1>4. /\ Moves(c, "crashed") /\ UNCHANGED <<hooks, kept, stale, spared, last>>
      /\ \A d \in Clients : BackupOf(d)' = BackupOf(d)
  BY <1>2, <1>3, KilledMoves, BackupsKept DEF Crash, mem
<1> QED
  BY <1>3, <1>4, LeavesSafe

\* A client that is up has a user's file to put back, so that Close does not
\* remove hooks.json; one that could not remove it would have none.
LEMMA CloseRemovesSafe ==
  ASSUME TypeOK, Separate, Turns, Safe, NEW c \in Clients, CloseRemoves(c)
  PROVE  Safe'
<1>1. kept[c] = "user" /\ kept[c] = None
  BY DEF CloseRemoves, Safe, Genuine
<1> QED
  BY <1>1, NoneIsNothing DEF Contents

LEMMA SafeStep ==
  ASSUME TypeOK, Separate, Turns, Safe, [Next]_vars, Protected'
  PROVE  Safe'
<1>1. ASSUME NEW c \in Clients,
             \/ Connect(c) \/ ListStale(c) \/ ReadStale(c) \/ CannotReadStale(c)
             \/ RestoreStale(c) \/ RemoveStale(c) \/ Detect(c)
             \/ ReadOriginal(c) \/ WriteBackup(c) \/ Install(c)
      PROVE  Safe'
  BY <1>1, ConnectSafe, ListStaleSafe, ReadStaleSafe, CannotReadStaleUnprotected,
     RestoreStaleSafe, RemoveStaleSafe, DetectSafe, ReadOriginalSafe, WriteBackupSafe,
     InstallSafe
<1>2. ASSUME NEW c \in Clients,
             \/ Close(c) \/ CloseRemoves(c) \/ ReadBackup(c) \/ Rewrite(c)
             \/ Forget(c) \/ CrashWriting(c)
      PROVE  Safe'
  BY <1>2, CloseSafe, CloseRemovesSafe, ReadBackupSafe, RewriteSafe, ForgetSafe,
     CrashWritingSafe
<1>3. CASE UNCHANGED vars
  BY <1>3 DEF vars, mem, Safe, Genuine, Owned, Stale, Alone, Saved, Restored, BackedUp,
     Dropping, Recovered, Gone, Holding, BackupOf
<1> QED
  BY <1>1, <1>2, <1>3, CrashSafe, AgeSafe DEF Next

LEMMA HInvInit == Init => HInv
<1> SUFFICES ASSUME Init PROVE HInv
  OBVIOUS
<1>1. /\ \A c \in Clients : pc[c] = "idle" /\ BackupOf(c) = None /\ spared[c] = {}
      /\ last = None /\ hooks = original
  BY PidsOfClients DEF Init, BackupOf
<1>2. Turns
  BY <1>1 DEF Turns, Connecting
<1>3. ASSUME original = "user"
      PROVE  Safe
  <2>1. Genuine
    BY <1>1, <1>3, NoneIsNothing DEF Genuine, Contents
  <2>2. Owned /\ Stale /\ Alone
    BY <1>1 DEF Owned, Stale, Alone, Holding, Closing
  <2>3. Saved /\ Restored
    BY <1>1, <1>3 DEF Saved, Restored
  <2> QED
    BY <2>1, <2>2, <2>3 DEF Safe
<1> QED
  BY <1>2, <1>3 DEF HInv

LEMMA HInvStep == Separate /\ TypeOK /\ HInv /\ [Next]_vars => HInv'
<1> SUFFICES ASSUME Separate, TypeOK, HInv, [Next]_vars PROVE HInv'
  OBVIOUS
<1>1. Turns'
  BY TurnsStep DEF HInv
<1>2. original' = original /\ (Protected' => Protected)
  BY MishapTypes, TypeParts DEF HistoryTypes, Protected
<1>3. ASSUME original' = "user", Protected'
      PROVE  Safe'
  BY <1>2, <1>3, SafeStep DEF HInv
<1> QED
  BY <1>1, <1>3 DEF HInv

LEMMA HInvAlways == Separate => (Spec => []HInv)
<1> SUFFICES ASSUME Separate PROVE Spec => []HInv
  OBVIOUS
<1>1. TypeOK /\ HInv /\ [Next]_vars => HInv'
  BY HInvStep
<1> QED
  BY <1>1, HInvInit, HookConfigTypes, PTL DEF Spec

\* Whatever is killed whenever, the user's file is hooks.json or a backup
\* ("Your data is never lost across crashes", docs/hooks.md:104), if every
\* client has a process of its own, Connects do not overlap and nothing the code
\* does not protect against happened (Unprotected): a recovery that could not
\* read or write, a write cut short, a backup that got old under its owner.
THEOREM UserDataAlwaysExists == Separate => (Spec => []UserDataExists)
<1>1. TypeOK /\ HInv => UserDataExists
  BY PidsOfClients
  DEF HInv, Safe, Saved, BackedUp, Genuine, BackupOf, UserDataExists
<1> QED
  BY <1>1, HInvAlways, HookConfigTypes, PTL

\* No client gets past detectConcurrentSDK while another is up, and none takes
\* a generated file for the user's original, under the same conditions.
THEOREM OneAtATimeAlways == Separate => (Spec => []OneAtATime)
<1>1. TypeOK /\ HInv => OneAtATime
  <2> SUFFICES ASSUME TypeOK, Safe
               PROVE  /\ Cardinality({c \in Clients : Holding(c)}) <= 1
                      /\ \A p \in Pids : backup[p] # None => backup[p].data = "user"
    BY DEF HInv, OneAtATime, Holding
  <2>1. Cardinality({c \in Clients : Holding(c)}) <= 1
    <3>1. CASE {c \in Clients : Holding(c)} = {}
      BY <3>1, FS_EmptySet
    <3>2. CASE {c \in Clients : Holding(c)} # {}
      <4>1. PICK c \in Clients : Holding(c)
        BY <3>2
      <4>2. {d \in Clients : Holding(d)} = {c}
        BY <4>1 DEF Safe, Alone
      <4> QED
        BY <4>2, FS_Singleton
    <3> QED
      BY <3>1, <3>2
  <2>2. \A p \in Pids : backup[p] # None => backup[p].data = "user"
    BY PidsOfClients DEF Safe, Genuine, BackupOf
  <2> QED
    BY <2>1, <2>2
<1> QED
  BY <1>1, HInvAlways, HookConfigTypes, PTL

\* The Close of the last client to connect leaves the user's hooks.json,
\* whatever crashed before it ("restores the original byte-for-byte",
\* docs/hooks.md:100), under the same conditions.
THEOREM AlwaysRestoredByClose == Separate => (Spec => []RestoredByClose)
<1>1. TypeOK /\ HInv => RestoredByClose
  BY DEF HInv, Safe, Restored, RestoredByClose
<1> QED
  BY <1>1, HInvAlways, HookConfigTypes, PTL

-----------------------------------------------------------------------------
(* Configuration writes: the inductive invariant.                           *)

\* A call the guard is about.
Guarded(w) == w \in late /\ "hooks" \in keys[w]

Steps == {"idle", "refused", "guard", "guard2", "check", "check2", "send",
          "sent"}

Typed ==
    /\ connected \in BOOLEAN /\ closed \in BOOLEAN
    /\ life \in {"new", "connecting", "up", "closing", "closed"}
    /\ write \in [Writers -> Steps]
    /\ keys \in [Writers -> KeySets]
    /\ late \subseteq Writers

\* The flags along the client's life; nobody is late before Connect returned.
LifeInv ==
    /\ connected => life \in {"up", "closing"}
    /\ closed <=> life \in {"closing", "closed"}
    /\ late # {} => life \in {"up", "closing", "closed"}
    /\ \A w \in late : write[w] # "idle"

\* What a guarded write that passed rejectHookConfigWrite knows.
KnowsInv ==
    \A w \in Writers : Guarded(w) =>
        /\ write[w] = "check" => closed \/ ~connected
        /\ write[w] = "check2" => ~connected
        /\ write[w] # "send"

\* Only a call that has sent is among the applied ones.
AppliedInv == \A w \in Writers : <<w, "hooks">> \in applied => write[w] = "sent"

GuardInv == Typed /\ LifeInv /\ KnowsInv /\ AppliedInv /\ GuardHolds

-----------------------------------------------------------------------------
(* It holds at first, and every step keeps it.                              *)

\* The invariant holds of a client that has not connected.
LEMMA GuardInit == ConfigInit => GuardInv
<1> SUFFICES ASSUME ConfigInit PROVE GuardInv
  OBVIOUS
<1>1. Typed
  BY DEF ConfigInit, Typed, Steps, KeySets
<1>2. LifeInv /\ KnowsInv /\ AppliedInv /\ GuardHolds
  BY DEF ConfigInit, LifeInv, KnowsInv, AppliedInv, Guarded, GuardHolds
<1> QED
  BY <1>1, <1>2 DEF GuardInv

\* A step of the client moves the flags towards refusal.
LEMMA ClientKeepsGuard ==
  ASSUME GuardInv,
         \/ HooksInstalled \/ ConnectReturns \/ ConnectFails \/ SourceEnds
         \/ ServerStops \/ CloseBegins \/ CloseClears
  PROVE  GuardInv'
<1>1. UNCHANGED <<write, keys, late, applied>>
  BY DEF HooksInstalled, ConnectReturns, ConnectFails, SourceEnds, ServerStops,
         CloseBegins, CloseClears
<1>2. Typed'
  BY <1>1 DEF GuardInv, Typed, HooksInstalled, ConnectReturns,
         ConnectFails, SourceEnds, ServerStops, CloseBegins, CloseClears
<1>3. LifeInv'
  <2> USE <1>1 DEF GuardInv, Typed, LifeInv
  <2>1. CASE HooksInstalled
    BY <2>1 DEF HooksInstalled
  <2>2. CASE ConnectReturns
    BY <2>2 DEF ConnectReturns
  <2>3. CASE ConnectFails
    BY <2>3 DEF ConnectFails
  <2>4. CASE SourceEnds
    BY <2>4 DEF SourceEnds
  <2>5. CASE ServerStops
    BY <2>5 DEF ServerStops
  <2>6. CASE CloseBegins
    BY <2>6 DEF CloseBegins
  <2>7. CASE CloseClears
    BY <2>7 DEF CloseClears
  <2> QED
    BY <2>1, <2>2, <2>3, <2>4, <2>5, <2>6, <2>7
<1>4. late # {} => (closed => closed') /\ (~connected => ~connected')
  BY DEF GuardInv, Typed, LifeInv, HooksInstalled, ConnectReturns,
         ConnectFails, SourceEnds, ServerStops, CloseBegins, CloseClears
<1>5. KnowsInv'
  BY <1>1, <1>4 DEF GuardInv, KnowsInv, Guarded
<1>6. AppliedInv' /\ GuardHolds'
  BY <1>1 DEF GuardInv, AppliedInv, GuardHolds
<1> QED
  BY <1>2, <1>3, <1>5, <1>6 DEF GuardInv

\* A step of one writer, which only its own invariant depends on.
LEMMA WriterKeepsGuard ==
  ASSUME GuardInv, NEW w \in Writers, WriteStep(w)
  PROVE  GuardInv'
<1> USE DEF GuardInv, Typed, Goes, clientFlags
<1>1. UNCHANGED clientFlags
  BY DEF WriteStep, WriteBegins, GuardReadsConnected, GuardReadsClosed,
         RawReadsClosed, RawReadsConnected, SendWrite
<1>2. \A v \in Writers \ {w} :
        /\ write'[v] = write[v] /\ keys'[v] = keys[v]
        /\ v \in late' <=> v \in late
        /\ <<v, "hooks">> \in applied' => <<v, "hooks">> \in applied
  BY DEF WriteStep, WriteBegins, GuardReadsConnected, GuardReadsClosed,
         RawReadsClosed, RawReadsConnected, SendWrite
<1>3. CASE WriteBegins(w)
  <2>1. Typed' /\ LifeInv'
    BY <1>1, <1>3 DEF WriteBegins, LifeInv, Steps
  <2>2. write'[w] \in {"guard", "refused"} /\ applied' = applied
    BY <1>3 DEF WriteBegins
  <2>3. <<w, "hooks">> \notin applied
    BY <1>3 DEF WriteBegins, AppliedInv
  <2> QED
    BY <1>1, <1>2, <2>1, <2>2, <2>3 DEF KnowsInv, AppliedInv, Guarded, GuardHolds
<1>4. CASE ~WriteBegins(w)
  <2>1. /\ Typed' /\ LifeInv'
        /\ keys' = keys /\ late' = late
    BY <1>1, <1>4 DEF WriteStep, GuardReadsConnected, GuardReadsClosed,
           RawReadsClosed, RawReadsConnected, SendWrite, LifeInv, Steps
  <2>2. Guarded(w) =>
          /\ write'[w] = "check" => closed \/ ~connected
          /\ write'[w] = "check2" => ~connected
          /\ write'[w] \notin {"send", "sent"} /\ applied' = applied
    BY <1>4 DEF WriteStep, GuardReadsConnected, GuardReadsClosed,
           RawReadsClosed, RawReadsConnected, SendWrite, KnowsInv, Guarded,
           HooksKey, SeesClosed, SeesConnected
  <2>3. <<w, "hooks">> \in applied' => write'[w] = "sent"
    BY <1>4 DEF WriteStep, GuardReadsConnected, GuardReadsClosed,
           RawReadsClosed, RawReadsConnected, SendWrite, AppliedInv
  <2>4. KnowsInv' /\ AppliedInv'
    BY <1>1, <1>2, <2>1, <2>2, <2>3
       DEF KnowsInv, AppliedInv, Guarded
  <2>5. w \in late => <<w, "hooks">> \notin applied'
    BY <2>1, <2>2, <2>3, <1>4 DEF WriteStep, GuardReadsConnected,
           GuardReadsClosed, RawReadsClosed, RawReadsConnected, SendWrite,
           Guarded, GuardHolds
  <2> QED
    BY <1>2, <2>1, <2>4, <2>5 DEF GuardHolds
<1> QED
  BY <1>3, <1>4

-----------------------------------------------------------------------------
\* GuardHolds, for any number of writers: rejectHookConfigWrite and sendRaw
\* together keep the generated hooks.json, though neither takes a lock.
THEOREM GuardIsSound == ConfigSpec => []GuardHolds
<1>1. ConfigInit => GuardInv
  BY GuardInit
<1>2. GuardInv /\ [ConfigNext]_configVars => GuardInv'
  <2> SUFFICES ASSUME GuardInv, [ConfigNext]_configVars PROVE GuardInv'
    OBVIOUS
  <2>1. CASE UNCHANGED configVars
    BY <2>1 DEF GuardInv, Typed, LifeInv, KnowsInv, AppliedInv, Guarded,
           GuardHolds, configVars, clientFlags
  <2>2. CASE \/ HooksInstalled \/ ConnectReturns \/ ConnectFails
             \/ SourceEnds \/ ServerStops \/ CloseBegins \/ CloseClears
    BY <2>2, ClientKeepsGuard
  <2>3. CASE \E w \in Writers : WriteStep(w)
    BY <2>3, WriterKeepsGuard
  <2> QED
    BY <2>1, <2>2, <2>3 DEF ConfigNext
<1>3. GuardInv => GuardHolds
  BY DEF GuardInv
<1> QED
  BY <1>1, <1>2, <1>3, PTL DEF ConfigSpec


-----------------------------------------------------------------------------
(* Output buffers.  RingKeepsTail says which bytes String returns; what a   *)
(* write needs is where each of them lies, as those that overwrite the      *)
(* oldest are placed by pos.                                                *)

Places == 0..RingSize - 1

\* d holds the last RingSize of w bytes, the oldest of them at position p.
Ring(d, p, w) ==
    /\ d \in [Places -> Int] /\ p \in Places
    /\ \A i \in Places :
          d[i] = IF i < p THEN w - p + 1 + i ELSE w - RingSize + 1 + i - p

RingInv ==
    /\ data \in [Places -> Int] /\ pos \in Places /\ full \in BOOLEAN
    /\ full => stored = RingSize /\ written >= RingSize /\ Ring(data, pos, written)
    /\ ~full => /\ stored = written /\ stored < RingSize /\ pos = 0
                /\ \A i \in Places : i < stored => data[i] = i + 1

HeadInv ==
    /\ head \in [0..CapLimit - 1 -> Int]
    /\ HeadIsKept

BufferInv == written \in Nat /\ RingInv /\ HeadInv

-----------------------------------------------------------------------------
(* Lemmas.                                                                  *)

\* The ring mode of Write keeps the last RingSize bytes.
LEMMA WrapKeepsRing ==
  ASSUME NEW d, NEW at, NEW n \in Nat \ {0}, NEW w \in Nat, Ring(d, at, w)
  PROVE  Ring(WrapData(d, at, n, w + 1), WrapPos(at, n), w + n)
<1> USE BufferAssumption
<1> DEFINE after == WrapData(d, at, n, w + 1)
           next == WrapPos(at, n)
<1>1. d \in [Places -> Int] /\ at \in Places
  BY DEF Ring
<1>2. CASE n >= RingSize
  <2>1. after = Copy(d, 0, RingSize, w + 1 + n - RingSize) /\ next = 0
    BY <1>2 DEF WrapData, WrapPos
  <2>2. /\ after \in [Places -> Int]
        /\ \A i \in Places : after[i] = w + 1 + n - RingSize + i
    BY <1>1, <2>1 DEF Places, Copy
  <2> HIDE DEF after, next
  <2>3. next \in Places /\ \A i \in Places : ~(i < next) /\ i - next = i
    BY <2>1 DEF Places
  <2>4. \A i \in Places :
           after[i] = IF i < next THEN w + n - next + 1 + i
                  ELSE w + n - RingSize + 1 + i - next
    BY <2>1, <2>2, <2>3 DEF Places
  <2> QED
    BY <2>2, <2>3, <2>4 DEF Ring, after, next
<1>3. CASE n < RingSize
  <2> DEFINE end == Least(RingSize - at, n)
             d1 == Copy(d, at, end, w + 1)
  <2>1. /\ after = Copy(d1, 0, n - end, w + 1 + end)
        /\ next = IF at + n = RingSize THEN 0
               ELSE IF end < n THEN n - end ELSE at + n
    BY <1>3 DEF WrapData, WrapPos
  <2>2. end \in Nat /\ end <= n /\ at + end <= RingSize
        /\ (end = n \/ at + end = RingSize)
    BY <1>1, <1>3 DEF Least, Places
  <2> HIDE DEF end, after, next
  <2>3. /\ d1 \in [Places -> Int]
        /\ \A i \in Places :
              d1[i] = IF at <= i /\ i < at + end THEN w + 1 + i - at ELSE d[i]
    BY <1>1, <2>2 DEF Places, Copy
  <2> HIDE DEF d1
  <2>4. /\ after \in [Places -> Int]
        /\ \A i \in Places :
              after[i] = IF i < n - end THEN w + 1 + end + i ELSE d1[i]
    BY <2>1, <2>2, <2>3 DEF Places, Copy
  <2>5. next \in Places
    BY <1>1, <1>3, <2>1, <2>2 DEF Places
  <2>6. ASSUME NEW i \in Places
        PROVE  after[i] = IF i < next THEN w + n - next + 1 + i
                      ELSE w + n - RingSize + 1 + i - next
    <3>1. d[i] = IF i < at THEN w - at + 1 + i ELSE w - RingSize + 1 + i - at
      BY DEF Ring
    <3>2. /\ after[i] = IF i < n - end THEN w + 1 + end + i ELSE d1[i]
          /\ d1[i] = IF at <= i /\ i < at + end THEN w + 1 + i - at ELSE d[i]
      BY <2>3, <2>4
    <3>3. at \in Int /\ RingSize \in Int /\ i \in Int /\ end \in Int
          /\ 0 <= i /\ i < RingSize /\ 0 <= at /\ at < RingSize
      BY <1>1, <2>2 DEF Places
    <3>4. CASE end < n
      BY <1>3, <2>1, <2>2, <3>1, <3>2, <3>3, <3>4
    <3>5. CASE end = n
      BY <1>3, <2>1, <2>2, <3>1, <3>2, <3>3, <3>5
    <3> QED
      BY <2>2, <3>4, <3>5
  <2>7. Ring(after, next, w + n)
    <3>1. \A i \in Places :
             after[i] = IF i < next THEN (w + n) - next + 1 + i
                        ELSE (w + n) - RingSize + 1 + i - next
      BY <2>5, <2>6 DEF Places
    <3>2. after \in [Places -> Int]
      BY <2>4
    <3> QED
      BY <2>5, <3>1, <3>2 DEF Ring
  <2> QED
    BY <2>7 DEF after, next
<1> QED
  BY <1>1, <1>2, <1>3 DEF Places

\* Nothing is stored at first.
LEMMA BufferInvInit == BufferInit => BufferInv
<1> SUFFICES ASSUME BufferInit PROVE BufferInv
  OBVIOUS
<1> USE BufferAssumption
<1>1. data \in [Places -> Int] /\ pos \in Places
  BY DEF BufferInit, Places
<1>2. RingInv
  <2>1. full = FALSE /\ stored = written /\ stored < RingSize /\ pos = 0
    BY DEF BufferInit
  <2>2. \A i \in Places : ~(i < stored)
    BY DEF BufferInit, Places
  <2> QED
    BY <1>1, <2>1, <2>2, Zenon DEF RingInv
<1>3. head \in [0..CapLimit - 1 -> Int] /\ headLen = Least(written, CapLimit)
  BY DEF BufferInit, Least
<1>4. HeadInv
  BY <1>3 DEF BufferInit, HeadInv, HeadIsKept
<1> QED
  BY <1>2, <1>4 DEF BufferInit, BufferInv

\* A ring that has just been filled is in order from its first place.
LEMMA ZeroRing ==
  ASSUME NEW d \in [Places -> Int], \A i \in Places : d[i] = i + 1
  PROVE  Ring(d, 0, RingSize)
<1>1. 0 \in Places
  BY BufferAssumption DEF Places
<1>2. \A i \in Places : RingSize - RingSize + 1 + i - 0 = i + 1 /\ ~(i < 0)
  BY BufferAssumption DEF Places
<1> QED
  BY <1>1, <1>2 DEF Ring

\* Bytes that fit go behind those stored.
LEMMA FillKeepsRing ==
  ASSUME NEW n \in Nat \ {0}, written \in Nat, RingInv, Fill(n),
         written' = written + n
  PROVE  RingInv'
<1> USE BufferAssumption
<1>1. /\ stored = written /\ stored < RingSize /\ pos = 0 /\ n <= RingSize - stored
      /\ data \in [Places -> Int]
      /\ \A i \in Places : i < stored => data[i] = i + 1
  BY DEF RingInv, Fill, Room
<1>2. /\ data' = Copy(data, stored, n, written + 1) /\ stored' = stored + n
      /\ full' = (stored' = RingSize) /\ pos' = 0
  BY <1>1 DEF Fill
<1>3. /\ data' \in [Places -> Int]
      /\ \A i \in Places : i < stored' => data'[i] = i + 1
  BY <1>1, <1>2 DEF Places, Copy
<1>4. pos' \in Places /\ full' \in BOOLEAN /\ stored' = written'
  BY <1>1, <1>2 DEF Places
<1>5. ASSUME full'
      PROVE  stored' = RingSize /\ written' >= RingSize /\ Ring(data, pos, written)'
  <2>1. stored' = RingSize /\ written' = RingSize /\ pos' = 0
    BY <1>2, <1>4, <1>5
  <2>2. \A i \in Places : data'[i] = i + 1
    BY <1>3, <2>1 DEF Places
  <2> QED
    BY <1>3, <1>4, <2>1, <2>2, ZeroRing
<1>6. ASSUME ~full'
      PROVE  stored' < RingSize
  <2>1. stored' # RingSize
    BY <1>2, <1>6
  <2> QED
    BY <1>1, <1>2, <2>1
<1> QED
  BY <1>2, <1>3, <1>4, <1>5, <1>6 DEF RingInv

\* Bytes that do not fit fill the ring and go round.
LEMMA FillAndWrapKeepsRing ==
  ASSUME NEW n \in Nat \ {0}, written \in Nat, RingInv, FillAndWrap(n),
         written' = written + n
  PROVE  RingInv'
<1> USE BufferAssumption
<1> DEFINE d == Copy(data, stored, Room, written + 1)
           rest == n - Room
           w == written + Room
<1>1. /\ ~full /\ n > Room /\ stored = written /\ stored < RingSize
      /\ data \in [Places -> Int]
      /\ \A i \in Places : i < stored => data[i] = i + 1
  BY DEF RingInv, FillAndWrap
<1>2. rest \in Nat \ {0} /\ w \in Nat /\ w = RingSize /\ w + rest = written'
  BY <1>1 DEF Room
<1>3. d \in [Places -> Int] /\ \A i \in Places : d[i] = i + 1
  BY <1>1 DEF Places, Copy, Room
<1>4. Ring(d, 0, w)
  BY <1>2, <1>3, ZeroRing
<1>5. /\ data' = WrapData(d, 0, rest, w + 1) /\ pos' = WrapPos(0, rest)
      /\ stored' = RingSize /\ full' = TRUE
  BY DEF FillAndWrap, WrapFrom
<1> HIDE DEF d, rest, w
<1>6. Ring(WrapData(d, 0, rest, w + 1), WrapPos(0, rest), w + rest)
  BY <1>2, <1>4, WrapKeepsRing
<1>7. Ring(data, pos, written)'
  BY <1>2, <1>5, <1>6
<1>8. written' >= RingSize
  BY <1>2
<1> QED
  BY <1>5, <1>7, <1>8 DEF RingInv, Ring

\* A full ring goes on from the oldest byte.
LEMMA OverwriteKeepsRing ==
  ASSUME NEW n \in Nat \ {0}, written \in Nat, RingInv, Overwrite(n),
         written' = written + n
  PROVE  RingInv'
<1> USE BufferAssumption
<1>1. full /\ stored = RingSize /\ written >= RingSize /\ Ring(data, pos, written)
  BY DEF RingInv, Overwrite
<1>2. /\ data' = WrapData(data, pos, n, written + 1) /\ pos' = WrapPos(pos, n)
      /\ stored' = stored /\ full' = full
  BY DEF Overwrite
<1>3. Ring(WrapData(data, pos, n, written + 1), WrapPos(pos, n), written + n)
  BY <1>1, WrapKeepsRing
<1>4. Ring(data, pos, written)'
  BY <1>2, <1>3
<1>5. written' >= RingSize
  BY <1>1
<1> QED
  BY <1>1, <1>2, <1>4, <1>5 DEF RingInv, Ring

\* The writer keeps bytes up to its limit, and tells of the first it drops.
LEMMA HeadWriteKeepsHead ==
  ASSUME NEW n \in Nat \ {0}, written \in Nat, HeadInv, HeadWrite(n),
         written' = written + n
  PROVE  HeadInv'
<1> USE BufferAssumption
<1>1. /\ head \in [0..CapLimit - 1 -> Int] /\ headLen = Least(written, CapLimit)
      /\ \A i \in 0..headLen - 1 : head[i] = i + 1
      /\ truncated <=> written > CapLimit
  BY DEF HeadInv, HeadIsKept
<1>2. /\ head' = Copy(head, headLen, KeepsOf(n), written + 1)
      /\ headLen' = headLen + KeepsOf(n)
      /\ truncated' = (truncated \/ n > CapLimit - headLen)
  BY DEF HeadWrite, Remaining
<1>3. KeepsOf(n) = Least(n, CapLimit - headLen)
  BY DEF KeepsOf, Remaining
<1>4. headLen' = Least(written', CapLimit)
  BY <1>1, <1>2, <1>3 DEF Least
<1>5. truncated' <=> written' > CapLimit
  <2>1. written > CapLimit \/ n > CapLimit - headLen <=> written + n > CapLimit
    BY <1>1 DEF Least
  <2> QED
    BY <1>1, <1>2, <2>1, Zenon
<1>6. /\ head' \in [0..CapLimit - 1 -> Int]
      /\ \A i \in 0..headLen' - 1 : head'[i] = i + 1
  <2>1. headLen \in Nat /\ KeepsOf(n) \in Nat /\ headLen + KeepsOf(n) <= CapLimit
        /\ (KeepsOf(n) > 0 => headLen = written)
    BY <1>1, <1>3 DEF Least
  <2> DEFINE k == KeepsOf(n)
  <2> HIDE DEF k
  <2>2. /\ head' = Copy(head, headLen, k, written + 1)
        /\ headLen' = headLen + k
        /\ headLen \in Nat /\ k \in Nat /\ headLen + k <= CapLimit
        /\ (k > 0 => headLen = written)
    BY <1>2, <2>1 DEF k
  <2>3. /\ DOMAIN head = 0..CapLimit - 1
        /\ \A i \in 0..CapLimit - 1 :
             headLen <= i /\ i < headLen + k => written + 1 + i - headLen = i + 1
    <3>1. DOMAIN head = 0..CapLimit - 1
      BY <1>1
    <3>2. ASSUME NEW i \in 0..CapLimit - 1, headLen <= i, i < headLen + k
          PROVE  written + 1 + i - headLen = i + 1
      <4>1. k > 0 /\ i \in Int
        BY <2>2, <3>2
      <4> QED
        BY <2>2, <4>1
    <3> QED
      BY <3>1, <3>2
  <2>4. head' = [i \in 0..CapLimit - 1 |->
                   IF headLen <= i /\ i < headLen + k
                   THEN written + 1 + i - headLen ELSE head[i]]
    BY <2>2, <2>3 DEF Copy
  <2>5. head' \in [0..CapLimit - 1 -> Int]
    BY <1>1, <2>2, <2>4
  <2>6. ASSUME NEW i \in 0..headLen' - 1
        PROVE  head'[i] = i + 1
    <3>1. i \in 0..CapLimit - 1 /\ i < headLen + k
      BY <2>2
    <3>2. CASE headLen <= i
      BY <2>3, <2>4, <3>1, <3>2
    <3>3. CASE ~(headLen <= i)
      <4>1. head'[i] = head[i]
        BY <2>4, <3>1, <3>3
      <4>2. i \in 0..headLen - 1
        BY <2>2, <3>1, <3>3
      <4> QED
        BY <1>1, <4>1, <4>2
    <3> QED
      BY <3>2, <3>3
  <2> QED
    BY <2>5, <2>6
<1> QED
  BY <1>4, <1>5, <1>6 DEF HeadInv, HeadIsKept

\* The invariant says more than the property: String reads from pos round.
LEMMA InvKeepsOutput == BufferInv => OutputIsKept
<1> SUFFICES ASSUME BufferInv PROVE OutputIsKept
  OBVIOUS
<1> USE BufferAssumption
<1>1. HeadIsKept
  BY DEF BufferInv, HeadInv
<1>2. written \in Nat /\ RingInv
  BY DEF BufferInv
<1>3. CASE full
  <2>1. stored = RingSize /\ written >= RingSize /\ Ring(data, pos, written)
    BY <1>2, <1>3 DEF RingInv
  <2>2. ASSUME NEW i \in 0..stored - 1
        PROVE  StringAt(i) = written - stored + 1 + i
    <3>1. pos \in 0..RingSize - 1 /\ i \in 0..RingSize - 1
      BY <2>1 DEF Ring, Places
    <3>2. CASE pos + i < RingSize
      <4>1. StringAt(i) = data[pos + i]
        BY <1>3, <3>2 DEF StringAt
      <4> QED
        BY <2>1, <3>1, <3>2, <4>1 DEF Ring, Places
    <3>3. CASE ~(pos + i < RingSize)
      <4>1. StringAt(i) = data[pos + i - RingSize]
        BY <1>3, <3>3 DEF StringAt
      <4> QED
        BY <1>2, <2>1, <3>1, <3>3, <4>1 DEF Ring, Places
    <3> QED
      BY <3>2, <3>3
  <2>3. stored = Least(written, RingSize)
    BY <1>2, <2>1 DEF Least
  <2> QED
    BY <1>1, <2>2, <2>3 DEF OutputIsKept, RingKeepsTail
<1>4. CASE ~full
  <2>1. /\ stored = written /\ stored < RingSize
        /\ \A i \in Places : i < stored => data[i] = i + 1
    BY <1>2, <1>4 DEF RingInv
  <2>2. \A i \in 0..stored - 1 : StringAt(i) = written - stored + 1 + i
    BY <1>2, <1>4, <2>1 DEF StringAt, Places
  <2>3. stored = Least(written, RingSize)
    BY <1>2, <2>1 DEF Least
  <2> QED
    BY <1>1, <2>2, <2>3 DEF OutputIsKept, RingKeepsTail
<1> QED
  BY <1>3, <1>4

-----------------------------------------------------------------------------
(* ringBuffer.Write, ringBuffer.String and cappedWriter.Write: whatever the *)
(* sizes of the buffers and of the writes, String returns the last bytes    *)
(* printed, in order, the capped writer holds the first ones, and it says   *)
(* that it truncated exactly when it dropped some.                          *)
THEOREM BuffersKeepOutput == BufferSpec => []OutputIsKept
<1>1. BufferInv /\ [BufferNext]_bufferVars => BufferInv'
  <2> SUFFICES ASSUME BufferInv, [BufferNext]_bufferVars
               PROVE  BufferInv'
    OBVIOUS
  <2>1. CASE UNCHANGED bufferVars
    BY <2>1 DEF bufferVars, ringVars, headVars, BufferInv, RingInv, HeadInv,
                HeadIsKept, Ring
  <2>2. ASSUME NEW n \in 1..MaxWritten, Write(n)
        PROVE  BufferInv'
    <3>1. /\ n \in Nat \ {0} /\ written \in Nat /\ RingInv /\ HeadInv
          /\ written' = written + n /\ HeadWrite(n) /\ written' \in Nat
      BY <2>2, BufferAssumption DEF BufferInv, Write
    <3>2. CASE Fill(n)
      BY <3>1, <3>2, FillKeepsRing, HeadWriteKeepsHead DEF BufferInv
    <3>3. CASE FillAndWrap(n)
      BY <3>1, <3>3, FillAndWrapKeepsRing, HeadWriteKeepsHead DEF BufferInv
    <3>4. CASE Overwrite(n)
      BY <3>1, <3>4, OverwriteKeepsRing, HeadWriteKeepsHead DEF BufferInv
    <3> QED
      BY <2>2, <3>2, <3>3, <3>4 DEF Write, RingWrite
  <2> QED
    BY <2>1, <2>2 DEF BufferNext
<1> QED
  BY <1>1, BufferInvInit, InvKeepsOutput, PTL DEF BufferSpec

-----------------------------------------------------------------------------
(* Runtime discovery: the inductive invariant.                              *)

\* A codex generated the schema the call reads.
Examined == by # NoCLI

DiscoveryTypes ==
    /\ cli \in CLIs /\ replaced \in BOOLEAN /\ goal \in {"features", "controls"}
    /\ options.experimental \in BOOLEAN
    /\ call \in {"help", "version", "require", "generate", "run", "read", "filter",
                 "returned"}
    /\ asked \in BOOLEAN /\ by \in CLIs \cup {NoCLI} /\ left \in BOOLEAN
    /\ result.kind \in {"none", "ok", "error"}

\* The steps of a call, and what it has at each.
CallInv ==
    /\ left => call \in {"run", "read"}
    /\ call # "returned" => result.kind = "none"
    /\ goal = "features" => call \notin {"help", "filter"}
    /\ goal = "controls" => call # "version"
    /\ goal = "controls" /\ call \in {"require", "generate", "run", "read"} => asked
    /\ call = "read" => Examined
    /\ Examined => call \in {"read", "filter", "returned"}

\* The experimental schema is asked for if the options say so, until a codex that
\* has none was found.
AskedInv ==
    /\ asked => options.experimental
    /\ goal = "controls" => asked = options.experimental
    /\ options.experimental /\ ~asked /\ ~replaced => cli.command # "experimental"

\* The codex that generated the schema knows how to, and is the one installed
\* unless it was replaced.
ByInv ==
    Examined =>
        /\ by.command = "experimental" \/ (by.command = "stable" /\ ~asked)
        /\ ~replaced => by = cli

\* The granular policy comes from an experimental schema alone.
PoliciesInv ==
    "granular" \in policies =>
        Examined /\ options.experimental /\ "granular" \in SchemaPolicies(by)

\* What a call that succeeded returned.
FeaturesInv ==
    Succeeded("features") =>
        \/ Examined /\ ~Malformed(by) /\ result.values = Proven(by)
        \/ /\ ~Examined /\ ~asked /\ result.values = {}
           /\ ~replaced => cli.command = "missing"
ControlsInv ==
    Succeeded("controls") =>
        /\ result.values = Filtered(policies, options.allowed)
        /\ result.values # {}

DiscoveryInv ==
    /\ DiscoveryTypes /\ CallInv /\ AskedInv /\ ByInv /\ PoliciesInv
    /\ FeaturesInv /\ ControlsInv

-----------------------------------------------------------------------------
(* Runtime discovery: the steps.                                            *)

LEMMA NoCLIFacts ==
    /\ NoCLI.command = "none"
    /\ \A c \in CLIs : c # NoCLI /\ c.command \in {"missing", "stable", "experimental"}
BY DEF NoCLI, CLIs

LEMMA DiscoveryStarts == DiscoveryInit => DiscoveryInv
<1> SUFFICES ASSUME DiscoveryInit
             PROVE  DiscoveryInv
  OBVIOUS
<1>1. /\ cli \in CLIs /\ replaced = FALSE /\ goal \in {"features", "controls"}
      /\ options.experimental \in BOOLEAN
      /\ call = IF goal = "features" THEN "version" ELSE "help"
      /\ asked = options.experimental /\ by = NoCLI /\ left = FALSE
      /\ policies = {} /\ result.kind = "none"
  BY DEF DiscoveryInit
<1>2. DiscoveryTypes
  BY <1>1 DEF DiscoveryTypes
<1>3. CallInv /\ AskedInv /\ ByInv /\ PoliciesInv
  BY <1>1 DEF CallInv, AskedInv, ByInv, PoliciesInv, Examined
<1>4. FeaturesInv /\ ControlsInv
  BY <1>1 DEF FeaturesInv, ControlsInv, Succeeded
<1>5. QED
  BY <1>2, <1>3, <1>4 DEF DiscoveryInv

\* A call that fails leaves nothing to say of what it returned.
LEMMA ErrorSaysNothing ==
    ASSUME NEW values, result' = [kind |-> "error", values |-> values]
    PROVE  result'.kind = "error" /\ FeaturesInv' /\ ControlsInv'
BY DEF FeaturesInv, ControlsInv, Succeeded

\* Nor does one that has not returned.
LEMMA NoneSaysNothing ==
    ASSUME result' = result, result.kind = "none"
    PROVE  FeaturesInv' /\ ControlsInv'
BY DEF FeaturesInv, ControlsInv, Succeeded

LEMMA ReplacedKeeps ==
    ASSUME DiscoveryInv, Replaced
    PROVE  DiscoveryInv'
<1> USE DEF Replaced
<1>1. DiscoveryTypes' /\ CallInv' /\ AskedInv' /\ ByInv'
  <2>1. cli' \in CLIs /\ replaced' = TRUE
    OBVIOUS
  <2>2. DiscoveryTypes'
    BY <2>1 DEF DiscoveryInv, DiscoveryTypes
  <2>3. CallInv'
    BY DEF DiscoveryInv, CallInv, Examined
  <2>4. AskedInv' /\ ByInv'
    BY <2>1 DEF DiscoveryInv, AskedInv, ByInv, Examined
  <2>5. QED
    BY <2>2, <2>3, <2>4
<1>2. PoliciesInv'
  BY DEF DiscoveryInv, PoliciesInv, SchemaPolicies, How, Examined
<1>3. FeaturesInv' /\ ControlsInv'
  BY NoneSaysNothing DEF DiscoveryInv, CallInv
<1>4. QED
  BY <1>1, <1>2, <1>3 DEF DiscoveryInv

LEMMA ControlsHelpKeeps ==
    ASSUME DiscoveryInv, ControlsHelp
    PROVE  DiscoveryInv'
<1>1. /\ call = "help" /\ policies' = Advertised(cli)
      /\ UNCHANGED <<cli, replaced, goal, options, asked, by, left>>
      /\ \/ Return("error", {})
         \/ call' = (IF asked THEN "require" ELSE "filter") /\ result' = result
  BY DEF ControlsHelp
<1>2. goal = "controls" /\ by = NoCLI /\ ~left /\ result.kind = "none"
  BY <1>1 DEF DiscoveryInv, DiscoveryTypes, CallInv, Examined
<1>3. FeaturesInv' /\ ControlsInv' /\ result'.kind \in {"none", "error"}
  BY <1>1, <1>2, ErrorSaysNothing, NoneSaysNothing DEF Return
<1>4. DiscoveryTypes' /\ CallInv'
  BY <1>1, <1>2, <1>3 DEF DiscoveryInv, DiscoveryTypes, CallInv, Examined, Return
<1>5. AskedInv' /\ ByInv'
  BY <1>1 DEF DiscoveryInv, AskedInv, ByInv, Examined
<1>6. PoliciesInv'
  BY <1>1 DEF PoliciesInv, Advertised, HelpPolicies
<1>7. QED
  BY <1>3, <1>4, <1>5, <1>6 DEF DiscoveryInv

LEMMA FeaturesVersionKeeps ==
    ASSUME DiscoveryInv, FeaturesVersion
    PROVE  DiscoveryInv'
<1>1. /\ call = "version" /\ call' = "require"
      /\ UNCHANGED <<cli, replaced, goal, options, asked, by, left, policies, result>>
  BY DEF FeaturesVersion
<1>2. DiscoveryTypes' /\ AskedInv' /\ ByInv'
  BY <1>1 DEF DiscoveryInv, DiscoveryTypes, AskedInv, ByInv, Examined
<1>3. CallInv'
  BY <1>1 DEF DiscoveryInv, CallInv, Examined
<1>4. PoliciesInv'
  BY <1>1 DEF DiscoveryInv, PoliciesInv, SchemaPolicies, How, Examined
<1>5. FeaturesInv' /\ ControlsInv'
  BY <1>1, NoneSaysNothing DEF DiscoveryInv, CallInv
<1>6. QED
  BY <1>2, <1>3, <1>4, <1>5 DEF DiscoveryInv

LEMMA RequireKeeps ==
    ASSUME DiscoveryInv, RequireSchemaCommand
    PROVE  DiscoveryInv'
<1>1. /\ call = "require"
      /\ UNCHANGED <<cli, replaced, goal, options, by, left, policies>>
  BY DEF RequireSchemaCommand
<1>2. by = NoCLI /\ ~left /\ result.kind = "none"
  BY <1>1 DEF DiscoveryInv, DiscoveryTypes, CallInv, Examined
<1>3. PoliciesInv'
  BY <1>1 DEF DiscoveryInv, PoliciesInv, SchemaPolicies, How, Examined
<1>4. ByInv'
  BY <1>1, <1>2 DEF ByInv, Examined
<1>5. CASE Advertises
  <2>1. call' = "generate" /\ UNCHANGED <<asked, result>>
    BY <1>5 DEF RequireSchemaCommand
  <2>2. DiscoveryTypes' /\ CallInv' /\ AskedInv'
    BY <1>1, <1>2, <2>1 DEF DiscoveryInv, DiscoveryTypes, CallInv, AskedInv, Examined
  <2>3. QED
    BY <1>2, <1>3, <1>4, <2>1, <2>2, NoneSaysNothing DEF DiscoveryInv
<1>6. CASE ~Advertises /\ FallsBack
  <2>1. asked' = FALSE /\ UNCHANGED <<call, result>>
    BY <1>6 DEF RequireSchemaCommand
  <2>2. goal = "features" /\ cli.command # "experimental"
    BY <1>6 DEF FallsBack, Advertises
  <2>3. DiscoveryTypes' /\ CallInv' /\ AskedInv'
    BY <1>1, <1>2, <2>1, <2>2
    DEF DiscoveryInv, DiscoveryTypes, CallInv, AskedInv, Examined
  <2>4. QED
    BY <1>2, <1>3, <1>4, <2>1, <2>3, NoneSaysNothing DEF DiscoveryInv
<1>7. CASE ~Advertises /\ ~FallsBack
  <2>1. /\ call' = "returned" /\ asked' = asked
        /\ result' = [kind |-> IF goal = "features" THEN "ok" ELSE "error",
                      values |-> {}]
    BY <1>7 DEF RequireSchemaCommand, Return
  <2>2. DiscoveryTypes' /\ CallInv' /\ AskedInv'
    BY <1>1, <1>2, <2>1 DEF DiscoveryInv, DiscoveryTypes, CallInv, AskedInv, Examined
  <2>3. goal = "features" => ~asked
    BY <1>7 DEF DiscoveryInv, DiscoveryTypes, FallsBack
  <2>4. ~asked => cli.command = "missing"
    BY <1>7, NoCLIFacts DEF DiscoveryInv, DiscoveryTypes, Advertises
  <2>5. FeaturesInv' /\ ControlsInv'
    <3>1. CASE goal = "features"
      <4>1. result'.kind = "ok" /\ result'.values = {}
        BY <2>1, <3>1
      <4>2. QED
        BY <1>1, <1>2, <2>1, <2>3, <2>4, <3>1, <4>1
        DEF FeaturesInv, ControlsInv, Succeeded, Examined
    <3>2. CASE goal # "features"
      BY <2>1, <3>2, ErrorSaysNothing
    <3>3. QED
      BY <3>1, <3>2
  <2>6. QED
    BY <1>3, <1>4, <2>2, <2>5 DEF DiscoveryInv
<1>8. QED
  BY <1>5, <1>6, <1>7

LEMMA GenerateKeeps ==
    ASSUME DiscoveryInv, MakeDirectory \/ GenerateSchema
    PROVE  DiscoveryInv'
<1>1. /\ call \in {"generate", "run"}
      /\ UNCHANGED <<cli, replaced, goal, options, asked, policies>>
  BY DEF MakeDirectory, GenerateSchema
<1>2. by = NoCLI /\ result.kind = "none"
  BY <1>1 DEF DiscoveryInv, DiscoveryTypes, CallInv, Examined
<1>3. PoliciesInv'
  BY <1>1, <1>2 DEF DiscoveryInv, PoliciesInv, Examined
<1>4. AskedInv'
  BY <1>1 DEF DiscoveryInv, AskedInv
<1>5. CASE MakeDirectory
  <2>1. DiscoveryTypes' /\ CallInv' /\ ByInv'
    BY <1>1, <1>2, <1>5
    DEF MakeDirectory, DiscoveryInv, DiscoveryTypes, CallInv, ByInv, Examined
  <2>2. QED
    BY <1>2, <1>3, <1>4, <1>5, <2>1, NoneSaysNothing DEF MakeDirectory, DiscoveryInv
<1>6. CASE GenerateSchema /\ Advertises
  <2>1. by' = cli /\ call' = "read" /\ UNCHANGED <<left, result>> /\ call = "run"
    BY <1>6 DEF GenerateSchema
  <2>2. by' \in CLIs /\ by' # NoCLI
    BY <2>1, NoCLIFacts DEF DiscoveryInv, DiscoveryTypes
  <2>3. DiscoveryTypes' /\ CallInv'
    BY <1>1, <1>2, <2>1, <2>2 DEF DiscoveryInv, DiscoveryTypes, CallInv, Examined
  <2>4. ByInv'
    BY <1>1, <1>6, <2>1 DEF ByInv, Advertises
  <2>5. QED
    BY <1>2, <1>3, <1>4, <2>1, <2>3, <2>4, NoneSaysNothing DEF DiscoveryInv
<1>7. CASE GenerateSchema /\ ~Advertises
  <2>1. /\ left' = FALSE /\ by' = by /\ call' = "returned"
        /\ result' = [kind |-> "error", values |-> {}]
    BY <1>7 DEF GenerateSchema, AfterCleanup, Return
  <2>2. DiscoveryTypes' /\ CallInv' /\ ByInv'
    BY <1>1, <1>2, <2>1 DEF DiscoveryInv, DiscoveryTypes, CallInv, ByInv, Examined
  <2>3. QED
    BY <1>3, <1>4, <2>1, <2>2, ErrorSaysNothing DEF DiscoveryInv
<1>8. QED
  BY <1>5, <1>6, <1>7

LEMMA ReadFeaturesKeeps ==
    ASSUME DiscoveryInv, ReadFeatures
    PROVE  DiscoveryInv'
<1>1. /\ call = "read" /\ goal = "features" /\ call' = "returned" /\ left' = FALSE
      /\ UNCHANGED <<cli, replaced, goal, options, asked, by, policies>>
      /\ \/ result' = [kind |-> "error", values |-> {}]
         \/ ~Malformed(by) /\ result' = [kind |-> "ok", values |-> Proven(by)]
  BY DEF ReadFeatures, Return, AfterCleanup
<1>2. Examined /\ result'.kind \in {"ok", "error"}
  BY <1>1 DEF DiscoveryInv, CallInv
<1>3. DiscoveryTypes' /\ CallInv' /\ AskedInv' /\ ByInv'
  BY <1>1, <1>2
  DEF DiscoveryInv, DiscoveryTypes, CallInv, AskedInv, ByInv, Examined
<1>4. PoliciesInv'
  BY <1>1 DEF DiscoveryInv, PoliciesInv, Examined
<1>5. FeaturesInv' /\ ControlsInv'
  <2>1. CASE result' = [kind |-> "error", values |-> {}]
    BY <2>1, ErrorSaysNothing
  <2>2. CASE ~Malformed(by) /\ result' = [kind |-> "ok", values |-> Proven(by)]
    <3>1. Malformed(by)' <=> Malformed(by)
      BY <1>1 DEF Malformed, Looked, How
    <3>2. Proven(by)' = Proven(by)
      BY <1>1 DEF Proven, Looked, Present, How
    <3>3. QED
      BY <1>1, <1>2, <2>2, <3>1, <3>2
      DEF FeaturesInv, ControlsInv, Succeeded, Examined
  <2>3. QED
    BY <1>1, <2>1, <2>2
<1>6. QED
  BY <1>3, <1>4, <1>5 DEF DiscoveryInv

LEMMA ReadPoliciesKeeps ==
    ASSUME DiscoveryInv, ReadPolicies
    PROVE  DiscoveryInv'
<1>1. /\ call = "read" /\ goal = "controls" /\ left' = FALSE
      /\ UNCHANGED <<cli, replaced, goal, options, asked, by>>
      /\ \/ /\ result' = [kind |-> "error", values |-> {}]
            /\ call' = "returned" /\ policies' = policies
         \/ /\ policies' = policies \cup SchemaPolicies(by)
            /\ call' = "filter" /\ result' = result
  BY DEF ReadPolicies, Return, AfterCleanup
<1>2. Examined /\ result.kind = "none"
  BY <1>1 DEF DiscoveryInv, CallInv
<1>3. FeaturesInv' /\ ControlsInv' /\ result'.kind \in {"none", "error"}
  BY <1>1, <1>2, ErrorSaysNothing, NoneSaysNothing
<1>4. DiscoveryTypes' /\ CallInv' /\ AskedInv' /\ ByInv'
  BY <1>1, <1>2, <1>3
  DEF DiscoveryInv, DiscoveryTypes, CallInv, AskedInv, ByInv, Examined
<1>5. PoliciesInv'
  <2>1. options.experimental
    BY <1>1 DEF DiscoveryInv, CallInv, AskedInv
  <2>2. SchemaPolicies(by)' = SchemaPolicies(by)
    BY <1>1 DEF SchemaPolicies, How
  <2>3. "granular" \in policies => "granular" \in SchemaPolicies(by)
    BY DEF DiscoveryInv, PoliciesInv
  <2>4. QED
    BY <1>1, <1>2, <2>1, <2>2, <2>3 DEF PoliciesInv, Examined
<1>6. QED
  BY <1>3, <1>4, <1>5 DEF DiscoveryInv

LEMMA FilterKeeps ==
    ASSUME DiscoveryInv, FilterPolicies
    PROVE  DiscoveryInv'
<1> DEFINE offered == Filtered(policies, options.allowed)
<1>1. /\ call = "filter" /\ call' = "returned"
      /\ UNCHANGED <<cli, replaced, goal, options, asked, by, left, policies>>
      /\ \/ result' = [kind |-> "error", values |-> {}]
         \/ offered # {} /\ result' = [kind |-> "ok", values |-> offered]
  BY DEF FilterPolicies, Return
<1>2. goal = "controls" /\ ~left /\ result'.kind \in {"ok", "error"}
  BY <1>1 DEF DiscoveryInv, DiscoveryTypes, CallInv
<1>3. DiscoveryTypes' /\ CallInv' /\ AskedInv' /\ ByInv'
  BY <1>1, <1>2
  DEF DiscoveryInv, DiscoveryTypes, CallInv, AskedInv, ByInv, Examined
<1>4. PoliciesInv'
  BY <1>1 DEF DiscoveryInv, PoliciesInv, Examined, SchemaPolicies, How
<1>5. FeaturesInv' /\ ControlsInv'
  <2>1. CASE result' = [kind |-> "error", values |-> {}]
    BY <2>1, ErrorSaysNothing
  <2>2. CASE offered # {} /\ result' = [kind |-> "ok", values |-> offered]
    <3>1. result'.kind = "ok" /\ result'.values = offered
      BY <2>2
    <3>2. offered' = offered
      BY <1>1 DEF Filtered, AllowedPolicies
    <3>3. QED
      BY <1>1, <1>2, <2>2, <3>1, <3>2 DEF FeaturesInv, ControlsInv, Succeeded
  <2>3. QED
    BY <1>1, <2>1, <2>2
<1>6. QED
  BY <1>3, <1>4, <1>5 DEF DiscoveryInv

LEMMA RunFailsKeeps ==
    ASSUME DiscoveryInv, RunFails
    PROVE  DiscoveryInv'
<1>1. /\ left' = FALSE /\ call' = "returned"
      /\ call \in {"version", "help", "require", "run", "filter"}
      /\ result' = [kind |-> "error", values |-> {}]
      /\ UNCHANGED <<cli, replaced, goal, options, asked, by, policies>>
  BY DEF RunFails, Return, AfterCleanup
<1>2. DiscoveryTypes' /\ CallInv' /\ AskedInv' /\ ByInv'
  BY <1>1 DEF DiscoveryInv, DiscoveryTypes, CallInv, AskedInv, ByInv, Examined
<1>3. PoliciesInv'
  BY <1>1 DEF DiscoveryInv, PoliciesInv, Examined, SchemaPolicies, How
<1>4. QED
  BY <1>1, <1>2, <1>3, ErrorSaysNothing DEF DiscoveryInv

LEMMA DiscoveryInductive == DiscoverySpec => []DiscoveryInv
<1>1. DiscoveryInv /\ UNCHANGED discoveryVars => DiscoveryInv'
  <2> SUFFICES ASSUME DiscoveryInv, UNCHANGED discoveryVars
               PROVE  DiscoveryInv'
    OBVIOUS
  <2>1. DiscoveryTypes' /\ CallInv' /\ AskedInv' /\ ByInv'
    BY DEF discoveryVars, DiscoveryInv, DiscoveryTypes, CallInv, AskedInv, ByInv,
           Examined
  <2>2. PoliciesInv'
    BY DEF discoveryVars, DiscoveryInv, PoliciesInv, Examined, SchemaPolicies, How
  <2>3. FeaturesInv'
    <3>1. (Malformed(by)' <=> Malformed(by)) /\ Proven(by)' = Proven(by)
      BY DEF discoveryVars, Malformed, Proven, Looked, Present, How
    <3>2. QED
      BY <3>1 DEF discoveryVars, DiscoveryInv, FeaturesInv, Succeeded, Examined
  <2>4. ControlsInv'
    BY DEF discoveryVars, DiscoveryInv, ControlsInv, Succeeded, Filtered,
           AllowedPolicies
  <2>5. QED
    BY <2>1, <2>2, <2>3, <2>4 DEF DiscoveryInv
<1>2. DiscoveryInv /\ [DiscoveryNext]_discoveryVars => DiscoveryInv'
  BY <1>1, ReplacedKeeps, ControlsHelpKeeps, FeaturesVersionKeeps, RequireKeeps,
     GenerateKeeps, ReadFeaturesKeeps, ReadPoliciesKeeps, FilterKeeps, RunFailsKeeps
  DEF DiscoveryNext
<1>3. QED
  BY <1>2, DiscoveryStarts, PTL DEF DiscoverySpec

-----------------------------------------------------------------------------
(* Runtime discovery: what a schema that was looked at proves.              *)

\* What matches has what is required of it, and nothing else if it is a request.
LEMMA MatchFacts ==
    ASSUME NEW c, NEW file, FileMatches(c, file)
    PROVE  /\ Schema(c, file).object
           /\ Required(file) \subseteq Schema(c, file).required
           /\ Required(file) \cup Optional(file) \subseteq Schema(c, file).fields
           /\ file \in Requests => Schema(c, file).required = Required(file)
BY DEF FileMatches, ObjectMatches, OnlyRequired

LEMMA FilesFacts ==
    /\ FilesOf("SubAgentActivity") = {"ItemStarted"}
    /\ FilesOf("TurnInterrupt") = {"InterruptParams", "InterruptResponse"}
    /\ FilesOf("List") = {"ListParams", "ListResponse"}
    /\ FilesOf("Terminate") = {"TerminateParams", "TerminateResponse"}
    /\ FilesOf("Clean") = {"CleanParams", "CleanResponse"}
BY DEF FilesOf

LEMMA RequiredFacts ==
    /\ Required("ItemStarted") = {"agentPath", "agentThreadId", "id", "kind", "type"}
    /\ Required("InterruptParams") = {"threadId", "turnId"}
    /\ Required("ListParams") = {"threadId"}
    /\ Required("ListResponse") = {"data", "command", "cwd", "itemId", "processId"}
    /\ Required("TerminateParams") = {"threadId", "processId"}
    /\ Required("TerminateResponse") = {"terminated"}
    /\ Required("CleanParams") = {"threadId"}
BY DEF Required

LEMMA OptionalFacts ==
    /\ Optional("ListParams") = {"cursor", "limit"}
    /\ Optional("ListResponse") = {"nextCursor", "osPid", "cpuPercent", "rssKb"}
    /\ \A file : file \notin {"ListParams", "ListResponse"} => Optional(file) = {}
BY DEF Optional

LEMMA SendsFacts ==
    /\ Sends("TurnInterrupt") = {{"threadId", "turnId"}}
    /\ Sends("List") = {{"threadId", "limit"}, {"threadId", "limit", "cursor"}}
    /\ Sends("Terminate") = {{"threadId", "processId"}}
    /\ Sends("Clean") = {{"threadId"}}
BY DEF Sends

LEMMA ReadsFacts ==
    /\ Reads("SubAgentActivity") = {"id", "kind", "agentThreadId"}
    /\ Reads("TurnInterrupt") = {}
    /\ Reads("List") = {"data", "itemId", "processId"}
    /\ Reads("Terminate") = {"terminated"}
    /\ Reads("Clean") = {}
BY DEF Reads

\* What is sent has what a request requires and no field that it does not know;
\* what is read is required of a response.
LEMMA SentAndRead ==
    ASSUME NEW f \in StableFeatures \cup TerminalFeatures, NEW file \in FilesOf(f)
    PROVE  /\ file \in Requests =>
                \A sent \in Sends(f) : /\ Required(file) \subseteq sent
                                       /\ sent \subseteq Required(file) \cup Optional(file)
           /\ file \notin Requests => Reads(f) \subseteq Required(file)
<1>1. CASE f = "SubAgentActivity"
  <2>1. file = "ItemStarted"
    BY <1>1, FilesFacts
  <2>2. QED
    BY <1>1, <2>1, RequiredFacts, ReadsFacts DEF Requests
<1>2. CASE f = "TurnInterrupt"
  <2>1. CASE file = "InterruptParams"
    BY <1>2, <2>1, RequiredFacts, SendsFacts DEF Requests
  <2>2. CASE file = "InterruptResponse"
    BY <1>2, <2>2, ReadsFacts DEF Requests
  <2>3. QED
    BY <1>2, <2>1, <2>2, FilesFacts
<1>3. CASE f = "List"
  <2>1. CASE file = "ListParams"
    BY <1>3, <2>1, RequiredFacts, OptionalFacts, SendsFacts DEF Requests
  <2>2. CASE file = "ListResponse"
    BY <1>3, <2>2, RequiredFacts, ReadsFacts DEF Requests
  <2>3. QED
    BY <1>3, <2>1, <2>2, FilesFacts
<1>4. CASE f = "Terminate"
  <2>1. CASE file = "TerminateParams"
    BY <1>4, <2>1, RequiredFacts, SendsFacts DEF Requests
  <2>2. CASE file = "TerminateResponse"
    BY <1>4, <2>2, RequiredFacts, ReadsFacts DEF Requests
  <2>3. QED
    BY <1>4, <2>1, <2>2, FilesFacts
<1>5. CASE f = "Clean"
  <2>1. CASE file = "CleanParams"
    BY <1>5, <2>1, RequiredFacts, SendsFacts DEF Requests
  <2>2. CASE file = "CleanResponse"
    BY <1>5, <2>2, ReadsFacts DEF Requests
  <2>3. QED
    BY <1>5, <2>1, <2>2, FilesFacts
<1>6. QED
  BY <1>1, <1>2, <1>3, <1>4, <1>5 DEF StableFeatures, TerminalFeatures

LEMMA ProvenFeatureIsUsable ==
    ASSUME NEW c, ~Malformed(c), NEW f \in Proven(c)
    PROVE  Usable(c, f)
<1>1. f \in Looked /\ \A file \in FilesOf(f) : Present(c, file) /\ FileMatches(c, file)
  BY DEF Proven
<1>2. f \in StableFeatures \cup TerminalFeatures
  BY <1>1 DEF Looked
<1>3. ASSUME NEW file \in FilesOf(f)
      PROVE  /\ How(c, file) \notin {"absent", "malformed"}
             /\ file \in Requests =>
                  \A sent \in Sends(f) : Accepts(Schema(c, file), sent)
             /\ file \notin Requests => Delivers(Schema(c, file), Reads(f))
  <2>1. How(c, file) \notin {"absent", "malformed"}
    BY <1>1, <1>3 DEF Present, Malformed
  <2>2. FileMatches(c, file)
    BY <1>1, <1>3
  <2>3. /\ Schema(c, file).object
        /\ Required(file) \subseteq Schema(c, file).required
        /\ Required(file) \cup Optional(file) \subseteq Schema(c, file).fields
        /\ file \in Requests => Schema(c, file).required = Required(file)
    BY <2>2, MatchFacts
  <2>4. /\ file \in Requests =>
             \A sent \in Sends(f) : /\ Required(file) \subseteq sent
                                    /\ sent \subseteq Required(file) \cup Optional(file)
        /\ file \notin Requests => Reads(f) \subseteq Required(file)
    BY <1>2, <1>3, SentAndRead
  <2>5. file \in Requests => \A sent \in Sends(f) : Accepts(Schema(c, file), sent)
    BY <2>3, <2>4 DEF Accepts
  <2>6. file \notin Requests => Delivers(Schema(c, file), Reads(f))
    BY <2>3, <2>4 DEF Delivers
  <2>7. QED
    BY <2>1, <2>5, <2>6
<1>4. QED
  BY <1>3 DEF Usable

\* Of a codex that deviates in nothing, everything that is looked for is proven.
LEMMA SoundMatches ==
    ASSUME NEW c, c.odd = Sound, NEW f \in StableFeatures \cup TerminalFeatures,
           NEW file \in FilesOf(f)
    PROVE  How(c, file) = "none" /\ FileMatches(c, file)
<1>1. How(c, file) = "none"
  BY DEF How, Sound
<1>2. /\ Schema(c, file).object
      /\ Schema(c, file).required = Required(file)
      /\ Required(file) \cup Optional(file) \subseteq Schema(c, file).fields
  <2>1. /\ Schema(c, file).object = (How(c, file) # "noObject")
        /\ Schema(c, file).required
              = CASE How(c, file) = "demandsMore" -> Required(file) \cup {"new"}
                  [] How(c, file) = "demandsLess" -> {}
                  [] OTHER -> Required(file)
        /\ Schema(c, file).fields
              = IF How(c, file) = "otherTypes" THEN {}
                ELSE Required(file) \cup Optional(file) \cup {"new"}
    BY DEF Schema
  <2>2. QED
    BY <1>1, <2>1
<1>3. Optional(file) \cap Required(file) = {}
  <2>1. CASE file = "ListParams"
    BY <2>1, OptionalFacts, RequiredFacts
  <2>2. CASE file = "ListResponse"
    BY <2>2, OptionalFacts, RequiredFacts
  <2>3. CASE file \notin {"ListParams", "ListResponse"}
    BY <2>3, OptionalFacts
  <2>4. QED
    BY <2>1, <2>2, <2>3
<1>4. QED
  BY <1>1, <1>2, <1>3 DEF FileMatches, ObjectMatches, OnlyRequired

LEMMA SoundIsProven ==
    ASSUME NEW c, c.odd = Sound
    PROVE  Proven(c) = Looked
<1>1. ASSUME NEW f \in Looked, NEW file \in FilesOf(f)
      PROVE  Present(c, file) /\ FileMatches(c, file)
  <2>1. f \in StableFeatures \cup TerminalFeatures
    BY DEF Looked
  <2>2. How(c, file) = "none" /\ FileMatches(c, file)
    BY <1>1, <2>1, SoundMatches
  <2>3. asked \/ f \in StableFeatures
    BY DEF Looked
  <2>4. QED
    BY <1>1, <2>2, <2>3 DEF Present
<1>2. QED
  BY <1>1 DEF Proven

\* DiscoverRuntimeFeatures reports only what the codex that generated the schema
\* accepts as the SDK sends it and answers as the SDK reads it; an installed codex
\* that deviates in nothing and is not replaced has all its features reported; and
\* cleanup has removed the directory when the call returns.
THEOREM ProvenIsAlwaysUsable == DiscoverySpec => []ProvenIsUsable
<1>1. DiscoveryInv => ProvenIsUsable
  <2> SUFFICES ASSUME DiscoveryInv
               PROVE  ProvenIsUsable
    OBVIOUS
  <2>1. call = "returned" => ~left
    BY DEF DiscoveryInv, CallInv
  <2>2. ASSUME Succeeded("features")
        PROVE  /\ \A f \in result.values : Usable(by, f)
               /\ result.values \cap TerminalFeatures # {} => options.experimental
               /\ by # NoCLI => ~Malformed(by)
    <3>1. \/ Examined /\ ~Malformed(by) /\ result.values = Proven(by)
          \/ ~Examined /\ result.values = {}
      BY <2>2 DEF DiscoveryInv, FeaturesInv
    <3>2. result.values \subseteq Looked
      BY <3>1 DEF Proven
    <3>3. asked \/ Looked \cap TerminalFeatures = {}
      BY DEF Looked, StableFeatures, TerminalFeatures
    <3>4. asked => options.experimental
      BY DEF DiscoveryInv, AskedInv
    <3>5. \A f \in result.values : Usable(by, f)
      BY <3>1, ProvenFeatureIsUsable
    <3>6. QED
      BY <3>1, <3>2, <3>3, <3>4, <3>5 DEF Examined
  <2>3. ASSUME Succeeded("features"), ~replaced, cli.odd = Sound
        PROVE  result.values =
                    CASE cli.command = "missing" -> {}
                      [] cli.command = "experimental" /\ options.experimental ->
                            StableFeatures \cup TerminalFeatures
                      [] OTHER -> StableFeatures
    <3>1. CASE Examined /\ result.values = Proven(by)
      <4>1. by = cli
        BY <2>3, <3>1 DEF DiscoveryInv, ByInv
      <4>2. cli.command = "experimental" \/ (cli.command = "stable" /\ ~asked)
        BY <3>1, <4>1 DEF DiscoveryInv, ByInv
      <4>3. result.values = Looked
        BY <2>3, <3>1, <4>1, SoundIsProven
      <4>4. CASE cli.command = "experimental" /\ options.experimental
        <5>1. asked
          BY <2>3, <4>4 DEF DiscoveryInv, DiscoveryTypes, AskedInv
        <5>2. result.values = StableFeatures \cup TerminalFeatures
          BY <4>3, <5>1 DEF Looked
        <5>3. QED
          BY <4>4, <5>2
      <4>5. CASE ~(cli.command = "experimental" /\ options.experimental)
        <5>1. ~asked
          BY <4>2, <4>5 DEF DiscoveryInv, AskedInv
        <5>2. result.values = StableFeatures
          BY <4>3, <5>1 DEF Looked
        <5>3. cli.command # "missing"
          BY <4>2
        <5>4. QED
          BY <4>5, <5>2, <5>3
      <4>6. QED
        BY <4>4, <4>5
    <3>2. CASE ~Examined /\ result.values = {} /\ cli.command = "missing"
      BY <3>2
    <3>3. QED
      BY <2>3, <3>1, <3>2 DEF DiscoveryInv, FeaturesInv
  <2>4. QED
    BY <2>1, <2>2, <2>3 DEF ProvenIsUsable
<1>2. QED
  BY <1>1, DiscoveryInductive, PTL

\* DiscoverRuntimeControls offers something or fails; every policy it offers is
\* allowed in the form encodeApprovalPolicy gives it, and the granular one comes
\* from the experimental schema the options ask for.
THEOREM OffersAreAlwaysAllowed == DiscoverySpec => []OffersAreAllowed
<1>1. ASSUME NEW allowed, allowed # Unrestricted,
             NEW values, NEW p \in Filtered(values, allowed)
      PROVE  Wire(p) \in allowed
  BY <1>1 DEF Filtered, AllowedPolicies, Wire
<1>2. DiscoveryInv => OffersAreAllowed
  <2> SUFFICES ASSUME DiscoveryInv, Succeeded("controls")
               PROVE  /\ result.values # {}
                      /\ options.allowed # Unrestricted =>
                            \A p \in result.values : Wire(p) \in options.allowed
                      /\ "granular" \in result.values =>
                            options.experimental /\ "granular" \in SchemaPolicies(by)
    BY DEF OffersAreAllowed
  <2>1. /\ result.values = Filtered(policies, options.allowed)
        /\ result.values # {}
    BY DEF DiscoveryInv, ControlsInv
  <2>2. result.values \subseteq policies
    BY <2>1 DEF Filtered
  <2>3. "granular" \in policies =>
           options.experimental /\ "granular" \in SchemaPolicies(by)
    BY DEF DiscoveryInv, PoliciesInv
  <2>4. QED
    BY <1>1, <2>1, <2>2, <2>3
<1>3. QED
  BY <1>2, DiscoveryInductive, PTL

-----------------------------------------------------------------------------
(* Induction over the numbers, in a set.                                    *)

LEMMA InSetOfAll ==
    ASSUME NEW S, 0 \in S, \A n \in Nat : n \in S => n + 1 \in S
    PROVE  Nat \subseteq S
<1> DEFINE T == Nat \ S
<1>1. SUFFICES ASSUME T # {}
               PROVE  FALSE
  OBVIOUS
<1>2. PICK n \in T : \A m \in T : <<m, n>> \notin OpToRel(<, Nat)
  BY <1>1, NatLessThanWellFounded, WFMin
<1>3. n # 0 /\ n - 1 \in Nat /\ n - 1 < n /\ (n - 1) + 1 = n
  OBVIOUS
<1>4. n - 1 \notin T
  BY <1>2, <1>3 DEF OpToRel
<1>5. QED
  BY <1>3, <1>4

-----------------------------------------------------------------------------
(* Windows over a thread: the messages of a growing history.                *)

Item == [kind : ItemKinds, at : Nat]

\* How many messages there are after n items, as a function, and the step of its
\* recursion.
StepOf(items, f, n) ==
    IF n = 0 THEN <<>>
    ELSE IF IsMessage(items[n]) THEN Append(f[n - 1], items[n])
    ELSE f[n - 1]
Selects(items, f) == f = [n \in 0 .. Len(items) |-> StepOf(items, f, n)]

LEMMA SelectionExists ==
    ASSUME NEW S, NEW items \in Seq(S)
    PROVE  \E f : Selects(items, f)
<1> DEFINE Partly(n) == \E f : /\ DOMAIN f = 0 .. n
                               /\ f = [k \in 0 .. n |-> StepOf(items, f, k)]
           P == {n \in Nat : Partly(n)}
<1>1. 0 \in P
  <2> DEFINE f == [k \in 0 .. 0 |-> <<>>]
  <2>1. \A k \in 0 .. 0 : StepOf(items, f, k) = <<>>
    BY DEF StepOf
  <2>2. f = [k \in 0 .. 0 |-> StepOf(items, f, k)] /\ DOMAIN f = 0 .. 0
    BY <2>1
  <2>3. QED
    BY <2>2
<1>2. ASSUME NEW n \in Nat, n \in P
      PROVE  n + 1 \in P
  <2>1. PICK f : DOMAIN f = 0 .. n /\ f = [k \in 0 .. n |-> StepOf(items, f, k)]
    BY <1>2
  <2> DEFINE g == [k \in 0 .. n + 1 |->
                      IF k = n + 1 THEN StepOf(items, f, n + 1) ELSE f[k]]
  <2>2. ASSUME NEW k \in 0 .. n + 1
        PROVE  g[k] = StepOf(items, g, k)
    <3>1. k = 0 \/ (k - 1 \in 0 .. n /\ k - 1 # n + 1)
      OBVIOUS
    <3>2. k # 0 => g[k - 1] = f[k - 1]
      BY <3>1
    <3>3. StepOf(items, g, k) = StepOf(items, f, k)
      BY <3>2 DEF StepOf
    <3>4. CASE k = n + 1
      BY <3>3, <3>4
    <3>5. CASE k \in 0 .. n
      <4>1. g[k] = f[k]
        BY <3>5
      <4>2. f[k] = StepOf(items, f, k)
        BY <2>1, <3>5
      <4>3. QED
        BY <3>3, <4>1, <4>2
    <3>6. QED
      BY <3>4, <3>5
  <2>3. g = [k \in 0 .. n + 1 |-> StepOf(items, g, k)]
    BY <2>2
  <2>4. DOMAIN g = 0 .. n + 1
    OBVIOUS
  <2> HIDE DEF g
  <2>5. Partly(n + 1)
    BY <2>3, <2>4
  <2>6. QED
    BY <2>5
<1>3. Len(items) \in P
  <2> HIDE DEF P
  <2>1. Nat \subseteq P
    BY <1>1, <1>2, InSetOfAll
  <2>2. QED
    BY <2>1
<1>4. QED
  BY <1>3 DEF Selects

\* The function that Messages takes the last value of.
Selection(items) == CHOOSE f : Selects(items, f)

LEMMA SelectionFacts ==
    ASSUME NEW S, NEW items \in Seq(S)
    PROVE  /\ Messages(items) = Selection(items)[Len(items)]
           /\ \A n \in 0 .. Len(items) :
                 Selection(items)[n] = StepOf(items, Selection(items), n)
<1> DEFINE f == Selection(items)
<1>1. Selects(items, f)
  BY SelectionExists DEF Selection
<1>2. \A n \in 0 .. Len(items) : f[n] = StepOf(items, f, n)
  <2> HIDE DEF f
  <2>1. QED
    BY <1>1 DEF Selects
<1>3. Messages(items) = f[Len(items)]
  BY DEF Messages, Selection, Selects, StepOf
<1>4. QED
  BY <1>2, <1>3

\* Messages are items of the history, and what is appended to a history comes
\* behind the messages it has.
LEMMA MessagesFacts ==
    ASSUME NEW S, NEW items \in Seq(S)
    PROVE  /\ Messages(items) \in Seq(S)
           /\ Messages(<<>>) = <<>>
           /\ \A x \in S : Messages(Append(items, x))
                             = IF IsMessage(x) THEN Append(Messages(items), x)
                               ELSE Messages(items)
<1> DEFINE f == Selection(items)
<1>1. /\ Messages(items) = f[Len(items)]
      /\ \A n \in 0 .. Len(items) : f[n] = StepOf(items, f, n)
  BY SelectionFacts
<1>2. Messages(items) \in Seq(S)
  <2> DEFINE P == {n \in Nat : n <= Len(items) => f[n] \in Seq(S)}
  <2> HIDE DEF f
  <2>1. 0 \in P
    <3>1. f[0] = StepOf(items, f, 0)
      BY <1>1
    <3>2. f[0] = <<>>
      BY <3>1 DEF StepOf
    <3>3. <<>> \in Seq(S)
      OBVIOUS
    <3>4. QED
      BY <3>2, <3>3
  <2>2. ASSUME NEW n \in Nat, n \in P
        PROVE  n + 1 \in P
    <3>1. SUFFICES ASSUME n + 1 <= Len(items)
                   PROVE  f[n + 1] \in Seq(S)
      OBVIOUS
    <3>2. f[n] \in Seq(S) /\ items[n + 1] \in S
      BY <2>2, <3>1
    <3>3. f[n + 1] = StepOf(items, f, n + 1) /\ (n + 1) - 1 = n /\ n + 1 # 0
      BY <1>1, <3>1
    <3>4. f[n + 1] = f[n] \/ f[n + 1] = Append(f[n], items[n + 1])
      BY <3>3 DEF StepOf
    <3>5. Append(f[n], items[n + 1]) \in Seq(S)
      <4>1. ASSUME NEW t \in Seq(S), NEW x \in S
            PROVE  Append(t, x) \in Seq(S)
        OBVIOUS
      <4>2. QED
        BY <3>2, <4>1
    <3>6. QED
      BY <3>2, <3>4, <3>5
  <2>3. Nat \subseteq P
    <3> HIDE DEF P
    <3>1. QED
      BY <2>1, <2>2, InSetOfAll
  <2>4. QED
    BY <1>1, <2>3
<1>3. Messages(<<>>) = <<>>
  <2>1. <<>> \in Seq(S) /\ Len(<<>>) = 0
    OBVIOUS
  <2>2. ASSUME NEW none \in Seq(S), none = <<>>, Len(none) = 0
        PROVE  Messages(none) = Selection(none)[0]
                 /\ Selection(none)[0] = StepOf(none, Selection(none), 0)
    <3>1. 0 \in 0 .. Len(none)
      BY <2>2
    <3>2. /\ Messages(none) = Selection(none)[Len(none)]
          /\ \A n \in 0 .. Len(none) :
                Selection(none)[n] = StepOf(none, Selection(none), n)
      BY SelectionFacts
    <3>3. Selection(none)[0] = StepOf(none, Selection(none), 0)
      BY <3>1, <3>2
    <3>4. Messages(none) = Selection(none)[0]
      BY <2>2, <3>2
    <3>5. QED
      BY <3>3, <3>4
  <2>3. Messages(<<>>) = StepOf(<<>>, Selection(<<>>), 0)
    BY <2>1, <2>2
  <2>4. QED
    BY <2>3 DEF StepOf
<1>4. ASSUME NEW x \in S
      PROVE  Messages(Append(items, x))
               = IF IsMessage(x) THEN Append(Messages(items), x) ELSE Messages(items)
  <2> DEFINE more == Append(items, x)
             g == Selection(more)
  <2>1. /\ more \in Seq(S) /\ Len(more) = Len(items) + 1
        /\ more[Len(items) + 1] = x
        /\ \A n \in 1 .. Len(items) : more[n] = items[n]
    OBVIOUS
  <2>2. /\ Messages(more) = g[Len(items) + 1]
        /\ \A n \in 0 .. Len(items) + 1 : g[n] = StepOf(more, g, n)
    BY <2>1, SelectionFacts
  <2> DEFINE P == {n \in Nat : n <= Len(items) => g[n] = f[n]}
  <2> HIDE DEF more, g, f
  <2>3. 0 \in P
    BY <1>1, <2>2 DEF StepOf
  <2>4. ASSUME NEW n \in Nat, n \in P
        PROVE  n + 1 \in P
    <3>1. SUFFICES ASSUME n + 1 <= Len(items)
                   PROVE  g[n + 1] = f[n + 1]
      OBVIOUS
    <3>2. g[n] = f[n] /\ more[n + 1] = items[n + 1]
      BY <2>1, <2>4, <3>1
    <3>3. /\ f[n + 1] = StepOf(items, f, n + 1) /\ g[n + 1] = StepOf(more, g, n + 1)
          /\ (n + 1) - 1 = n /\ n + 1 # 0
      BY <1>1, <2>2, <3>1
    <3>4. QED
      BY <3>2, <3>3 DEF StepOf
  <2>5. Nat \subseteq P
    <3> HIDE DEF P
    <3>1. QED
      BY <2>3, <2>4, InSetOfAll
  <2>6. g[Len(items)] = f[Len(items)]
    BY <2>5
  <2>7. g[Len(items) + 1] = StepOf(more, g, Len(items) + 1)
    BY <2>2
  <2>8. (Len(items) + 1) - 1 = Len(items) /\ Len(items) + 1 # 0
    OBVIOUS
  <2>9. g[Len(items) + 1]
          = IF IsMessage(x) THEN Append(g[Len(items)], x) ELSE g[Len(items)]
    BY <2>1, <2>7, <2>8 DEF StepOf
  <2>10. QED
    BY <1>1, <2>2, <2>6, <2>9 DEF more
<1>5. QED
  BY <1>2, <1>3, <1>4

-----------------------------------------------------------------------------
\* One sequence begins another.
Begins(s, t) == Len(s) <= Len(t) /\ \A k \in 1 .. Len(s) : s[k] = t[k]

LEMMA BeginsFacts ==
    ASSUME NEW S, NEW s \in Seq(S), NEW t \in Seq(S)
    PROVE  /\ Begins(s, s)
           /\ Begins(s, t) => IsPrefix(s, t)
           /\ Begins(s, t) /\ Len(s) = Len(t) => s = t
           /\ \A x \in S : Begins(s, t) => Begins(s, Append(t, x))
<1>1. Begins(s, s)
  BY DEF Begins
<1>2. ASSUME Begins(s, t)
      PROVE  IsPrefix(s, t)
  BY <1>2 DEF Begins, IsPrefix
<1>3. ASSUME Begins(s, t), Len(s) = Len(t)
      PROVE  s = t
  BY <1>3 DEF Begins
<1>4. ASSUME NEW x \in S, Begins(s, t)
      PROVE  Begins(s, Append(t, x))
  BY <1>4 DEF Begins
<1>5. QED
  BY <1>1, <1>2, <1>3, <1>4

\* A window goes on where the caller stopped, and is short only at the end.
LEMMA WindowFacts ==
    ASSUME NEW S, NEW m \in Seq(S), NEW s \in Seq(S), Begins(s, m)
    PROVE  LET w == Window(m, Len(s))
           IN  /\ s \o w \in Seq(S)
               /\ Begins(s \o w, m)
               /\ Len(w) < Limit \/ Limit = 0 => s \o w = m
<1> DEFINE rest == SubSeq(m, Len(s) + 1, Len(m))
           w == Window(m, Len(s))
<1>1. Len(s) \in Nat /\ Len(m) \in Nat /\ Len(s) <= Len(m)
  BY DEF Begins
<1>2. /\ rest \in Seq(S) /\ Len(rest) = Len(m) - Len(s)
      /\ \A k \in 1 .. Len(rest) : rest[k] = m[Len(s) + k]
  BY <1>1
<1>3. FromOffset(Len(s), Len(m)) = Len(s)
  BY <1>1 DEF FromOffset
<1>4. w = IF Limit > 0 /\ Limit < Len(rest) THEN SubSeq(rest, 1, Limit) ELSE rest
  BY <1>3 DEF Window
<1> HIDE DEF rest, w
<1>5. /\ w \in Seq(S) /\ Len(w) <= Len(rest)
      /\ \A k \in 1 .. Len(w) : w[k] = m[Len(s) + k]
      /\ Len(w) < Limit \/ Limit = 0 => Len(w) = Len(rest)
  <2>1. CASE Limit > 0 /\ Limit < Len(rest)
    <3>1. w = SubSeq(rest, 1, Limit)
      BY <1>4, <2>1
    <3>2. w \in Seq(S) /\ Len(w) = Limit /\ \A k \in 1 .. Limit : w[k] = rest[k]
      BY <1>2, <2>1, <3>1, HistoryAssumption
    <3>3. Limit \in Nat /\ Len(rest) \in Nat /\ Limit \in 1 .. Len(rest)
      BY <1>2, <2>1, HistoryAssumption
    <3>4. \A k \in 1 .. Len(w) : k \in 1 .. Len(rest) /\ w[k] = rest[k]
      BY <3>2, <3>3
    <3>5. \A k \in 1 .. Len(w) : w[k] = m[Len(s) + k]
      BY <1>2, <3>4
    <3>6. Len(w) <= Len(rest) /\ ~(Len(w) < Limit \/ Limit = 0)
      BY <2>1, <3>2, <3>3
    <3>7. QED
      BY <3>2, <3>5, <3>6
  <2>2. CASE ~(Limit > 0 /\ Limit < Len(rest))
    BY <1>2, <1>4, <2>2
  <2>3. QED
    BY <2>1, <2>2
<1>6. /\ s \o w \in Seq(S) /\ Len(s \o w) = Len(s) + Len(w)
      /\ \A k \in 1 .. Len(s) + Len(w) :
            (s \o w)[k] = IF k <= Len(s) THEN s[k] ELSE w[k - Len(s)]
  BY <1>5
<1>7. Begins(s \o w, m)
  <2>1. Len(s \o w) <= Len(m)
    BY <1>1, <1>2, <1>5, <1>6
  <2>2. ASSUME NEW k \in 1 .. Len(s \o w)
        PROVE  (s \o w)[k] = m[k]
    <3>1. CASE k <= Len(s)
      BY <1>6, <3>1 DEF Begins
    <3>2. CASE ~(k <= Len(s))
      <4>1. k - Len(s) \in 1 .. Len(w) /\ Len(s) + (k - Len(s)) = k
        BY <1>1, <1>5, <1>6, <3>2
      <4>2. (s \o w)[k] = w[k - Len(s)]
        BY <1>6, <3>2
      <4>3. QED
        BY <1>5, <4>1, <4>2
    <3>3. QED
      BY <3>1, <3>2
  <2>3. QED
    BY <2>1, <2>2 DEF Begins
<1>8. ASSUME Len(w) < Limit \/ Limit = 0
      PROVE  s \o w = m
  <2>1. Len(s \o w) = Len(m)
    BY <1>1, <1>2, <1>5, <1>6, <1>8
  <2>2. QED
    BY <1>6, <1>7, <2>1, BeginsFacts
<1>9. QED
  BY <1>6, <1>7, <1>8 DEF w

-----------------------------------------------------------------------------
ReadingTypes ==
    /\ history \in Seq(Item) /\ newest \in Seq(Item) /\ got \in Seq(Item)
    /\ reading \in {"paging", "done", "refused"}

\* What the last call saw is the start of what there is.
Grown == Begins(Messages(newest), Messages(history))

\* What was collected is the start of what the last call saw.
Tiled ==
    /\ Begins(got, Messages(newest))
    /\ reading = "done" => got = Messages(newest)

HistoryInv == ReadingTypes /\ Grown /\ Tiled

LEMMA HistoryStep ==
    ASSUME HistoryInv, [HistoryNext]_historyVars
    PROVE  HistoryInv'
<1> USE DEF HistoryInv
<1>1. /\ Messages(history) \in Seq(Item) /\ Messages(newest) \in Seq(Item)
      /\ \A x \in Item : Messages(Append(history, x))
                           = IF IsMessage(x) THEN Append(Messages(history), x)
                             ELSE Messages(history)
  BY MessagesFacts DEF ReadingTypes
<1>2. CASE ItemPersisted
  <2>1. PICK x \in Item : history' = Append(history, x)
    <3>1. PICK k \in ItemKinds :
             history' = Append(history, [kind |-> k, at |-> Len(history) + 1])
      BY <1>2 DEF ItemPersisted
    <3>2. Len(history) + 1 \in Nat
      BY DEF ReadingTypes
    <3>3. [kind |-> k, at |-> Len(history) + 1] \in Item
      BY <3>2 DEF Item
    <3>4. QED
      BY <3>1, <3>3
  <2>2. UNCHANGED <<got, reading, newest>>
    BY <1>2 DEF ItemPersisted
  <2>3. ReadingTypes'
    BY <2>1, <2>2 DEF ReadingTypes
  <2>4. Messages(newest') = Messages(newest)
    BY <2>2
  <2>5. Messages(history') = Messages(history)
          \/ Messages(history') = Append(Messages(history), x)
    BY <1>1, <2>1
  <2>6. Begins(Messages(newest), Messages(history'))
    <3>1. Begins(Messages(newest), Messages(history))
      BY DEF Grown
    <3>2. Begins(Messages(newest), Append(Messages(history), x))
      BY <1>1, <3>1, BeginsFacts
    <3>3. QED
      BY <2>5, <3>1, <3>2
  <2>7. QED
    BY <2>2, <2>3, <2>4, <2>6 DEF Grown, Tiled
<1>3. CASE NextWindow
  <2> DEFINE m == Messages(history)
             w == Window(m, Len(got))
  <2>1. /\ got' = got \o w /\ newest' = history /\ history' = history
        /\ reading' \in {"done", "paging"}
        /\ reading' = "done" => Len(w) < Limit \/ Limit = 0
    BY <1>3 DEF NextWindow
  <2>2. Messages(newest') = m /\ Messages(history') = m
    BY <2>1
  <2>3. m \in Seq(Item) /\ got \in Seq(Item)
    BY <1>1 DEF ReadingTypes
  <2>4. Begins(got, m)
    BY <1>1 DEF Grown, Tiled, Begins, ReadingTypes
  <2>5. /\ got \o w \in Seq(Item) /\ Begins(got \o w, m)
        /\ Len(w) < Limit \/ Limit = 0 => got \o w = m
    BY <2>3, <2>4, WindowFacts
  <2>6. Begins(m, m)
    BY <2>3, BeginsFacts
  <2> HIDE DEF m, w
  <2>7. ReadingTypes'
    BY <2>1, <2>5 DEF ReadingTypes
  <2>8. Grown'
    BY <2>2, <2>6 DEF Grown
  <2>9. Tiled'
    BY <2>1, <2>2, <2>5 DEF Tiled
  <2>10. QED
    BY <2>7, <2>8, <2>9
<1>4. CASE ReadFails \/ UNCHANGED historyVars
  <2>1. /\ UNCHANGED <<history, got, newest>>
        /\ reading' \in {"paging", "done", "refused"}
        /\ reading' = "done" => reading = "done"
    BY <1>4 DEF ReadFails, historyVars, ReadingTypes
  <2>2. Messages(newest') = Messages(newest) /\ Messages(history') = Messages(history)
    BY <2>1
  <2>3. QED
    BY <2>1, <2>2 DEF ReadingTypes, Grown, Tiled
<1>5. QED
  BY <1>2, <1>3, <1>4 DEF HistoryNext

(****************************************************************************)
(* GetThreadMessages asks for the whole thread each time and cuts the window *)
(* itself.  For every limit and every growth of the thread, a caller that    *)
(* goes on behind what it has collects every message once and in order, and  *)
(* a window that is not full has brought it to the end of the thread.        *)
(****************************************************************************)
THEOREM WindowsAlwaysTile == HistorySpec => []WindowsTile
<1>1. HistoryInit => HistoryInv
  <2>1. ASSUME HistoryInit
        PROVE  HistoryInv
    <3>1. history = <<>> /\ got = <<>> /\ newest = <<>> /\ reading = "paging"
      BY <2>1 DEF HistoryInit
    <3>2. <<>> \in Seq(Item)
      OBVIOUS
    <3>3. ASSUME NEW none \in Seq(Item), none = <<>>
          PROVE  Messages(none) = <<>>
      BY <3>3, MessagesFacts
    <3>4. Messages(<<>>) = <<>>
      BY <3>2, <3>3
    <3>5. Begins(<<>>, <<>>)
      BY DEF Begins
    <3>6. QED
      BY <3>1, <3>2, <3>4, <3>5 DEF HistoryInv, ReadingTypes, Grown, Tiled
  <2>2. QED
    BY <2>1
<1>2. HistoryInv /\ [HistoryNext]_historyVars => HistoryInv'
  BY HistoryStep
<1>3. HistoryInv => WindowsTile
  <2>1. ASSUME HistoryInv
        PROVE  IsPrefix(got, Messages(newest))
    <3>1. Messages(newest) \in Seq(Item) /\ got \in Seq(Item)
      BY <2>1, MessagesFacts DEF HistoryInv, ReadingTypes
    <3>2. QED
      BY <2>1, <3>1, BeginsFacts DEF HistoryInv, Tiled
  <2>2. QED
    BY <2>1 DEF HistoryInv, Tiled, WindowsTile
<1>4. QED
  BY <1>1, <1>2, <1>3, PTL DEF HistorySpec

-----------------------------------------------------------------------------
(* A listing of several pages, while terminals start and end.               *)

InventoryTypes ==
    /\ honest \in BOOLEAN
    /\ started \in Nat
    /\ running \subseteq 1 .. started
    /\ acked \subseteq 1 .. started
    /\ ackedFirst \subseteq 1 .. started
    /\ listing \in {"idle", "asking", "done", "refused"}
    /\ pages \in Nat
    /\ IsFiniteSet(seen)
    /\ honest => cursor \in Nat /\ rows \in Seq(Nat)

\* Before the call.
Fresh ==
    listing = "idle" =>
        cursor = NoCursor /\ seen = {} /\ pages = 0 /\ rows = <<>>

\* What has run throughout the call still runs, and what runs during it is
\* remembered.
Remembered ==
    /\ throughout \subseteq running
    /\ listing = "asking" => running \subseteq sometime

\* With an honest server the rows are what ran, and everything up to the cursor
\* that has run throughout is among them; at the end everything is.
Listed ==
    honest =>
        /\ ToSet(rows) \subseteq sometime
        /\ listing = "asking" =>
              \A p \in throughout : p <= cursor => p \in ToSet(rows)
        /\ listing = "done" => throughout \subseteq ToSet(rows)

\* Whatever the server answers.
Limited ==
    /\ IsInjective(rows)
    /\ pages <= MaxPages
    /\ listing = "asking" => pages = Cardinality(seen) /\ pages < MaxPages

InventoryInv == InventoryTypes /\ Fresh /\ Remembered /\ Listed /\ Limited

\* What an honest server answers: all of the rest, or the rest up to a cursor.
LEMMA HonestFacts ==
    ASSUME NEW c \in Nat, NEW page \in HonestPages(c), InventoryTypes
    PROVE  /\ page.rows \in Seq(Nat) /\ page.next \in Nat
           /\ ToSet(page.rows) \subseteq running
           /\ page.next = NoCursor =>
                 \A p \in running : p > c => p \in ToSet(page.rows)
           /\ page.next # NoCursor =>
                 \A p \in running :
                    p > c /\ p <= page.next => p \in ToSet(page.rows)
<1> DEFINE all == After(c)
           upTo(p) == {q \in all : q <= p}
<1>1. all \subseteq running /\ running \subseteq Nat \ {0}
  BY DEF After, InventoryTypes
<1>2. ASSUME NEW T, T \subseteq all, NEW s \in Orders(T)
      PROVE  s \in Seq(Nat) /\ ToSet(s) = T
  <2>1. ToSet(s) = T /\ s \in [1 .. Cardinality(T) -> T]
    BY <1>2 DEF Orders
  <2>2. T \subseteq 1 .. started
    BY <1>1, <1>2 DEF InventoryTypes
  <2>3. IsFiniteSet(T)
    <3>1. IsFiniteSet(1 .. started)
      BY FS_Interval DEF InventoryTypes
    <3>2. QED
      BY <2>2, <3>1, FS_Subset
  <2>4. Cardinality(T) \in Nat
    BY <2>3, FS_CardinalityType
  <2>5. s \in Seq(T)
    BY <2>1, <2>4
  <2>6. T \subseteq Nat
    BY <1>1, <1>2
  <2>7. \A k \in 1 .. Len(s) : s[k] \in Nat
    <3>1. \A k \in 1 .. Len(s) : s[k] \in T
      BY <2>5
    <3>2. QED
      BY <2>6, <3>1
  <2>8. s \in [1 .. Len(s) -> Nat] /\ Len(s) \in Nat
    BY <2>5, <2>7
  <2>9. s \in Seq(Nat)
    BY <2>8
  <2>10. QED
    BY <2>1, <2>9
<1>3. CASE page \in [rows : Orders(all), next : {NoCursor}]
  <2>1. page.rows \in Orders(all) /\ page.next = 0
    BY <1>3 DEF NoCursor
  <2>2. page.rows \in Seq(Nat) /\ ToSet(page.rows) = all
    BY <1>2, <2>1
  <2>3. QED
    BY <1>1, <2>1, <2>2 DEF NoCursor, After
<1>4. CASE \E n \in all : page \in [rows : Orders(upTo(n)), next : {n}]
  <2>1. PICK n \in all : page \in [rows : Orders(upTo(n)), next : {n}]
    BY <1>4
  <2>2. page.rows \in Orders(upTo(n)) /\ page.next = n /\ n \in Nat \ {0}
    BY <1>1, <2>1
  <2>3. page.rows \in Seq(Nat) /\ ToSet(page.rows) = upTo(n)
    BY <1>2, <2>2
  <2>4. QED
    BY <1>1, <2>2, <2>3 DEF NoCursor, After
<1>5. QED
  <2>1. page \in [rows : Orders(all), next : {NoCursor}]
          \/ \E n \in all : page \in [rows : Orders(upTo(n)), next : {n}]
    BY DEF HonestPages
  <2>2. QED
    BY <1>3, <1>4, <2>1

LEMMA ConcatRows ==
    ASSUME NEW s \in Seq(Nat), NEW t \in Seq(Nat)
    PROVE  s \o t \in Seq(Nat) /\ ToSet(s \o t) = ToSet(s) \cup ToSet(t)
<1>1. /\ s \o t \in Seq(Nat) /\ Len(s \o t) = Len(s) + Len(t)
      /\ \A k \in 1 .. Len(s) + Len(t) :
            (s \o t)[k] = IF k <= Len(s) THEN s[k] ELSE t[k - Len(s)]
  OBVIOUS
<1>2. \A k \in 1 .. Len(s) : k \in 1 .. Len(s \o t) /\ (s \o t)[k] = s[k]
  BY <1>1
<1>3. ASSUME NEW k \in 1 .. Len(t)
      PROVE  k + Len(s) \in 1 .. Len(s \o t) /\ (s \o t)[k + Len(s)] = t[k]
  <2>1. k + Len(s) \in 1 .. Len(s) + Len(t) /\ ~(k + Len(s) <= Len(s))
          /\ (k + Len(s)) - Len(s) = k
    OBVIOUS
  <2>2. QED
    BY <1>1, <2>1
<1>4. ASSUME NEW k \in 1 .. Len(s \o t)
      PROVE  \/ k \in 1 .. Len(s) /\ (s \o t)[k] = s[k]
             \/ k - Len(s) \in 1 .. Len(t) /\ (s \o t)[k] = t[k - Len(s)]
  BY <1>1
<1>5. /\ DOMAIN s = 1 .. Len(s) /\ DOMAIN t = 1 .. Len(t)
      /\ DOMAIN (s \o t) = 1 .. Len(s \o t)
  BY <1>1
<1> DEFINE u == s \o t
<1> HIDE DEF u
<1>6. ToSet(s) \subseteq ToSet(u)
  BY <1>2, <1>5 DEF ToSet, u
<1>7. ToSet(t) \subseteq ToSet(u)
  BY <1>3, <1>5 DEF ToSet, u
<1>8. ToSet(u) \subseteq ToSet(s) \cup ToSet(t)
  BY <1>4, <1>5 DEF ToSet, u
<1>9. QED
  BY <1>1, <1>6, <1>7, <1>8 DEF u

LEMMA InventoryStep ==
    ASSUME InventoryInv, [InventoryNext]_inventoryVars
    PROVE  InventoryInv'
<1> USE DEF InventoryInv, NoCursor
<1> USE InventoryAssumption
<1>1. CASE TerminalStarts
  <2>1. /\ started' = started + 1 /\ running' = running \cup {started + 1}
        /\ sometime \subseteq sometime'
        /\ listing = "asking" => sometime' = sometime \cup {started + 1}
        /\ UNCHANGED <<honest, acked, listing, cursor, seen, pages, rows,
                       throughout, ackedFirst>>
    BY <1>1 DEF TerminalStarts
  <2>2. 1 .. started \subseteq 1 .. started + 1 /\ started + 1 \in 1 .. started + 1
    BY DEF InventoryTypes
  <2>3. InventoryTypes'
    BY <2>1, <2>2 DEF InventoryTypes
  <2>4. (Fresh /\ Limited)'
    BY <2>1 DEF Fresh, Limited
  <2>5. Remembered'
    BY <2>1 DEF Remembered
  <2>6. Listed'
    BY <2>1 DEF Listed
  <2>7. QED
    BY <2>3, <2>4, <2>5, <2>6
<1>2. CASE \E p \in Terminals : TerminalEnds(p)
  <2>1. PICK p \in Terminals : TerminalEnds(p)
    BY <1>2
  <2>2. /\ running' = running \ {p} /\ throughout' = throughout \ {p}
        /\ UNCHANGED <<honest, started, acked, listing, cursor, seen, pages,
                       rows, sometime, ackedFirst>>
    BY <2>1 DEF TerminalEnds
  <2>3. InventoryTypes'
    BY <2>2 DEF InventoryTypes
  <2>4. (Fresh /\ Limited)'
    BY <2>2 DEF Fresh, Limited
  <2>5. Remembered'
    BY <2>2 DEF Remembered
  <2>6. Listed'
    BY <2>2 DEF Listed
  <2>7. QED
    BY <2>3, <2>4, <2>5, <2>6
<1>3. CASE Clean \/ \E p \in Terminals : Terminate(p)
  <2>1. /\ acked' \subseteq acked \cup running
        /\ UNCHANGED <<honest, started, running, callVars>>
    BY <1>3 DEF Clean, Terminate, NilFor
  <2>2. InventoryTypes'
    BY <2>1 DEF InventoryTypes, callVars
  <2>3. QED
    BY <2>1, <2>2 DEF Fresh, Remembered, Listed, Limited, callVars
<1>4. CASE ListBegins
  <2>1. /\ listing = "idle" /\ listing' = "asking"
        /\ throughout' = running /\ sometime' = running /\ ackedFirst' = acked
        /\ UNCHANGED <<honest, started, running, acked, cursor, seen, pages, rows>>
    BY <1>4 DEF ListBegins, serverVars
  <2>2. cursor = 0 /\ seen = {} /\ pages = 0 /\ rows = <<>>
    BY <2>1 DEF Fresh
  <2>3. InventoryTypes'
    BY <2>1 DEF InventoryTypes
  <2>4. (Fresh /\ Remembered)'
    BY <2>1 DEF Fresh, Remembered
  <2>5. Limited'
    <3>1. Cardinality({}) = 0 /\ 0 < MaxPages
      BY FS_EmptySet
    <3>2. QED
      BY <2>1, <2>2, <3>1 DEF Limited
  <2>6. Listed'
    <3>1. ToSet(rows) = {}
      BY <2>2 DEF ToSet
    <3>2. \A p \in running : ~(p <= 0)
      BY DEF InventoryTypes
    <3>3. QED
      BY <2>1, <2>2, <3>1, <3>2 DEF Listed
  <2>7. QED
    BY <2>3, <2>4, <2>5, <2>6
<1>5. CASE ListFails
  <2>1. /\ listing = "asking" /\ listing' = "refused"
        /\ UNCHANGED <<honest, started, running, acked, cursor, seen, rows, pages,
                       throughout, sometime, ackedFirst>>
    BY <1>5 DEF ListFails, Refuse, serverVars
  <2>2. InventoryTypes'
    BY <2>1 DEF InventoryTypes
  <2>3. QED
    BY <2>1, <2>2 DEF Fresh, Remembered, Listed, Limited
<1>6. CASE ListPage
  <2>1. PICK page \in Pages(cursor) :
          /\ pages' = pages + 1
          /\ IF ~GoodRows(page.rows)
             THEN Refuse
             ELSE IF page.next # NoCursor /\ CursorSeen(page.next)
             THEN Refuse
             ELSE /\ rows' = rows \o page.rows
                  /\ cursor' = page.next
                  /\ seen' = IF page.next = NoCursor THEN seen
                             ELSE seen \cup {page.next}
                  /\ listing' = IF page.next = NoCursor THEN "done"
                                ELSE IF pages' >= MaxPages THEN OnTooManyPages
                                ELSE "asking"
    BY <1>6 DEF ListPage
  <2>2. /\ listing = "asking"
        /\ UNCHANGED <<honest, started, running, acked, throughout, sometime,
                       ackedFirst>>
    BY <1>6 DEF ListPage, serverVars
  <2>3. /\ pages' = pages + 1 /\ pages' \in Nat /\ pages' <= MaxPages
        /\ pages = Cardinality(seen)
    BY <2>1, <2>2 DEF Limited, InventoryTypes
  <2>4. CASE Refuse
    <3>1. listing' = "refused" /\ UNCHANGED <<cursor, seen, rows>>
      BY <2>4 DEF Refuse
    <3>2. InventoryTypes'
      BY <2>2, <2>3, <3>1 DEF InventoryTypes
    <3>3. QED
      BY <2>2, <2>3, <3>1, <3>2 DEF Fresh, Remembered, Listed, Limited
  <2>5. CASE ~Refuse
    <3>1. /\ GoodRows(page.rows)
          /\ page.next # 0 => page.next \notin seen
          /\ rows' = rows \o page.rows
          /\ cursor' = page.next
          /\ seen' = IF page.next = 0 THEN seen ELSE seen \cup {page.next}
          /\ listing' = IF page.next = 0 THEN "done"
                        ELSE IF pages' >= MaxPages THEN "refused"
                        ELSE "asking"
      BY <2>1, <2>5 DEF CursorSeen, OnTooManyPages
    <3>2. /\ IsFiniteSet(seen')
          /\ page.next # 0 => Cardinality(seen') = Cardinality(seen) + 1
      BY <3>1, FS_AddElement DEF InventoryTypes
    <3>3. Limited'
      <4>1. IsInjective(rows')
        BY <3>1 DEF GoodRows
      <4>2. listing' = "asking" => page.next # 0 /\ ~(pages' >= MaxPages)
        BY <3>1
      <4>3. QED
        BY <2>3, <3>2, <4>1, <4>2 DEF Limited
    <3>4. ASSUME honest
          PROVE  /\ cursor' \in Nat /\ rows' \in Seq(Nat)
                 /\ ToSet(rows') \subseteq sometime
                 /\ listing' = "asking" =>
                       \A p \in throughout : p <= cursor' => p \in ToSet(rows')
                 /\ listing' = "done" => throughout \subseteq ToSet(rows')
      <4>1. cursor \in Nat /\ rows \in Seq(Nat) /\ page \in HonestPages(cursor)
        BY <2>1, <3>4 DEF InventoryTypes, Pages
      <4>2. /\ page.rows \in Seq(Nat) /\ page.next \in Nat
            /\ ToSet(page.rows) \subseteq running
            /\ page.next = 0 =>
                  \A p \in running : p > cursor => p \in ToSet(page.rows)
            /\ page.next # 0 =>
                  \A p \in running :
                     p > cursor /\ p <= page.next => p \in ToSet(page.rows)
        BY <4>1, HonestFacts
      <4>3. /\ rows' \in Seq(Nat)
            /\ ToSet(rows') = ToSet(rows) \cup ToSet(page.rows)
        BY <3>1, <4>1, <4>2, ConcatRows
      <4>4. /\ throughout \subseteq running /\ running \subseteq sometime
            /\ ToSet(rows) \subseteq sometime
            /\ \A p \in throughout : p <= cursor => p \in ToSet(rows)
        BY <2>2, <3>4 DEF Remembered, Listed
      <4>5. \A p \in throughout : p \in Nat /\ (p > cursor <=> ~(p <= cursor))
        BY <4>1, <4>4 DEF InventoryTypes
      <4>6. listing' = "asking" =>
               \A p \in throughout : p <= cursor' => p \in ToSet(rows')
        BY <3>1, <4>2, <4>3, <4>4, <4>5
      <4>7. listing' = "done" => page.next = 0
        BY <3>1
      <4>8. listing' = "done" => throughout \subseteq ToSet(rows')
        BY <4>2, <4>3, <4>4, <4>5, <4>7
      <4>9. QED
        BY <3>1, <4>2, <4>3, <4>4, <4>6, <4>8
    <3>5. listing' \in {"done", "refused", "asking"}
      BY <3>1
    <3>6. InventoryTypes'
      BY <2>2, <2>3, <3>2, <3>4, <3>5 DEF InventoryTypes
    <3>7. (Fresh /\ Remembered)'
      BY <2>2, <3>5 DEF Fresh, Remembered
    <3>8. Listed'
      BY <2>2, <3>4 DEF Listed
    <3>9. QED
      BY <3>3, <3>6, <3>7, <3>8
  <2>6. QED
    BY <2>4, <2>5
<1>7. CASE UNCHANGED inventoryVars
  <2>1. InventoryTypes'
    BY <1>7 DEF InventoryTypes, inventoryVars, serverVars, callVars
  <2>2. QED
    BY <1>7, <2>1 DEF Fresh, Remembered, Listed, Limited, inventoryVars,
                      serverVars, callVars
<1>8. QED
  BY <1>1, <1>2, <1>3, <1>4, <1>5, <1>6, <1>7 DEF InventoryNext

(****************************************************************************)
(* "A complete live inventory": for any number of terminals and any page    *)
(* size a listing that succeeds holds what ran throughout the call and only *)
(* what ran during it, if the server's cursors are positions; and whatever  *)
(* the server answers, no terminal is listed twice, no cursor is followed   *)
(* twice and no more pages are asked for than the maximum.                  *)
(****************************************************************************)
THEOREM InventoryIsAlwaysComplete == InventorySpec => []InventoryIsComplete
<1>1. InventoryInit => InventoryInv
  <2>1. ASSUME InventoryInit
        PROVE  InventoryInv
    <3>1. /\ honest \in BOOLEAN /\ started = 0 /\ running = {} /\ acked = {}
          /\ listing = "idle" /\ cursor = 0 /\ seen = {} /\ pages = 0
          /\ rows = <<>> /\ throughout = {} /\ sometime = {} /\ ackedFirst = {}
      BY <2>1 DEF InventoryInit, NoCursor
    <3>2. InventoryTypes
      BY <3>1, FS_EmptySet DEF InventoryTypes
    <3>3. Limited
      BY <3>1, InventoryAssumption DEF Limited, IsInjective
    <3>4. Listed
      BY <3>1 DEF Listed, ToSet
    <3>5. Fresh /\ Remembered
      BY <3>1 DEF Fresh, Remembered, NoCursor
    <3>6. QED
      BY <3>2, <3>3, <3>4, <3>5 DEF InventoryInv
  <2>2. QED
    BY <2>1
<1>2. InventoryInv /\ [InventoryNext]_inventoryVars => InventoryInv'
  BY InventoryStep
<1>3. InventoryInv => InventoryIsComplete
  <2>1. ASSUME InventoryInv, listing = "done", honest
        PROVE  /\ throughout \subseteq ToSet(rows)
               /\ ToSet(rows) \subseteq sometime
               /\ ackedFirst \ ToSet(rows) \subseteq (1 .. started) \ throughout
    BY <2>1 DEF InventoryInv, InventoryTypes, Listed
  <2>2. InventoryInv => Complete
    BY <2>1 DEF Complete
  <2>3. InventoryInv => Bounded
    BY DEF InventoryInv, Limited, Bounded
  <2>4. QED
    BY <2>2, <2>3 DEF InventoryIsComplete
<1>4. QED
  BY <1>1, <1>2, <1>3, PTL DEF InventorySpec
=============================================================================
