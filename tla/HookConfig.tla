------------------------------ MODULE HookConfig ------------------------------
(****************************************************************************)
(* The user-home hook mode (client_hookbridge.go): SDK clients, in processes*)
(* that may be killed at any step, replace ~/.codex/hooks.json, keep the    *)
(* user's file in a backup named after their process, restore it on Close,  *)
(* and recover the backups that killed processes left.                      *)
(*                                                                          *)
(* A file is what it holds: the user's configuration, an SDK's, or nothing, *)
(* as a write leaves it that is cut short after truncating (os.WriteFile).  *)
(* Of a backup's age only the 60 second threshold matters: Age passes it.   *)
(****************************************************************************)
EXTENDS Naturals, FiniteSets

CONSTANTS
    Clients,
    PidOf,     \* the process of each client
    None,      \* no such file, nobody, nothing
    MayOverlap \* whether two Connects may run at the same time

Pids == {PidOf[c] : c \in Clients}

Contents == {"user", "sdk", "empty"}

\* What the code does not protect against, two Connects at once (MayOverlap)
\* aside, as the history of the first time that one of these happened:
\*   torn: a write that fails after truncating its file, a backup cut short;
\*   unrecovered: a recovery that cannot read the oldest stale backup or write
\*     hooks.json, after which Connect goes on;
\*   robbed: a recovery that takes the backup of a client that has been up for
\*     60 seconds for one that was left behind;
\*   slipped: a client that gets past a backup that is nobody's to ignore, one
\*     that got old after its recovery, or that it could not examine.
\* A kill, and any other failing read, write or removal, is covered.
Unprotected == {"torn", "unrecovered", "robbed", "slipped"}

ASSUME ClientAssumption ==
    /\ IsFiniteSet(Clients) /\ None \notin Clients
    /\ PidOf \in [Clients -> Nat] /\ MayOverlap \in BOOLEAN
ASSUME NoneAssumption ==
    None \notin Contents \cup Unprotected
                  \cup [data : Contents, old : BOOLEAN, at : Nat]

VARIABLES
    original, \* the user's file before any client ran
    hooks,    \* hooks.json
    backup,   \* per process, its backup file
    writes,   \* orders the backups by their modification time
    pc,       \* per client
    kept,     \* per client, what it last read; None: it found no file
    stale,    \* per client, the stale backups it listed and has yet to remove
    spared,   \* per client, those it listed and could not remove
    last,     \* the client that connected last
    mishap    \* the first thing that went wrong: a history, read by properties only

mem == <<kept, stale, spared>>
vars == <<original, hooks, backup, writes, pc, mem, last, mishap>>

Connecting == {"recovering", "restoring", "overwriting", "removing",
               "detecting", "reading", "backingUp", "installing"}
Closing == {"closing", "rewriting", "forgetting"}
Active == Connecting \cup {"up"} \cup Closing

Live(p) == \E c \in Clients : PidOf[c] = p /\ pc[c] \in {"up"} \cup Closing

Init ==
    /\ original \in {None, "user"} /\ hooks = original
    /\ backup = [p \in Pids |-> None] /\ writes = 0
    /\ pc = [c \in Clients |-> "idle"]
    /\ kept = [c \in Clients |-> None] /\ stale = [c \in Clients |-> {}]
    /\ spared = [c \in Clients |-> {}]
    /\ last = None /\ mishap = None

Goto(c, label) == pc' = [pc EXCEPT ![c] = label]

Mishap(kind) == mishap' = IF mishap = None THEN kind ELSE mishap
Covered == UNCHANGED mishap
Protected == mishap = None

\* os.WriteFile fails before it opened the file, or after truncating it.
Damaged(before, after) ==
    \/ after = before /\ Covered
    \/ after = "empty" /\ Mishap("torn")

-----------------------------------------------------------------------------
(* installHooksJSON                                                         *)

Connect(c) ==
    /\ pc[c] = "idle"
    /\ MayOverlap \/ \A d \in Clients : pc[d] \notin Connecting
    /\ Goto(c, "recovering")
    /\ last' = c
    /\ UNCHANGED <<original, hooks, backup, writes, mem, mishap>>

\* recoverStaleBackups lists the old backups, whoever wrote them, and leaves out
\* those it cannot examine: all of them, if it cannot read the directory.
Old == {p \in Pids : backup[p] # None /\ backup[p].old}

ListStale(c) ==
    /\ pc[c] = "recovering"
    /\ \E listed \in SUBSET Old :
          /\ stale' = [stale EXCEPT ![c] = listed]
          /\ Goto(c, IF listed = {} THEN "detecting" ELSE "restoring")
          /\ IF \E p \in listed : Live(p) THEN Mishap("robbed") ELSE Covered
    /\ UNCHANGED <<original, hooks, backup, writes, kept, spared, last>>

\* It reads the oldest of them.
Oldest(S) == {p \in S : \A q \in S : backup[q] # None =>
                           backup[p] # None /\ backup[p].at <= backup[q].at}

ReadStale(c) ==
    /\ pc[c] = "restoring"
    /\ \E p \in Oldest(stale[c]) :
          /\ backup[p] # None
          /\ kept' = [kept EXCEPT ![c] = backup[p].data]
    /\ Goto(c, "overwriting")
    /\ UNCHANGED <<original, hooks, backup, writes, stale, spared, last, mishap>>

\* One that is gone, or is there and cannot be read, ends the recovery: all of
\* them stay, and Connect goes on.
CannotReadStale(c) ==
    /\ pc[c] = "restoring"
    /\ Goto(c, "detecting")
    /\ Mishap("unrecovered")
    /\ UNCHANGED <<original, hooks, backup, writes, mem, last>>

\* It writes that one over hooks.json; if it cannot, the backups stay ...
RestoreStale(c) ==
    /\ pc[c] = "overwriting"
    /\ \/ hooks' = kept[c] /\ Goto(c, "removing") /\ Covered
       \/ hooks' \in {hooks, "empty"} /\ Goto(c, "detecting")
          /\ Mishap("unrecovered")
    /\ UNCHANGED <<original, backup, writes, mem, last>>

\* ... otherwise it removes the ones it listed, in the directory's order, and
\* does not look whether it can.
First(S) == {p \in S : \A q \in S : p <= q}

RemoveStale(c) ==
    /\ pc[c] = "removing"
    /\ \/ /\ stale[c] = {} /\ Goto(c, "detecting") /\ Covered
          /\ UNCHANGED <<backup, stale, spared>>
       \/ \E p \in First(stale[c]) :
             /\ stale' = [stale EXCEPT ![c] = @ \ {p}]
             /\ \/ /\ backup' = [backup EXCEPT ![p] = None]
                   /\ Covered /\ UNCHANGED spared
                \/ /\ spared' = [spared EXCEPT ![c] = @ \cup {p}]
                   /\ Covered /\ UNCHANGED backup
             /\ UNCHANGED pc
    /\ UNCHANGED <<original, hooks, writes, kept, last>>

\* detectConcurrentSDK: a fresh backup of another process; an old one is
\* taken to have been handled.  Mutant: no backup is looked at.
NobodyElse(c) == {}
Concurrent(c) == {p \in Pids \ {PidOf[c]} : backup[p] # None /\ ~backup[p].old}

\* An old backup that no recovery of this client's has written back.
Slipped(c) == Old \ (spared[c] \cup {PidOf[c]}) # {}

Detect(c) ==
    /\ pc[c] = "detecting"
    /\ \/ Concurrent(c) # {} /\ Goto(c, "refused") /\ Covered
       \/ /\ Concurrent(c) = {} /\ Goto(c, "reading")
          /\ IF Slipped(c) THEN Mishap("slipped") ELSE Covered
       \* it cannot examine the fresh one either
       \/ Concurrent(c) # {} /\ Goto(c, "reading") /\ Mishap("slipped")
       \* it cannot read the directory
       \/ Goto(c, "failed") /\ Covered
    /\ UNCHANGED <<original, hooks, backup, writes, mem, last>>

\* readIfExists.  Mutant: a file is taken for granted.
AssumesFile(data) == TRUE
IsFile(data) == data # None

ReadOriginal(c) ==
    /\ pc[c] = "reading"
    /\ \/ /\ kept' = [kept EXCEPT ![c] = hooks]
          /\ Goto(c, IF IsFile(hooks) THEN "backingUp" ELSE "installing")
          /\ Covered
       \/ UNCHANGED kept /\ Goto(c, "failed") /\ Covered
    /\ UNCHANGED <<original, hooks, backup, writes, stale, spared, last>>

File(data) == [data |-> data, old |-> FALSE, at |-> writes + 1]

WriteBackup(c) ==
    /\ pc[c] = "backingUp"
    /\ \/ /\ backup' = [backup EXCEPT ![PidOf[c]] = File(kept[c])]
          /\ writes' = writes + 1
          /\ Goto(c, "installing") /\ Covered
       \/ /\ UNCHANGED <<backup, writes>>
          /\ Goto(c, "failed") /\ Covered
       \/ /\ backup' = [backup EXCEPT ![PidOf[c]] = File("empty")]
          /\ writes' = writes + 1
          /\ Goto(c, "failed") /\ Mishap("torn")
    /\ UNCHANGED <<original, hooks, mem, last>>

\* A hooks.json that cannot be generated or written takes the backup with it,
\* if that can be removed: nobody looks.
WithoutBackup(c) == [backup EXCEPT ![PidOf[c]] = None]
Rollback(c) == IF kept[c] = None THEN {backup} ELSE {backup, WithoutBackup(c)}

Install(c) ==
    /\ pc[c] = "installing"
    /\ \/ hooks' = "sdk" /\ Goto(c, "up") /\ Covered /\ UNCHANGED backup
       \/ /\ Damaged(hooks, hooks')
          /\ backup' \in Rollback(c)
          /\ Goto(c, "failed")
    /\ UNCHANGED <<original, writes, mem, last>>

-----------------------------------------------------------------------------
(* restoreUserHooksJSONPath, on Close or after a Connect that failed later  *)

Close(c) ==
    /\ pc[c] = "up" /\ kept[c] # None
    /\ Goto(c, "closing")
    /\ UNCHANGED <<original, hooks, backup, writes, mem, last, mishap>>

\* Without a user's file, hooks.json goes.
CloseRemoves(c) ==
    /\ pc[c] = "up" /\ kept[c] = None
    /\ \/ hooks' = None /\ Goto(c, "restored") /\ Covered
       \/ UNCHANGED hooks /\ Goto(c, "left") /\ Covered
    /\ UNCHANGED <<original, backup, writes, mem, last>>

\* A backup that cannot be read leaves the SDK's file ...
ReadBackup(c) ==
    /\ pc[c] = "closing"
    /\ \/ /\ backup[PidOf[c]] # None
          /\ kept' = [kept EXCEPT ![c] = backup[PidOf[c]].data]
          /\ Goto(c, "rewriting") /\ Covered
       \/ UNCHANGED kept /\ Goto(c, "left") /\ Covered
    /\ UNCHANGED <<original, hooks, backup, writes, stale, spared, last>>

\* ... and so does one that cannot be written back; it is retained.
\* Mutant: it is removed all the same.
ForgetsBackup(c) == [backup EXCEPT ![PidOf[c]] = None]
RetainedBackup(c) == backup

Rewrite(c) ==
    /\ pc[c] = "rewriting"
    /\ \/ hooks' = kept[c] /\ Goto(c, "forgetting") /\ Covered
          /\ UNCHANGED backup
       \/ /\ Damaged(hooks, hooks')
          /\ backup' = RetainedBackup(c)
          /\ Goto(c, "left")
    /\ UNCHANGED <<original, writes, mem, last>>

Forget(c) ==
    /\ pc[c] = "forgetting"
    /\ \/ backup' = WithoutBackup(c) /\ Covered
       \/ UNCHANGED backup /\ Covered
    /\ Goto(c, "restored")
    /\ UNCHANGED <<original, hooks, writes, mem, last>>

-----------------------------------------------------------------------------
(* The processes and the clock.                                             *)

Killed(p) == pc' = [c \in Clients |-> IF PidOf[c] = p /\ pc[c] \in Active
                                      THEN "crashed" ELSE pc[c]]

Crash(p) ==
    /\ \E c \in Clients : PidOf[c] = p /\ pc[c] \in Active
    /\ Killed(p)
    /\ Covered
    /\ UNCHANGED <<original, hooks, backup, writes, mem, last>>

\* The kill cuts a write of hooks.json short.
CrashWriting(c) ==
    /\ pc[c] \in {"overwriting", "installing", "rewriting"}
    /\ hooks' = "empty"
    /\ Killed(PidOf[c])
    /\ Covered
    /\ UNCHANGED <<original, backup, writes, mem, last>>

\* The kill cuts the backup short.
CrashBackingUp(c) ==
    /\ pc[c] = "backingUp"
    /\ backup' = [backup EXCEPT ![PidOf[c]] = File("empty")]
    /\ writes' = writes + 1
    /\ Killed(PidOf[c])
    /\ Mishap("torn")
    /\ UNCHANGED <<original, hooks, mem, last>>

\* A backup gets older than staleBackupAge, its writer alive or not.
Age(p) ==
    /\ backup[p] # None /\ ~backup[p].old
    /\ backup' = [backup EXCEPT ![p].old = TRUE]
    /\ UNCHANGED <<original, hooks, writes, pc, mem, last, mishap>>

Next ==
    \/ \E c \in Clients :
          \/ Connect(c) \/ ListStale(c) \/ ReadStale(c) \/ CannotReadStale(c)
          \/ RestoreStale(c) \/ RemoveStale(c) \/ Detect(c) \/ ReadOriginal(c)
          \/ WriteBackup(c) \/ Install(c)
          \/ Close(c) \/ CloseRemoves(c) \/ ReadBackup(c) \/ Rewrite(c)
          \/ Forget(c)
          \/ CrashWriting(c) \/ CrashBackingUp(c)
    \/ \E p \in Pids : Crash(p) \/ Age(p)

Spec == Init /\ [][Next]_vars

-----------------------------------------------------------------------------
(* Properties                                                               *)

\* Type invariant of the files and the clients.
TypeOK ==
    /\ original \in {None, "user"} /\ hooks \in Contents \cup {None}
    /\ writes \in Nat
    /\ backup \in [Pids -> {None} \cup [data : Contents, old : BOOLEAN,
                                         at : 1 .. writes]]
    /\ pc \in [Clients -> Active \cup {"idle", "refused", "failed", "left",
                                       "restored", "crashed"}]
    /\ kept \in [Clients -> Contents \cup {None}]
    /\ \A c \in Clients : pc[c] \in {"overwriting", "rewriting", "backingUp"}
                          => kept[c] # None
    /\ stale \in [Clients -> SUBSET Pids]
    /\ spared \in [Clients -> SUBSET Pids]
    /\ last \in Clients \cup {None}
    /\ mishap \in Unprotected \cup {None}

\* The user's file always exists somewhere, as hooks.json or as a backup,
\* whichever processes are killed and whatever they were writing to hooks.json
\* ("Your data is never lost across crashes", docs/hooks.md:104), unless one of
\* the Unprotected happened.  So for the next two.
UserDataExists ==
    original = "user" /\ Protected =>
        \/ hooks = "user"
        \/ \E p \in Pids : backup[p] # None /\ backup[p].data = "user"

\* While one client is up, no other gets past detectConcurrentSDK, and none
\* takes another's generated file for the user's original.
OneAtATime ==
    original = "user" /\ Protected =>
        /\ Cardinality({c \in Clients : pc[c] \in {"up"} \cup Closing}) <= 1
        /\ \A p \in Pids : backup[p] # None => backup[p].data = "user"

\* When the last client to connect has restored hooks.json and nobody else is
\* at work, it is the user's again, whatever crashed before ("restores the
\* original byte-for-byte", docs/hooks.md:100).
RestoredByClose ==
    /\ original = "user" /\ Protected
    /\ \A c \in Clients : pc[c] \notin Active
    /\ last # None /\ pc[last] = "restored"
    => hooks = "user"
=============================================================================
