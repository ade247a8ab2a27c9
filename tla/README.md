# A verification project for codex-agent-sdk-go

The SDK drives one `codex app-server` child process over newline-delimited
JSON-RPC on its standard pipes.  This directory models the parts of the SDK
whose correctness depends on the order in which goroutines, processes and files
change, checks the models with TLC on small instances, and proves the most
important facts with TLAPS for every instance.  Paths and line numbers are those
of the repository; in `PROJECT.json`, "map" gives for every definition the lines
it stands for, and "hazards" what can go wrong at which line.

Contents: 1 the system; 2 the modules; 3 how state and actions correspond to the
code; 4 the runs, their bounds and fairness; 5 the proofs; 6 what is not
modelled; 7 where the code and what is said about it differ; 8 the plan.

## 1. The system: components, state, operations

| Component (source) | State it keeps | Operations | Talks to |
|---|---|---|---|
| JSON-RPC demux (`internal/jsonrpc`) | id counter, pending table, closed flag, ordered server-message channel (64), loop error (1) | `Send`, `Notify`, `RespondServerRequest`, `Close`, read loop | pipes of the child; the client's dispatcher |
| Event subscriptions (`client_thread_events.go`) | subscriber map, one channel of `buffer`+1 each, atomics `closed`, `connected` | `SubscribeThreadEvents`, publish, fail, close, remove | dispatcher, user goroutines, `Client.Close` |
| Client lifecycle (`client.go`, `client_dispatch.go`) | `closed`, `connected`, `connectStarted`, connect token and cancel, transport, demux, dispatcher channels | `Connect`, `Close`, dispatcher | transport, demux, hook bridge |
| Threads and turns (`threads.go`, `threads_commands.go`, `compact_result.go`) | inbox (256), turn lock, active turn id, compaction channel, `closed`/`done` | `Run`, `RunStreamed`, `Interrupt`, `Steer`, `Compact`, `Wait`, `deliverEvent`, `markClosed` | dispatcher, demux |
| Thread registry (`client_dispatch.go`, `threads.go`) | `Client.threads`, the latest id | `StartThread`, `ResumeThread`, `ForkThread`, `ArchiveThread`, lookup, sweep | dispatcher, threads |
| File approvals (`client_file_approval.go`) | proposals by (thread, turn, item) | remember, update, resolve, clear | dispatcher, approval callback |
| App-server transport (`internal/transport`) | child process, `ready`, `shutdownReq`, `lastErr`, stderr ring, wait channel | connect, watch exit, drain stderr, close ladder, kill on give-up | child process, demux |
| Hook configuration (`client_hookbridge.go`) | `~/.codex/hooks.json` and its backups on disk | install, restore, recover stale backups, detect other clients | other SDK processes |
| Hook listener and shim (`internal/hookbridge`, `cmd/codex-sdk-hook-shim`) | a Unix socket, in-flight handlers | accept, serve, close | the codex process's hooks |
| Event parsing (`internal/events`, `client_thread_ids.go`) | none | parse events, items, approvals; classify thread identity | dispatcher |
| Configuration writes (`client_commands.go`) | none: they read `connected` and `closed` | `WriteConfigValue`, `WriteConfigBatch` | lifecycle, demux, the generated `hooks.json` |
| Background terminals (`background_terminals.go`) | the cursors seen in one listing | list, terminate, clean | demux |
| Thread history (`thread_history.go`) | none | read a thread, windows of its messages | demux |
| Runtime discovery (`runtime_*.go`) | a temporary directory | `DiscoverRuntimeFeatures`, `DiscoverRuntimeControls` | runs of `codex` |
| Output buffers (`ring_buffer.go`, `threads_helpers.go`) | the end of stderr, the beginning of a diff | `Write`, `String` | child processes |
| Other commands (`client_commands.go`, `client_helpers.go`) | none beyond a request in flight | one request/response each | demux |

One read loop per process turns the child's lines into answers for waiting
`Send`s and one ordered stream of server messages.  One dispatcher goroutine
takes that stream: it updates and feeds the handle of the notification's thread,
then every subscription, and runs the approval callback for requests.  Each
stream of a run has a goroutine of its own between the thread's inbox and the
caller's channel.  `watchExit` reaps the child; `Client.Close` closes handles,
subscriptions, transport and hook bridge in a fixed order while all of these
run.  The hard behaviours are therefore: what crosses a `Close`; what is looked
up under a lock and used after it; channels at their capacity; events that
outlive the run they belong to; a child that dies or hangs at any moment; and
files that several processes, some of them killed, replace.

What makes each part correct, in one sentence each:

* demux: an answer reaches the `Send` that asked, never blocks the loop, and the
  message stream is complete and ordered or visibly damaged;
* subscriptions: a stream is a gap-free run of the notifications, ends with a
  record where it breaks off, and ends when its source does;
* client: whatever `Connect` and `Close` do to each other, every resource is
  released once and `connected` is true;
* thread: a run's stream ends at its own turn's end and hides nothing, and the
  dispatcher never sends on a closed channel;
* registry: once a call has returned a handle, its events reach it, and what cannot
  be read or told is a visible gap;
* file approvals: the caller is asked about the changes the server holds at that
  moment, or not at all;
* transport: `Close` is a barrier behind which the child is reaped, and a clean
  end means complete output;
* hook configuration: the user's file survives every crash and comes back;
* hook listener: a hook blocks codex exactly when the user's callback said so in
  time, and neither a callback nor a shim that hangs holds up codex or `Close`;
* dispatcher: through one bounded channel `Connect`, callers, callbacks and `Close`
  wait for each other, and none waits for itself;
* configuration writes: no hooks key is written under the generated `hooks.json`;
* background terminals, thread history: pages and windows add up to one complete
  reading, or to an error;
* runtime discovery: what is offered is what the installed codex accepts and the
  requirements allow;
* output buffers: the ring holds the last bytes and the cap the first, whatever the
  sizes of the writes.

## 2. The modules

| Module | Models | Used by |
|---|---|---|
| `Demux` | `Send`, `Close`, `readLoop`, classification, gap markers, give-up, back-pressure | `MCDemux`, `Dispatcher` |
| `Dispatcher` | the composition of `Demux` with its users: the handshake of `Connect`, the dispatcher goroutine and its approval callback, other callers, `Client.Close` | `MCDispatcher`, `DemuxProofs` |
| `DemuxProofs` | theorems about `Demux`; the composition implements `Demux`; `Close` is a barrier for callbacks | |
| `EventStream` | the abstract promise of one subscription: a log and, per subscriber, a run of it | `ThreadEvents` (refinement) |
| `ThreadEvents` | subscriptions, dispatcher, watcher goroutines, `Client.Close` | `MCThreadEvents`, `ThreadEventsProofs` |
| `ThreadEventsProofs` | the refinement of `EventStream`, and the safety of the channels | |
| `Client` | `Connect`, `Close`, the dispatcher's start and stop, the hook bridge as one resource | `HookedClient` |
| `HookListener` | the shims, the accept loop, the goroutine and the callback of each connection, what a decision tells codex | `HookedClient` |
| `HookedClient` | the composition of the two: the bridge of `Client` is the listener; the fairness of both | `MCClient`, `HookedClientProofs` |
| `HookedClientProofs` | theorems about the client's life and its listener | |
| `Thread` | one thread: runs, the inbox, the active turn, compactions | `MCThread`, `ThreadProofs` |
| `ThreadProofs` | theorems about the streams of a thread | |
| `EventRouting` | how each kind of notification is read: operators over tables | `ThreadRegistry` |
| `ThreadRegistry` | handles by id: open, archive, the dispatcher's routing, delivery and publication, sweep | `MCThreadRegistry`, `ThreadRegistryProofs` |
| `ThreadRegistryProofs` | no notification is lost between the tables, the handles and the subscribers | |
| `FileApproval` | what an approval callback is shown: the cache of proposals, the ids a line yields, the callback that holds the dispatcher | `MCFileApproval`, `FileApprovalProofs` |
| `FileApprovalProofs` | theorems about `FileApproval` | |
| `AppServer` | the child process, its pipes, `watchExit`, the drains, `Close` | `MCAppServer`, `AppServerProofs` |
| `AppServerProofs` | theorems about the end of the child and `Close` | |
| `HookConfig` | `hooks.json`, its backups, clients in several processes, the clock | `MCHookConfig`, `CommandProofs` |
| `ConfigWrites` | the guard of configuration writes against the client's life, flag by flag | `MCCommands`, `CommandProofs` |
| `TerminalInventory` | a listing in pages while terminals start and end, and against a server that answers anything | `MCCommands`, `CommandProofs` |
| `ThreadHistory` | windows over a thread that grows | `MCCommands`, `CommandProofs` |
| `RuntimeDiscovery` | help, version, schema generation and the schema checks, with a codex that deviates in one part or is replaced meanwhile | `MCCommands`, `CommandProofs` |
| `OutputBuffers` | the ring buffer and the capped writer, byte by byte | `MCCommands`, `CommandProofs` |
| `CommandProofs` | theorems about the hooks file and about each part of `MCCommands` | |

## 3. How state and actions correspond to the code

**Locks and steps.**  What the code does inside one critical section, one atomic
operation or one channel operation is one action; what it does with a value it
read in an earlier one is another action, and the value is kept in a variable
between the two (`hand` in `Demux`, `dest` in `ThreadRegistry`, `dload` in
`Thread`, `snap` in `Client`, `kept`, `stale` and `spared` in
`HookConfig`, `todo` in `ThreadEvents`).  Program counters (`pc`, `rpc`, `cpc`, `xpc`, ...) name the
places where a goroutine can be preempted.  A `select` is a disjunction: any
ready branch may win, and its `default` is the `ELSE` of the guard.

**Channels.**  An unbounded history with the number of elements taken from it
where a property speaks of what was ever sent (`delivered`/`taken`,
`sent`/`read`), a sequence otherwise (`inbox`, `out`).  Capacities are constants:
64, 256 and 1..4096 of the code become 1 or 2, so that every channel fills up.

**Names.**  A line, a message, an event or a file is what the code tells apart: a
kind and, where identity matters, its place in the stream it came from.  Request
ids are numbers, as `IDAllocator` makes them; a turn, a handle or a compaction is
named after the call that asked for it.

**Time.**  A timeout may fire whenever its timer runs.  `HookConfig` keeps of a
backup's age only whether it passed `staleBackupAge`, and of modification times
only their order.

**The outside.**  The app-server (in `Demux`, `Thread`, `ThreadRegistry`), the child
process (`AppServer`) and the application that calls, cancels, reads or does not
read are nondeterministic.  Three things are assumed of the server, each because
the protocol says so and the code relies on it: it answers a request at most
once; it answers with the id of the request; it runs the turns of a thread one
after the other.

Some details that are easy to miss:

* `Demux`: `LoopResponse` looks the channel up and `LoopAnswer` writes to it,
  because `classifyAndRoute` unlocks between the two.  `LoopAbandon` resets
  `exitErr`: the loop leaves with a nil error when `Close` interrupts a delivery,
  even while giving up.  Decoding failures kill the child before the gap marker
  is queued.
* `Dispatcher`: the callback runs on the dispatcher's goroutine, so a message is in the
  channel, in a callback, or done with.  A callback may send, may close the client
  against `docs/approvals.md` (then only its own context ends the wait of `Close`), and
  may hold the dispatcher as long as it likes until `Close` cancels its context.
  `closeSnapshot` decides whether there is a dispatcher to wait for; `startDispatcher`
  refuses to start one after it.  `connect` has the places of `Connect` at which the
  demux matters; the other ones are in `Client`.
* `ThreadEvents`: the dispatcher works through a copy of the map (`todo`) taken
  under the lock; a subscriber may end, or be removed, while it is in the copy.
  The terminal record of an overflow or of damage uses the slot reserved for it.
* `Client`: a `Close` takes a snapshot of the cancel function, the dispatcher and
  the transport in one critical section and works on it after; a `Connect` may
  still be on its way to the next of its stages.
* `HookListener`, `HookedClient`: every step of `Client` is a step of the composition
  with `Bridged`, what that step does to the listener (start it, cancel its
  context, be done with it); a step of the listener leaves the client alone.  The
  caller that takes the bridge cannot go on before the wait group is empty
  (`FinishClose`).  The callback is an actor of its own, `GiveUp` the branch of the
  `select` in which its context ends first, and `TakeDecision` and `GiveUp` are both
  possible when both branches are ready.  Every deadline may pass at any moment,
  so the runs hold for every `HookTimeout`.
* `Thread`: `ClearActive` uses the id it loaded in `Deliver`; `Push` uses the
  compaction channel it loaded in `LoadTap`.  `activeTurnID` is also written by
  the goroutine of the run (`RunStreams`).  The inbox belongs to the thread, not to
  the run, so a run can read what an earlier one left.
* `EventRouting`, `ThreadRegistry`: a kind stands for the methods of `eventParsers` that
  are read alike; its row says which forms of a thread id the parser takes, whether
  params that do not decode are an error, and whether a payload is parsed too.
  `Route` gives what `handleNotification` does with a line.  The app-server's side
  (`SchemaForms`) is the schema the repository keeps in `internal/events/testdata`.
  As everywhere, the line behind a notification is chosen when it is read.  `stream`
  and `gaps` are what `publishThreadEvent` and `failThreadEventSubscriptions` are
  called with; what a subscription makes of it is `ThreadEvents`.
* `FileApproval`: `cache` is `Client.fileApprovals`, with "garbled" for an entry
  marked invalid.  A line's form is chosen when it is read (`Shapes`): `turn/completed`
  and the patch update find fewer of the nested ids than the other notifications,
  so the same form makes one notification known and another anonymous.  `asked`
  travels with a request only for the properties, as `lost` is kept only for
  them; no action's guard reads either.
* `AppServer`: `watchExit` calls `cmd.Wait` after the drain or its timeout, and
  `cmd.Wait` closes both pipes under their readers.  `Close` counts on a value of
  `waitDone` that exists once.
* `HookConfig`: every read, write and remove is a step; each write may fail before
  or after it truncated the file; a process may be killed in the middle of one.  An
  entry that cannot be examined, a directory or a backup that cannot be read, and a
  backup that cannot be removed (`spared`) are branches of their own, as the code goes
  on after each but one (an unreadable directory fails the detection).  `mishap` is a
  history variable that no guard reads: it lets the properties say exactly which
  accidents the code does not protect against.
* `ConfigWrites`: `rejectHookConfigWrite` and `sendRaw` load the two flags in opposite
  orders and without a lock; each load is a step (`GuardReadsConnected` to
  `RawReadsConnected`), between which `Connect` and `Close` go on.
* `TerminalInventory`: a request and the handling of its page are one action, as
  nobody else sees the rows; the terminals change between requests.  `honest` chooses
  once between a server that keeps its promise and one that answers any page.
* `ThreadHistory`: the SDK reads the whole thread for each window, so a window is cut
  from a history that may be longer than the last one.
* `RuntimeDiscovery`: every run of codex is a step, at which the installed codex may
  have become another one or the deadline may have passed.  A schema is the sets of
  fields it requires and describes as the SDK does; what one codex generates deviates
  in at most one place, which is enough to make each check matter alone.
* `OutputBuffers`: a byte is its place in the output, so that a buffer that keeps a
  stale byte, or returns bytes out of order, shows it.

## 4. The runs, their bounds, the fairness

| Run | Instance | Question it answers |
|---|---|---|
| `dispatcher` | `initialize` and 2 `Send`s, 5 lines, queue of 1 | is every answer routed to its own `Send`, through cancellation, callbacks and `Close`; is `Close` a barrier; does everybody stop waiting |
| `demux_stream` | 1 `Send`, 4 lines of every kind, give-up at 2 | is the message stream complete or visibly damaged, and its end explained |
| `subscriptions` | 2 subscribers of buffer 1, 3 notifications | slot reservation, silent shutdown, dead sources, refinement of `EventStream` |
| `subscriptions_end` | 2 subscribers, 1 notification | do streams end |
| `client_lifecycle` | 2 `Connect`s, 2 `Close`s, 1 hook | is everything released exactly once, whatever overlaps; is a hook answered with its callback's decision; does everybody end, whatever hangs |
| `thread` | 2 runs, or 2 compactions, 2 `Wait`s and 1 other notification; inbox 2, stream channel 1 | does a stream end with its own turn and hide nothing; no send on a closed channel, no lost completion; do runs and `Wait`s end |
| `registry` | 2 ids, 2 opens, 1 archive, 2 events | do events, in every form, reach the handle that holds the id, then the subscribers, or leave a gap |
| `file_approval` | 2 turns, 1 item each, 2 proposals, 5 forms of ids, 2 lines in flight | is the caller asked about the newest proposal, and about every sound one |
| `transport` | 2 `Close`s, 3 attempts, 1 line per pipe | `Close` as a barrier, honest reports, complete output, no zombie |
| `hook_config` | 3 clients in 3 processes | does the user's file survive and come back |
| `commands` | one of: 2 writers; 4 items in windows of 2; 4 terminals in pages of 1, 3 pages; 1 discovery; 11 bytes into a ring of 4 and a cap of 5 | is the hooks guard sound; do windows tile; is an inventory complete or refused; does what is offered work; is the right end of the output kept |
| `hook_same_pid` | 2 clients with one pid | violated, see section 7 |

**Why these bounds.**  Each hazard in `PROJECT.json` names a small number of actors:
two `Send`s (a lost route needs a second id), two subscribers (one that overflows
while another goes on), two `Connect`s and two `Close`s (a loser and a winner of
each), two runs (a turn and the one it can be mistaken for), two compactions
and two `Wait`s, three SDK clients (one that crashed, one that recovers, one that
interferes).  Channels of capacity 1 or 2 are full after one or two messages;
with longer ones the same states come later.  `MaxParseErrors` is 2 instead of
10: a run of damage is longer than its first line and shorter than the threshold.
`MaxLines` 4 lets damage, a message, damage and a give-up follow one another.
In `file_approval` the item has the same id in both turns, so that only the turn
tells them apart, and two proposals tell the newest from an older one; "odd",
"empty" and "garbled" contents stand for every list the code refuses, each for its
own reason.
`dispatcher` takes `OneConcernSpec` (`MCDispatcher`): the server's messages of one
behaviour are all notifications or all requests, and the second request runs next to
the first only where there are no messages.  Three `Send`s meet in the pending table,
messages meet a `Send` in the channel, and the two meetings do not need each other;
five lines fill a queue of one, hold up the loop, and still bring an answer.
`thread` takes `OneKindSpec` (`MCThread`) for the same reason: turns and compactions
meet only in the inbox and in `markClosed`.  `commands` is a union of machines that
share nothing but the client, of which a behaviour runs one (`part`).  Its three pages
are exceeded by four terminals; its two writers can differ in every step; eleven bytes
let a write fill the ring and go round, go round twice, be as long as the ring or
longer, and end at its last byte, from each position.  Pages of one show the cursors
and the bound; what a longer page can add, an order within it, the proof covers.
`MaxId` is the number of `Send`s: each takes one id.  `MaxEvents`, `MaxItems` and
`MaxTalk` bound the notifications only.  `hook_config` has `MayOverlap` FALSE: two
`Connect`s do not run at the very same time, a race the code does not exclude and
whose effects section 7 names; sessions do overlap.  `client_lifecycle` abstracts
transport, handshake and hook files to their outcomes, since `AppServer`, `Demux` and
`HookConfig` have their detail.  One hook is enough for `HookListener`: its connections
share the listener, the accept loop and the wait group only, and what one finds
there does not depend on the others but through `AllDone`.

Symmetry is used in the runs that check invariants or the refinement of
`EventStream`, over names that no action tells apart, and in no run that checks
liveness.  `CHECK_DEADLOCK FALSE` stands where the system may rest with a caller
that does nothing more (a thread, the registry, the transport and the hook files
have no last step); `Demux`, `ThreadEvents` and `Client` have an explicit `Quiet`
step when everything has ended, and a deadlock before that is an error.

**Fairness.**  Weak fairness of the steps a goroutine of the SDK takes by itself: it
will be scheduled, and the step stays possible until it is taken.  A `Send` that is
waiting receives or notices the stop; a `Close` that has begun goes on; a timer of
the shutdown ladder fires; a child that got SIGKILL dies; `Demux` assumes that the
child exits once its input is closed, which `AppServer` justifies (`ChildIsReaped`:
the ladder ends in SIGKILL).  `Thread` assumes that a `Send` of a closed client
returns, which `Dispatcher` justifies (`CloseEndsAll`).  In `Dispatcher` a callback
returns once its context is cancelled or the `Send` it waits for has returned, and a
callback that closes the client gives `Close` a context that ends; nothing makes one
return otherwise.  In `HookedClient` the deadlines of
the shim and of the listener pass, and nothing else: a callback may run for ever and
`Accept` may fail for ever.  Nothing makes the application
close, cancel, subscribe or read, nor the server answer.  Two properties state
what more they need as their own premise: `AnswersReturn` excepts a read loop that is
held up by a full channel nobody takes from (`HeldUp`), the second half of
`WaitingEnds` needs a caller that reads its stream and a server that accepts and
finishes turns (`Cooperation`).  `commands` checks no liveness and assumes no fairness.

**Mutants.**  Every property of a passing run has a mutant in `PROJECT.json`: a
plausible mistake in one mapped definition, written next to it in the module,
under which the same run reports that property.  The `TypeOK` of `ThreadEvents`,
`Thread`, `ThreadRegistry`, `AppServer`, `HookConfig` and `HookedClient` documents the
state and is not among the runs' properties: what a step could do wrong there, the
other properties say.  It is proved for each of them.

## 5. The proofs

`DemuxProofs` proves, for every set of calls, any number of ids and lines, every
queue capacity and every give-up threshold:

* `TypeCorrect`: `Spec => []TypeOK`.
* `OwnAnswerAlways`, `AnswerNeverBlocksAlways`, `AnswerNotLostAlways`,
  `PendingIsLiveAlways`: the four safety invariants of the demux that `dispatcher`
  checks.

They use the assumptions `CallsAssumption`, `KindsAssumption` and
`BoundsAssumption` of `Demux`, and, as part of the model, a server that answers a
request at most once.

None of the four is inductive.  `IndInv` adds to `TypeOK`:

* `Numbering`: ids are distinct and at most `lastId`.  Without it, a step of
  `SendRegister` could overwrite another `Send`'s entry.
* `Routing`: an answer anywhere between the wire and the caller (on the wire, in
  the loop's hand, in the slot, returned) is for the call it is going to.
* `Single`: an answer of a call exists in one place only (still asked, on the
  wire unread, in hand, in the slot).  It is what makes the write to a slot of
  one never block, and it needs that the server answers once.
* `PendingIsLive` itself, and the entry a waiting `Send` must still have while the
  demux is open: this makes the lookup of `LoopResponse` succeed.

The argument: `Init => IndInv`; every step of a `Send`, of the read loop and of the
rest preserves it, one lemma per part and group of actions; `IndInv` implies each
property; `PTL` closes the temporal step.  Only the rules about actions are used,
so the fairness of `Spec` plays no part.

* `FaithfulStreamAlways`: `Spec => []FaithfulStream`, what the consumer is handed.  `Stream`
  adds that everything handed on stands for a line that was read (`InRange`), that once
  `gapQueued` is down a routable line has come behind every marker (`Covered`), and that while
  it is up the marker is the last thing handed on (`Marked`): so the next damage either
  needs no marker or starts a run of its own.
* `EndIsExplainedAlways`: `Spec => []EndIsExplained`, why the loop ends.  `Ended` adds that
  `consecutive` counts the malformed lines of the last run of garbage (`Counted`, over the
  cardinality of a set of lines), and what error the loop carries and where it has been
  reported (`Explained`).

The second half of `DemuxProofs` lifts this to the composition:

* `DispatcherUsesDemux`: `DispatcherSpec => Spec`, that is, `Connect`, the
  dispatcher with its callback, the callers and `Close` together use the demux only as
  its own specification allows.  Every step of the composition is a step of `Demux` or
  leaves its variables alone (`DemuxStep`).
* `ClientCallsAreAnswered`: therefore the answers of the composition are the callers'
  own and none is lost.
* `CloseIsAlwaysFinal`: `DispatcherSpec => []CloseIsFinal`.  Alone `CloseIsFinal` is
  not inductive: a `Close` that saw no dispatcher must know that none can start any
  more.  `CloserKnows` says it: once `closeSnapshot` has run, there is a dispatcher
  only if it was seen, because `startDispatcher` checks `closed` in the same critical
  section (`MayStart`).

`FileApprovalProofs` proves, for every set of turns, items, proposals and shapes of a
line, and any number of lines in flight:

* `TypeCorrect`: `Spec => []TypeOK`.
* `NothingStaleIsEverAsked`, `SoundIsAlwaysAsked`: the two safety invariants of
  `file_approval`.

They use `ShapesAssumption`, `BoundAssumption`, `DecisionsAssumption` and
`ProposalsAssumption` of `FileApproval` (a proposal is none of the names the module
gives to other contents) and, as part of the model, an app-server that starts an
item once, updates it only while it lives and ends it with its turn.

Both properties compare what the dispatcher decides with what the server held when it
*wrote* the request, some lines earlier, and `TypeOK` says nothing of the lines in
between.  `Followed` does: for each item there is a `Story`, one state before each
line in flight and the server's own at the end, in which each line `Fits` its
two neighbours (an update is of a live item and leads to its content; a request
changes nothing and carries the state it was written in), and the first state
`Agrees` with the cache (what is remembered is that state, unless the item is over
and a line of it was lost; what is forgotten is not alive, unless a line was
lost).  A line of the server makes every story longer (`AppendStory`), a line read
makes it shorter by its first state (`TailStory`), and for each form of a line the
cache follows (`NotificationAgrees`).  When a request is at the head, the state
before it is the state it was written in, so `ResolveAgrees` yields both
properties from `Agrees` alone.

`CommandProofs` has a section for each of the parts that share nothing but the client.

*Configuration writes.*  `GuardIsSound`, `ConfigSpec => []GuardHolds`, is for any set of
writers.  The guard reads the flags without a lock, so the proof must say why what it
saw still counts when `sendRaw` reads them again.  `LifeInv` follows the flags along the
client's life: once `Connect` has returned they only fall towards refusal.  `KnowsInv`
says what a write that passed the guard therefore knows at each later step: at its
first look in `sendRaw` the client is closed or not connected, at its second it is not
connected, and it never sends.  Flags that do not rise again are all it needs, no lock.

*Output buffers.*  `BuffersKeepOutput`, `BufferSpec => []OutputIsKept`, is for any
sizes of the buffers and of the writes.  The property says what `String` returns;
`RingInv` says where each byte lies (`Ring`: those before the head are the newest, those
behind it the oldest), which is what a write needs.  `WrapKeepsRing` is the heart: the
ring mode takes a ring of the last `RingSize` of `w` bytes to one of `w + n`, in each of
its cases.

*The hooks file.*  `UserDataAlwaysExists`, `OneAtATimeAlways`, `AlwaysRestoredByClose` and the
types are of the form `Separate => (Spec => []...)`.  `Separate` says that each client has a
process of its own and that two `Connect`s do not run at the very same time (`~MayOverlap`),
which `MCHookConfig.cfg` has too.  Without either the properties are false: `hook_same_pid`
shows the first, section 7 names the second.  The accidents the code does not cover
(`Unprotected`) are excluded by the properties themselves.  The invariant follows a client from
step to step: what there is to read is the user's (`Genuine`), each has its backup from writing
it to removing it (`Owned`), a recovery only removes the backups of clients that are gone
(`Stale`), past `detectConcurrentSDK` a client is alone with the user's file, and with leftovers
of clients that are gone (`Alone`), the file is in place or in a backup that somebody will write
back (`Saved`), and the last client to connect was not followed (`Restored`).  `Saved` needs that
a backup a recovery is about to remove, or could not remove and passes over at detection
(`spared`), does not count, because the file has been written back before.

*Runtime discovery.*  `ProvenIsAlwaysUsable` and `OffersAreAlwaysAllowed` are for every codex with
at most one deviation, replaced at any moment or never.  The invariant says which schema is
asked for and when the client stops asking for it (`AskedInv`), that the codex that generated
the schema could do so and is the installed one unless that was replaced (`ByInv`), that the
granular policy comes from an experimental schema alone (`PoliciesInv`), and what a call that
succeeded returned (`FeaturesInv`, `ControlsInv`).

*Thread history.*  `WindowsAlwaysTile` is for every limit and any growth.  The messages of a
history are the value of a recursive function; that it exists and what it does with one item
more is proved by induction over a set of numbers (`InSetOfAll`, from the library's
`WFMin` and `NatLessThanWellFounded`, which take no operator).  What was collected begins what the last call saw
(`Tiled`), and that begins what there is (`Grown`); `WindowFacts` is the arithmetic of one
window.

*Background terminals.*  `InventoryIsAlwaysComplete` is for any number of terminals, any page
size and any maximum of pages.  With an honest server everything up to the cursor that has run
since the call began is among the rows (`Listed`), and what has run throughout still runs
(`Remembered`), so the last page brings the rest; whatever the server answers, each request
but the first is paid for by a cursor never seen before (`Limited`).

`ThreadEventsProofs` proves, for any subscribers, buffer and length of the log
(`SubscriberAssumption` and `BufferAssumption` of `ThreadEvents`), that
`Spec => ImplementsStreams` (`StreamsAreImplemented`): with the dispatcher, the
watchers and `Close` between each other's steps, every subscription is a stream
of `EventStream`.  It also proves `ReservedSlotAlwaysFree`, `ShutdownIsAlwaysSilent`,
`DeadSourceAlwaysRefuses` and the types.  The parts of `StreamInv`:

* `Owed`: an open subscription is one entry behind the log while the dispatcher has
  not come to it (`todo`), and otherwise, as long as it is in the map, not behind.
  The gap-free run of the abstract stream follows from it.
* `InHand`, `Ending`: what the dispatcher is about to do, and how far `Close` and
  the end of the source have come, so that a stream ends for a reason.
* `Dead`: a record that stands for no entry of the log is that of a source that
  ended by itself, after `connected` was stored; that a later subscription is refused
  follows from the second look under `c.mu`.
* `Fresh`: a subscription that was not made is known to nobody.

The refinement mapping reads a subscription's `status` and `sent` as the abstract
stream's; each step maps to one step of `EventStream` or to a stutter, action by action.

`AppServerProofs` proves `CloseIsAlwaysABarrier` and `EndIsAlwaysHonest`, for any number
of callers of `Close`, attempts and output (`LimitsAssumption`).  `ExitInv` adds
to the types: `Reaped` (the place of `watchExit` says whether the child is reaped and
`ready` taken back, both before `waitDone` has its value), `Finishing` (a `doClose` ends
only with that value; the others wait for one that has), `Marked` (`shutdownReq` is set
before the input is closed, so that a child that has exited did so early or marked),
and `EndSeen` (who has read to the end has read to the end for good: no descendant that
holds the pipe comes back).

`ThreadProofs` proves, for any runs, compactions, waits and sizes of the channels
(`SizeAssumption`, `TalkAssumption`, `NoneAssumption`):

* `StreamsEndWithTheirTurn`: `Spec => []EndsWithItsTurn`.  `Accepted` says that a turn is
  asked for, answered, run and ended once, in this order; `AllTold` that each end still
  on its way (on the wire, with the dispatcher, in the inbox, in a hand) is how its turn
  ended; `Expecting` that a stream whose answer named its turn has not forwarded that
  end while it runs.
* `GapsAreAlwaysDrops`: `Spec => []GapsAreDrops`.  Alone it says nothing of what is still
  to be read.  `Numbered` numbers what is on its way; `InOrder` puts what a stream has
  before what waits in the inbox, and that before the next push; `InboxGaps` and
  `StreamGaps` say that from any notification on that waits, or that a stream has,
  all that went through `deliverEvent` is there or was dropped.  They need that one run
  at a time reads the inbox (`Held`).  On a closed thread they stop at the last
  notification that is left, because a closed thread drops the next ones silently.
  `KeepsOrMoves` reduces the steps to those that move a notification (`Push`, `Take`,
  `Forward`) and those that do not.
* `NeverSendsOnClosed`: `Spec => []NoSendOnClosed`, because `markClosed` needs the lock the
  dispatcher holds from the look at `closed` to the send (`TapOpen`).
* `CompactionsAreHeard`: `Spec => []NotificationIsKept`, for which nothing the server says of
  compactions may be the name for nothing (`EventAssumption`).  `Installed` says that the subscription is there
  from before the request to the end of a `Wait` on it, `Arrives` that the end of a compaction
  is on its way until that subscription has it.

`HookedClientProofs` proves, for any callers of `Connect` and `Close` and any hooks
(`HookedSpec`, of which only the steps are used, not the fairness):

* `ConnectedIsAlwaysTrue` and `NothingIsEverLeft`.  One `Connect` gets through `beginConnect`
  and one `Close` wins the swap (`OneConnect`, `OneClose`).  A running process is in the
  hands of its `Connect`, or is the published one, which the `Close` under way has in its
  snapshot (`Published`) and has ended before it resets (`Ended`, `Forgotten`).  A dispatcher
  starts on an open client only, so that the snapshot has it and `Close` cancels it
  (`Dispatched`).  While the bridge is up somebody is going to take it, and while it is being
  torn down somebody is at it (`Bridge`).
* `HookVerdictsAlways` and `HandlerRestsAlways`.  The bridge of `Client` is the listener
  (`Life`), a listener that is closed has no connection that is served, and what a shim
  was told and says is what its callback decided or a deadline or the end took the place of
  (`Called`, `Heard`).
* `HookedTypes`.

`ThreadRegistryProofs` proves, for any callers, ids and number of notifications
(`BoundAssumption`), the types and `NotificationsAreAlwaysKept`:
`Spec => []NotificationsAreKept`.  What Close has not dropped is what the calls have left in the
map (`Mirror`), under the id each of them returned with (`Holders`); the wire is in the order of
sending and each notification on it is about the id of whoever it was sent to (`Ordered`);
what was taken is at hand or published, once (`Once`); so a notification finds
its handle in the map at the moment of the lookup, and is on its way to it or has reached it
as long as the handle keeps its id (`Reaches`), and what was read is with the subscribers, on its
way, or a gap (`Accounted`).  `ThreadsAreRouted` and `ReadingFacts` say of the tables of
`EventRouting` that no kind of notification falls between them.

All safety invariants the passing runs check are proved.  Liveness (`WaitsEnd`, `EveryCallEnds`,
`StreamsEnd`, `WaitingEnds`, `ChildIsReaped`), which TLAPS does not reach, is checked by TLC on the
instances above and not proved.  Each theorem is about the model's steps, and the
comparison of the model with the code stays a matter of reading: `map` in
`PROJECT.json` names the lines.

## 6. What is not modelled

* JSON decoding and the contents of events and types: pure data; the models take
  their outcomes (a message, damage, the end of a turn) as inputs.  What is kept of
  parsing is in `EventRouting` and `FileApproval`: what fails, and which ids are read.
* Version parsing and ordering, command arguments, `AGENTS.md`, `GitDiff`'s arguments,
  the start-up wrapper: sequential code whose result does not depend on an order.
* Commands that are one request and one response (the rest of `client_commands.go` and
  `client_helpers.go`): to the models each is a `Send`, and `Dispatcher` is its behaviour.
  The classification of RPC errors by their text is left out.
* The other calls of `thread_history.go` (listing and searching threads): one request
  each, whose cursor is handed to the caller.
* The isolated hook mode (a directory of its own, no other writer), path
  arithmetic, the search for binaries, logging, the warm pool (a stub).

## 7. Where the code and what is said about it differ

One difference has a run that TLC must find violated:

* **`hook_same_pid`** (`UserDataExists`).  `detectConcurrentSDK` passes over a backup
  whose name ends in its own pid and says that the case will "fail downstream"
  (`client_hookbridge.go:356-357`).  Nothing fails: a second client of the same
  process, or of the next process in a container whose pids start again, reads
  the generated `hooks.json` as the user's and writes it over the only backup.
  `docs/hooks.md:174-176` promises an error, `:104` that data is never lost.

The following were met while modelling.  Each formula is in its module, under
the heading of what the repository says and the code does not do, and each
configuration gives TLC's trace when it is run by hand (`tlc -config X.cfg M`); TLC stops
at the first formula a configuration names: to see the other, take the first out.

| Formula, configuration | What is said | What the code does |
|---|---|---|
| `InvalidIsDenied`, `MCFileApprovalStale.cfg` | "Missing or invalid context is denied without invoking the callback" (`docs/approvals.md:52`); an invalid entry is retained "so legacy inline fields cannot revive stale context" (`client_file_approval.go:66`) | a damaged line clears the whole cache, the invalid entries too (`client_dispatch.go:78`); the next request that has a `path` of its own is shown with it (`client_file_approval.go:80`) |
| `GuardHoldsAlways`, `MCCommandsEarly.cfg` | "refusing to write ... while WithHookCallback owns generated hooks.json" (`client_commands.go:403`) | the file is written before `connected` is stored; a write begun while `Connect` runs passes the guard, then finds the client connected in `sendRaw`, and is applied |
| `QuietMeansNoActiveTurn`, `MCThreadStale.cfg` | `ErrNoActiveTurn` "when no turn is currently running" (`threads.go:22-23`) | the id in the answer to `turn/start` is stored after the dispatcher may have handled the end of that turn (`threads.go:216`); the idle thread keeps it |
| `StreamCanInterrupt`, `MCThreadTwoRuns.cfg` | "cancels the currently-running turn (if any)" (`threads.go:146`) | `clearActiveTurnID` loads, compares and stores (`threads.go:163-169`), and can wipe the id the next run stored in between |
| `DropsOnlyWhenStalled`, `MCThreadDrops.cfg` | full "only if the caller stalls consuming the channel" (`threads.go:87-88`) | the inbox fills with whatever arrives while no run reads it (`threads.go:116-119`) |
| `RunFailsWithItsTurn`, `MCThreadTwoRuns.cfg` | `Run` "blocks until the turn completes (or fails ...)" (`threads.go:298-299`) | it returns at the first `turn/failed` it reads, whose turn it does not look at (`threads.go:333`) |
| `WaitMatches`, `MCThreadWaits.cfg` | "until the matching thread/compacted notification" (`compact_result.go:34`) | a `Wait` that timed out frees the subscription; the next one takes the earlier compaction's notification (`compact_result.go:61`) |
| `WaitIsIdempotent`, `MCThreadWaits.cfg` | "Wait is idempotent" (`compact_result.go:38-39`) | two `Wait`s that overlap on one result: one gets the notification, the other waits for its context (`compact_result.go:48`) |
| `CloseReachesEveryHandle`, `MCThreadRegistryClose.cfg` | `Close` "closes every Thread's inbox" (`client.go:445`) | it closes those in the map; a handle that was replaced or archived is not (`client_dispatch.go:182`) |
| `CloseWaitsForCallbacks`, `MCClientClose.cfg` | `Close` "waits for in-flight hook callbacks to finish (bounded by their own timeouts)" (`internal/hookbridge/listener.go:120-121`) | it cancels their context first (`:132`); whoever waits for a callback stops waiting (`:226`), and the callback runs on after `Close` |
| `CloseHearsCallbacks`, `MCClientClose.cfg` | the same: a callback in flight keeps its own timeout | at `Close` it is answered with allow at once, and a refusal that is ready may lose the `select` (`:223-226`) |
| `StderrIsComplete`, `MCAppServerSaid.cfg` | stderr is cut only when a descendant holds the pipe (`subprocess_lifecycle.go:18-28`) | the timeout of the drain runs from the spawn (`:33`): with a child that lived longer, `cmd.Wait` closes the pipe under the reader |
| `LadderSendsTerm`, `MCAppServerSaid.cfg` | end of input, SIGTERM, SIGKILL (`subprocess_lifecycle.go:95-101`, `docs/architecture.md:149-154`) | the second stage sends an interrupt, SIGINT (`:143`) |

Five more have no formula, because they are about durations, Go types and texts.  The
timeout codex gets for the shim is 30 seconds and "MUST exceed" `HookTimeout`
(`client_hookbridge.go:27-30`), and the shim waits 30 seconds from its dial
(`cmd/codex-sdk-hook-shim/main.go:45`); neither follows `WithHookTimeout`, whose default
is 30 seconds from a later moment, so that a refusal late in a callback's time
does not reach codex.  And pointers to the three types of decision satisfy
`HookDecision` too ("exactly one of the concrete types", `types/hooks.go:192-193`): a
callback that returns `&HookDeny{}` is answered with allow (`decision.go:25-28`).
`InitAgentsMD` looks for the file and then writes it (`client_helpers.go:79-87`), so that a
file made in between is overwritten, although without `Overwrite` an existing one is
`AGENTSMDExistsError` (`:46-49`).  `threadHistoryRPCError` takes any message that contains
"not found" for a missing thread (`thread_history.go:360`): the "method not found" of a
codex without the method (`client_commands_test.go:419`, `demux_test.go:126`) becomes
`ThreadHistoryNotFound` instead of `ThreadHistoryFeatureUnavailable`.  And
`DiscoverRuntimeFeatures` reports the version of its first run with the features of its
last (`runtime_features.go:50`, `:73`), which are another codex's if it is replaced in
between.

`HookConfig` excludes by name (`Unprotected`) the accidents after which the code does
lose the user's file: a write of `hooks.json` that fails after truncating it, whose
rollback removes the backup (`client_hookbridge.go:317-321`), or a backup cut short
("torn"); a recovery that cannot read the oldest stale backup ("leaving in place",
`:421-426`) or cannot write `hooks.json`, after which detection passes over the backup as
handled (`:363-365`) and the client takes the generated file for the user's, backs it up and
writes it back on `Close` ("unrecovered"); a client that comes while another has been up
for more than 60 seconds and takes its backup for an abandoned one ("robbed"); a
client that gets past a backup it has not written back, because that reached the age between
recovery and detection, or because recovery or detection could not examine it or recovery could
not read the directory (`:382-385`, `:359-365`, "slipped"); and, with `MayOverlap`, two
`Connect`s between each other's steps.  Of any other read, write or removal that fails, and
of a kill at any step but the writing of a backup, the three properties are shown.

## 8. The plan

Done so far: the core (demux, subscriptions, lifecycle, threads, registry, file
approvals, transport, hooks), the composition of demux, dispatcher, callback and
`Close`, the commands that take several steps, and the byte buffers.  Left:

1. Models: version ordering and argument choice as operators with a reference
   definition; the listing of threads with cursors; what `classifyRPCError` and
   `threadHistoryRPCError` make of an error.
2. Proofs: what `Dispatcher` says of a `Send` as a refinement of an abstract call that is
   answered once; a refinement of `FileApproval` to the answer a reader of the thread would
   give; the action properties behind the liveness runs (each step of a `Close` leads on).
