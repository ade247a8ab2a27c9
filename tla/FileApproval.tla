----------------------------- MODULE FileApproval -----------------------------
(****************************************************************************)
(* The file changes an approval callback is asked about                     *)
(* (client_file_approval.go).  A request names an item and usually not its  *)
(* content, so the dispatcher remembers, per thread, turn and item, what    *)
(* the notifications before it announced; the callback then runs on the     *)
(* dispatcher while the app-server goes on (client_dispatch.go).            *)
(*                                                                          *)
(* A turn here is a thread id with a turn id.  The app-server is external:  *)
(* an item of it starts at most once, is updated while it lives and ends    *)
(* with itself or its turn.  How a line reads, which is the app-server's    *)
(* choice too, is made when the line is read, where nobody can tell.        *)
(****************************************************************************)
EXTENDS Sequences, Naturals

CONSTANTS
    Turns, Items,
    Proposals,      \* lists of changes that are complete and well formed
    Shapes,         \* the forms in which a line can carry its three ids
    Decisions,      \* what the caller's callback may return
    MaxWire         \* lines on their way to the dispatcher

\* Ids come flat ("threadId"), nested ("thread":{"id"}) or not at all.
Form == {"flat", "nested", "missing"}
Flat == [thread |-> "flat", turn |-> "flat", item |-> "flat"]
ASSUME ShapesAssumption ==
    /\ Shapes \subseteq [thread : Form, turn : Form, item : Form]
    /\ Flat \in Shapes
ASSUME BoundAssumption == MaxWire \in Nat \ {0}
ASSUME DecisionsAssumption ==
    Decisions \subseteq {"accept", "acceptForSession", "deny", "cancel", "answers", "other"}
\* A proposal is none of the names this module gives to other contents.
ASSUME ProposalsAssumption ==
    Proposals \cap {"empty", "odd", "garbled", "unborn", "over", "absent"} = {}

\* "odd": some change has a blank path or an operation the SDK does not know.
\* "garbled": null, or no list of changes; an item cannot start that way, for
\* then the line does not parse.
Startable == Proposals \cup {"empty", "odd"}
Content == Startable \cup {"garbled"}

Key == Turns \X Items
TurnOf(k) == k[1]

VARIABLES
    proposal,   \* the server's item: its content, "unborn" or "over"
    wire,       \* lines the dispatcher has not read, in order
    cache,      \* Client.fileApprovals; "garbled" is an invalidated entry
    phase,      \* the dispatcher: "reading", "asking" the callback, "over"
    ending,     \* "no"; "gone": the server ended; "closing": ctx is cancelled
    last,       \* what became of the request the dispatcher read last
    lost        \* history: items of which it did not or will not read some line

vars == <<proposal, wire, cache, phase, ending, last, lost>>
server == <<proposal, ending>>

Line == [kind : {"started", "updated"}, key : Key, content : Content]
   \cup [kind : {"completed"}, key : Key]
   \cup [kind : {"turnCompleted", "turnFailed"}, turn : Turns]
   \cup [kind : {"request"}, key : Key, asked : Content \cup {"unborn", "over"}]
   \cup [kind : {"other"}]

Roots == {"none", "blank", "given"}
NoRequest == [from |-> "no request"]

\* from: where the callback's view of the changes came from; "refused" when it
\* was not asked, "root" when there was only a root to grant, "itself" when the
\* request is about something else.
Requests == [key : Key, asked : Content \cup {"unborn", "over"}, root : Roots,
             full : BOOLEAN, from : {"refused", "cache", "inline", "root"},
             shown : Startable,
             answer : {"none", "accept", "acceptForSession", "decline",
                       "cancel", "answers", "unsent"}]
Others == [from : {"itself", "unparsed"},
           answer : {"none", "accept", "acceptForSession", "decline",
                     "cancel", "answers", "error", "unsent"}]

TypeOK ==
    /\ proposal \in [Key -> Content \cup {"unborn", "over"}]
    /\ wire \in Seq(Line) /\ Len(wire) <= MaxWire
    /\ cache \in [Key -> Content \cup {"absent"}]
    /\ phase \in {"reading", "asking", "over"}
    /\ ending \in {"no", "gone", "closing"}
    /\ last \in Requests \cup Others \cup {NoRequest}
    /\ phase = "asking" => last # NoRequest
    /\ lost \subseteq Key

Init ==
    /\ proposal = [k \in Key |-> "unborn"]
    /\ wire = <<>>
    /\ cache = [k \in Key |-> "absent"]
    /\ phase = "reading"
    /\ ending = "no"
    /\ last = NoRequest
    /\ lost = {}

-----------------------------------------------------------------------------
(* The app-server.                                                          *)

\* What it still says to a client that is closing is left out.
Says(line) ==
    /\ ending = "no" /\ phase # "over" /\ Len(wire) < MaxWire
    /\ wire' = Append(wire, line)
    /\ UNCHANGED <<cache, phase, ending, last, lost>>

Live(k) == proposal[k] \in Content

StartItem(k) ==
    /\ proposal[k] = "unborn"
    /\ \E c \in Startable :
        /\ proposal' = [proposal EXCEPT ![k] = c]
        /\ Says([kind |-> "started", key |-> k, content |-> c])

UpdatePatch(k) ==
    /\ Live(k)
    /\ \E c \in Content :
        /\ proposal' = [proposal EXCEPT ![k] = c]
        /\ Says([kind |-> "updated", key |-> k, content |-> c])

CompleteItem(k) ==
    /\ Live(k)
    /\ proposal' = [proposal EXCEPT ![k] = "over"]
    /\ Says([kind |-> "completed", key |-> k])

\* No item of a turn starts after its end.
EndTurn(t) ==
    /\ \E k \in Key : TurnOf(k) = t /\ proposal[k] # "over"
    /\ proposal' = [k \in Key |-> IF TurnOf(k) = t THEN "over" ELSE proposal[k]]
    /\ \E kind \in {"turnCompleted", "turnFailed"} :
        Says([kind |-> kind, turn |-> t])

\* A request may also come before its item or after it: the tests send such.
Ask(k) ==
    /\ Says([kind |-> "request", key |-> k, asked |-> proposal[k]])
    /\ UNCHANGED proposal

\* A request for a command, a permission, an elicitation, user input, or of a
\* method the SDK does not know.
AskOther == Says([kind |-> "other"]) /\ UNCHANGED proposal

ServerEnds ==
    /\ ending = "no"
    /\ ending' = "gone"
    /\ UNCHANGED <<proposal, wire, cache, phase, last, lost>>

Close ==
    /\ ending # "closing" /\ phase # "over"
    /\ ending' = "closing"
    /\ UNCHANGED <<proposal, wire, cache, phase, last, lost>>

-----------------------------------------------------------------------------
(* Which ids a line of each kind yields.                                    *)

Reads(form, nestedToo) == form = "flat" \/ (form = "nested" /\ nestedToo)

\* resolveIDs serves every kind but turn/completed and the patch update.
ThreadRead(kind, s) ==
    Reads(s.thread, kind \in {"started", "completed", "turnFailed"})
TurnRead(kind, s) ==
    Reads(s.turn, kind \in {"started", "completed", "turnCompleted", "turnFailed"})
\* item/started and item/completed fall back to the id in the item itself.
ItemRead(kind, s) == Reads(s.item, kind \in {"started", "completed"})
Identified(kind, s) ==
    TurnRead(kind, s) /\ (kind \in {"turnCompleted", "turnFailed"} \/ ItemRead(kind, s))

-----------------------------------------------------------------------------
(* rememberFileApproval and its callers, on the dispatcher.                 *)

Put(k, v) == [cache EXCEPT ![k] = v]
Without(S) == [k \in Key |-> IF k \in S THEN "absent" ELSE cache[k]]

\* clearFileApprovals.  Mutant: only a turn's end clears.
NeverClears == cache
ForgetAll == Without(Key)

ReadsLine ==
    /\ phase = "reading" /\ wire # <<>>
    /\ wire' = Tail(wire)
    /\ UNCHANGED server

\* A frame that does not decode, or a notification that does not parse.
Damaged ==
    /\ ReadsLine
    /\ cache' = ForgetAll
    /\ lost' = Key
    /\ last' = NoRequest
    /\ UNCHANGED phase

\* A notification whose thread cannot be told.
Anonymous ==
    /\ wire # <<>> /\ Head(wire).kind \notin {"request", "other"}
    /\ \E s \in Shapes : ~ThreadRead(Head(wire).kind, s)
    /\ Damaged

\* Some form makes a line of this kind known, or leaves a turn or item out.
Known(kind) == \E s \in Shapes : ThreadRead(kind, s) /\ Identified(kind, s)
Partial(kind) == \E s \in Shapes : ThreadRead(kind, s) /\ ~Identified(kind, s)

\* Reads a notification of one of these kinds whose thread is known.
Notified(kinds) ==
    /\ ReadsLine
    /\ Head(wire).kind \in kinds
    /\ last' = NoRequest
    /\ UNCHANGED phase

ItemStarted ==
    /\ Notified({"started"}) /\ Known("started")
    /\ cache' = Put(Head(wire).key, Head(wire).content)
    /\ lost' = lost \ {Head(wire).key}

\* The entry that a patch update leaves.  Mutant: an invalid one is dropped.
DropsInvalid(c) == IF c = "garbled" THEN "absent" ELSE c
Patched(c) == c

\* An item that is not active stays so.
FileChangePatchUpdated ==
    /\ Notified({"updated"}) /\ Known("updated")
    /\ cache' = IF cache[Head(wire).key] = "absent" THEN cache
                ELSE Put(Head(wire).key, Patched(Head(wire).content))
    /\ UNCHANGED lost

PatchOfUnknownItem ==
    /\ Notified({"updated"}) /\ Partial("updated")
    /\ cache' = ForgetAll
    /\ lost' = Key

ItemCompleted ==
    /\ Notified({"completed"}) /\ Known("completed")
    /\ cache' = Without({Head(wire).key})
    /\ UNCHANGED lost

\* The entries that the end of a turn removes.  Mutant: those of every turn.
EndedByAny(t) == Key
EndedBy(t) == {k \in Key : TurnOf(k) = t}

TurnEnds == {"turnCompleted", "turnFailed"}
TurnTerminus ==
    /\ Notified(TurnEnds) /\ Known(Head(wire).kind)
    /\ cache' = Without(EndedBy(Head(wire).turn))
    /\ UNCHANGED lost

\* A start, a completion or a terminus with an id missing changes no entry.
NotRemembered ==
    /\ Notified({"started", "completed"} \cup TurnEnds)
    /\ Partial(Head(wire).kind)
    /\ lost' = lost \cup (IF Head(wire).kind \in TurnEnds
                          THEN EndedBy(Head(wire).turn) ELSE {Head(wire).key})
    /\ UNCHANGED cache

-----------------------------------------------------------------------------
(* resolveFileApproval: what the callback will see, or a refusal.  A        *)
(* request has no nested ids; its inline fields (Path, Operation, Diff)     *)
(* are "empty" when it has no path.                                         *)

Refused == [from |-> "refused", shown |-> "empty"]

Resolve(k, full, root, inline) ==
    LET entry == IF full THEN cache[k] ELSE "absent"
        changes == IF entry = "absent" THEN inline ELSE entry
        source == IF changes = "empty" THEN "root"
                  ELSE IF entry = "absent" THEN "inline" ELSE "cache"
    IN  IF \/ entry = "garbled" \/ root = "blank"
           \/ root = "given" /\ ~full
           \/ root = "none" /\ changes = "empty"
           \/ changes = "odd"
        THEN Refused
        ELSE [from |-> source, shown |-> changes]

\* RespondServerRequest fails on a pipe that is closed.
Sent(answer) == IF ending = "no" THEN {answer} ELSE {answer, "unsent"}

\* EncodeApprovalDecision; "other" is a decision type it does not know.
\* Mutant: that one is passed on.
EncodeKnown(d) == IF d = "deny" THEN "decline" ELSE d
Encode(d) == IF d \in {"deny", "other"} THEN "decline" ELSE d

\* Whether a request has its three ids.
FullOrNot == {s = Flat : s \in Shapes}

\* handleServerRequest.  A refusal answers at once for the caller, as does a
\* client without a callback.
FileRequest ==
    /\ ReadsLine
    /\ Head(wire).kind = "request"
    /\ \E full \in FullOrNot, root \in Roots, inline \in Startable :
        LET k == Head(wire).key
            r == Resolve(k, full, root, inline)
        IN \E answer \in IF r = Refused THEN Sent("decline") ELSE {"none"} :
            /\ last' = [key |-> k, asked |-> Head(wire).asked, root |-> root,
                        full |-> full, from |-> r.from, shown |-> r.shown,
                        answer |-> answer]
            /\ phase' = IF r = Refused THEN "reading" ELSE "asking"
    /\ UNCHANGED <<cache, lost>>

OtherRequest ==
    /\ ReadsLine
    /\ Head(wire).kind = "other"
    /\ last' = [from |-> "itself", answer |-> "none"]
    /\ phase' = "asking"
    /\ UNCHANGED <<cache, lost>>

UnparsedRequest ==
    /\ ReadsLine
    /\ Head(wire).kind \in {"request", "other"}
    /\ \E answer \in Sent("error") :
        last' = [from |-> "unparsed", answer |-> answer]
    /\ UNCHANGED <<cache, lost, phase>>

\* The callback runs on the dispatcher, which reads nothing until it returns.
CallbackReturns ==
    /\ phase = "asking"
    /\ phase' = "reading"
    /\ \E d \in Decisions : \E answer \in Sent(Encode(d)) :
        last' = [last EXCEPT !.answer = answer]
    /\ UNCHANGED <<proposal, wire, cache, ending, lost>>

DispatcherLeaves ==
    /\ phase = "reading"
    /\ ending = "closing" \/ (ending = "gone" /\ wire = <<>>)
    /\ phase' = "over"
    /\ cache' = ForgetAll
    /\ lost' = Key
    /\ last' = NoRequest
    /\ UNCHANGED <<proposal, wire, ending>>

-----------------------------------------------------------------------------
Next ==
    \/ \E k \in Key : StartItem(k) \/ UpdatePatch(k) \/ CompleteItem(k) \/ Ask(k)
    \/ \E t \in Turns : EndTurn(t)
    \/ AskOther \/ ServerEnds \/ Close
    \/ Damaged \/ Anonymous \/ ItemStarted \/ FileChangePatchUpdated
    \/ PatchOfUnknownItem \/ ItemCompleted \/ TurnTerminus \/ NotRemembered
    \/ FileRequest \/ OtherRequest \/ UnparsedRequest \/ CallbackReturns
    \/ DispatcherLeaves

Spec == Init /\ [][Next]_vars

-----------------------------------------------------------------------------
\* "The SDK resolves the active file-change item ..., including the latest
\* patch-update event, before calling you" (docs/approvals.md:49-51): changes
\* that come from the cache are those the item had when the app-server asked.
\* Nothing but lost lines lets the request's own fields, or a root alone, take
\* the place of a live item's changes.
NothingStaleIsAsked ==
    /\ last.from = "cache" => \/ last.shown = last.asked
                              \/ last.asked = "over" /\ last.key \in lost
    /\ last.from = "inline" => \/ last.asked \in {"unborn", "over"}
                               \/ last.key \in lost \/ ~last.full
    /\ last.from = "root" => \/ last.asked \in {"unborn", "over", "empty"}
                             \/ last.key \in lost

\* A request for a live, well-formed proposal is put to the caller, whatever
\* happened to other items and turns: only lost lines and the request itself
\* can make the SDK refuse it.
SoundIsAsked ==
    last.from = "refused" => \/ last.asked \notin Proposals
                             \/ last.key \in lost
                             \/ ~last.full \/ last.root = "blank"

-----------------------------------------------------------------------------
\* "Missing or invalid context is denied without invoking the callback"
\* (docs/approvals.md:52).  The code keeps this while it remembers the invalid
\* entry, and forgets it with the first damaged line.
InvalidIsDenied ==
    last.from \in {"cache", "inline", "root"} => last.asked # "garbled"
=============================================================================
