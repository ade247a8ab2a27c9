----------------------------- MODULE EventRouting -----------------------------
(****************************************************************************)
(* How the dispatcher reads a notification: ParseEvent and its parsers      *)
(* (internal/events), then the thread the event is for                      *)
(* (client_thread_ids.go).  A kind stands for the methods that are read     *)
(* alike.  Operators only; ThreadRegistry routes with them.                 *)
(****************************************************************************)
\* ids: the forms of a thread id the parser takes; strict: params that do not
\* decode are an error; body: the method has a payload that is parsed too.
Reader(ids, strict, body) == [ids |-> ids, strict |-> strict, body |-> body]
On(kinds, reader) == [k \in kinds |-> reader]
FlatOnly == {"flat"}
FlatOrNested == {"flat", "nested"}

\* "turn" is turn/started and turn/failed, "item" the item's start, update and
\* completion, "thread" what parser_thread.go reads, a turn's diff and plan too.
LifecycleReaders ==
    {On({"thread/started", "turn"}, Reader(FlatOrNested, TRUE, FALSE)),
     On({"turn/completed"}, Reader(FlatOnly, TRUE, FALSE)),
     On({"item"}, Reader(FlatOrNested, TRUE, TRUE))}
UsageReaders == {On({"tokenUsage"}, Reader(FlatOnly, TRUE, FALSE))}
ThreadReaders == {On({"thread"}, Reader(FlatOnly, TRUE, FALSE))}
DeltaReaders == {On({"delta"}, Reader(FlatOnly, TRUE, FALSE))}
ReviewReaders == {On({"review"}, Reader(FlatOnly, TRUE, FALSE))}
RealtimeReaders == {On({"realtime"}, Reader(FlatOnly, FALSE, FALSE))}
McpReaders == {On({"mcp"}, Reader(FlatOnly, TRUE, FALSE))}
AccountReaders == {On({"account"}, Reader({}, TRUE, FALSE))}
ModelReaders == {On({"model"}, Reader(FlatOnly, TRUE, FALSE))}
NoticeReaders ==
    {On({"notice"}, Reader({}, TRUE, FALSE)),
     On({"warning", "guardianWarning"}, Reader(FlatOnly, TRUE, FALSE))}
\* Processes, files, apps, Windows; a server's request that was resolved; hooks.
SystemReaders ==
    {On({"system"}, Reader({}, TRUE, FALSE)),
     On({"resolved", "hook"}, Reader(FlatOnly, TRUE, FALSE))}
ErrorReaders == {On({"error"}, Reader(FlatOrNested, TRUE, TRUE))}
RawReaders == {On({"raw"}, Reader({}, FALSE, FALSE))}
UnknownReaders == {On({"unknown"}, Reader(FlatOrNested, FALSE, FALSE))}

Tables == LifecycleReaders \cup UsageReaders \cup ThreadReaders \cup DeltaReaders
          \cup ReviewReaders \cup RealtimeReaders \cup McpReaders
          \cup AccountReaders \cup ModelReaders \cup NoticeReaders
          \cup SystemReaders \cup ErrorReaders \cup RawReaders \cup UnknownReaders
Kinds == UNION {DOMAIN t : t \in Tables}
Readers == [k \in Kinds |-> (CHOOSE t \in Tables : k \in DOMAIN t)[k]]

-----------------------------------------------------------------------------
\* A payload of a "new" type is one that the SDK does not know; "broken" one
\* that does not decode as what its type says.
Line == {l \in [kind : Kinds, form : {"flat", "nested", "missing"},
                decodes : BOOLEAN, body : {"known", "new", "broken", "missing"}] :
            Readers[l.kind].body \/ l.body = "known"}

\* ParseItem and ParseItemDelta take an unknown type; an error may have no
\* payload, an item may not.
BodyFails(line) == line.body = "broken" \/ (line.body = "missing" /\ line.kind = "item")

ParseFails(line) ==
    \/ Readers[line.kind].strict /\ ~line.decodes
    \/ Readers[line.kind].body /\ BodyFails(line)

TellsThread(line) == line.decodes /\ line.form \in Readers[line.kind].ids

\* threadIdentityFromEvent: the kinds that have an extractor, and those of them
\* whose event may be about no thread.
ThreadScoped == {k \in Kinds : Readers[k].ids # {}}
Optional == {"error", "mcp", "unknown", "warning"}

\* handleNotification.  Mutants: the nested form is not read; an event that
\* lacks its thread is taken for a global one.
ReadsFlatOnly(line) ==
    IF ParseFails(line) THEN "gap"
    ELSE IF TellsThread(line) /\ line.form = "flat" THEN "thread"
    ELSE IF line.kind \in ThreadScoped \ Optional THEN "gap" ELSE "nobody"
AnonymousIsGlobal(line) ==
    IF ParseFails(line) THEN "gap"
    ELSE IF TellsThread(line) THEN "thread" ELSE "nobody"
Route(line) ==
    IF ParseFails(line) THEN "gap"
    ELSE IF TellsThread(line) THEN "thread"
    ELSE IF line.kind \in ThreadScoped \ Optional THEN "gap" ELSE "nobody"

-----------------------------------------------------------------------------
(* What the app-server's schema says (internal/events/testdata/schema).  A  *)
(* method the SDK does not know may be of a later schema.                   *)

SchemaForms(kind) ==
    IF kind \notin ThreadScoped THEN {"missing"}
    ELSE IF kind \in {"mcp", "warning"} THEN {"flat", "missing"}
    ELSE IF kind = "thread/started" THEN {"nested"}
    ELSE IF kind = "unknown" THEN {"flat", "nested", "missing"}
    ELSE {"flat"}

Conforms(line) ==
    /\ line.decodes /\ line.form \in SchemaForms(line.kind)
    /\ Readers[line.kind].body => line.body \in {"known", "new"}

\* "thread": in order and about a thread; "scoped": not in order, of a kind
\* that must be about a thread; "free": the others.
Nature(line) ==
    IF Conforms(line) /\ line.form # "missing" THEN "thread"
    ELSE IF line.kind \in ThreadScoped \ {"error", "mcp", "unknown", "warning"}
         THEN "scoped" ELSE "free"

\* All that a line can be to the dispatcher, and was to the app-server.
Readings == {[route |-> Route(l), nature |-> Nature(l)] : l \in Line}
=============================================================================
