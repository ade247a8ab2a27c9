--------------------------- MODULE TerminalInventory ---------------------------
(****************************************************************************)
(* background_terminals.go: a listing that takes several requests, while    *)
(* the terminals it lists start, end and are terminated.                    *)
(*                                                                          *)
(* A terminal is the number of its start.  The app-server (external) that   *)
(* keeps its promise continues a listing after the terminal its cursor      *)
(* names; one that does not may answer anything.                            *)
(****************************************************************************)
EXTENDS Naturals, Sequences, FiniteSets, SequencesExt

CONSTANTS
    MaxTerminals, \* bound: terminals ever started
    PageSize,     \* backgroundTerminalPageSize (100 in the code)
    MaxPages      \* backgroundTerminalMaxPages (100 in the code)

ASSUME InventoryAssumption ==
    MaxTerminals \in Nat /\ PageSize \in Nat \ {0} /\ MaxPages \in Nat \ {0}

Terminals == 1..MaxTerminals
NoCursor == 0        \* absent or empty
NoRow == 0           \* a row without a process or an item

VARIABLES
    honest,    \* the app-server keeps its promise
    started,   \* terminals started so far
    running,   \* those that run
    acked,     \* those a TerminateBackgroundTerminal returned nil for
    listing,   \* the call: idle, asking, done, refused
    cursor,    \* the cursor of its next request
    seen,      \* seenCursors
    pages,     \* requests answered
    rows,      \* terminals collected so far
    throughout,\* terminals that have run since the call began
    sometime,  \* terminals that ran at some time during the call
    ackedFirst \* terminals acknowledged before the call began

serverVars == <<honest, started, running, acked>>
callVars == <<listing, cursor, seen, pages, rows, throughout, sometime,
              ackedFirst>>
inventoryVars == <<serverVars, callVars>>

InventoryInit ==
    /\ honest \in BOOLEAN
    /\ started = 0 /\ running = {} /\ acked = {}
    /\ listing = "idle" /\ cursor = NoCursor /\ seen = {} /\ pages = 0
    /\ rows = <<>> /\ throughout = {} /\ sometime = {} /\ ackedFirst = {}

-----------------------------------------------------------------------------
(* The app-server (external).                                               *)

TerminalStarts ==
    /\ honest \* the answers of another do not depend on its terminals
    /\ started < MaxTerminals
    /\ started' = started + 1
    /\ running' = running \cup {started + 1}
    /\ sometime' = IF listing = "asking" THEN sometime \cup {started + 1}
                   ELSE sometime
    /\ UNCHANGED <<honest, acked, listing, cursor, seen, pages, rows,
                   throughout, ackedFirst>>

TerminalEnds(p) ==
    /\ p \in running
    /\ running' = running \ {p}
    /\ throughout' = throughout \ {p}
    /\ UNCHANGED <<honest, started, acked, listing, cursor, seen, pages,
                   rows, sometime, ackedFirst>>

\* A page: rows in some order, and the cursor to go on with, the last of them.
After(c) == {p \in running : p > c}
Orders(set) == {s \in [1..Cardinality(set) -> set] : ToSet(s) = set}
HonestPages(c) ==
    LET all == After(c)
        upTo(p) == {q \in all : q <= p}
    IN  IF Cardinality(all) <= PageSize
        THEN [rows : Orders(all), next : {NoCursor}]
        ELSE UNION {[rows : Orders(upTo(p)), next : {p}] :
                       p \in {q \in all : Cardinality(upTo(q)) = PageSize}}
AnyPage ==
    [rows : BoundedSeq({NoRow, 1, 2}, PageSize), next : {NoCursor, 1, 2}]
Pages(c) == IF honest THEN HonestPages(c) ELSE AnyPage

-----------------------------------------------------------------------------
(* ListBackgroundTerminals                                                  *)

ListBegins ==
    /\ listing = "idle"
    /\ listing' = "asking"
    /\ throughout' = running /\ sometime' = running /\ ackedFirst' = acked
    /\ UNCHANGED <<serverVars, cursor, seen, pages, rows>>

Refuse ==
    /\ listing' = "refused"
    /\ UNCHANGED <<cursor, seen, rows>>

\* The checks of one row.  Mutant: duplicates are let through.
AnyRow(page) == NoRow \notin ToSet(page)
GoodRows(page) ==
    /\ NoRow \notin ToSet(page)
    /\ IsInjective(rows \o page)

\* A cursor that was used before would make the listing go round.  Mutant: the
\* cursor is not remembered.
NeverSeen(c) == FALSE
CursorSeen(c) == c \in seen

\* The loop ended without a last page.  Mutant: what was collected is returned.
ReturnsRows == "done"
OnTooManyPages == "refused"

\* One request, its answer and the body of the loop.
ListPage ==
    /\ listing = "asking"
    /\ \E page \in Pages(cursor) :
          /\ pages' = pages + 1
          /\ IF ~GoodRows(page.rows)
             THEN Refuse
             ELSE IF page.next # NoCursor /\ CursorSeen(page.next)
             THEN Refuse
             ELSE /\ rows' = rows \o page.rows
                  /\ cursor' = page.next
                  /\ seen' = IF page.next = NoCursor THEN seen
                             ELSE seen \cup {page.next}
                  /\ listing' = IF page.next = NoCursor THEN "done"
                                ELSE IF pages' >= MaxPages THEN OnTooManyPages
                                ELSE "asking"
    /\ UNCHANGED <<serverVars, throughout, sometime, ackedFirst>>

\* sendRaw fails, or the response has no data array.
ListFails ==
    /\ listing = "asking"
    /\ Refuse
    /\ UNCHANGED <<serverVars, pages, throughout, sometime, ackedFirst>>

-----------------------------------------------------------------------------
(* TerminateBackgroundTerminal and CleanBackgroundTerminals: a terminal that *)
(* was told to end does so in its own time.                                 *)

\* The response says whether there was such a terminal; the caller gets nil
\* only if so.  Mutant: it gets nil whatever the response says.
AlwaysNil(terminated) == TRUE
NilFor(terminated) == terminated

Terminate(p) ==
    /\ acked' = IF NilFor(p \in running) THEN acked \cup {p} ELSE acked
    /\ UNCHANGED <<honest, started, running, callVars>>

Clean ==
    /\ acked' = acked \cup running
    /\ UNCHANGED <<honest, started, running, callVars>>

-----------------------------------------------------------------------------
InventoryNext ==
    \/ TerminalStarts
    \/ \E p \in Terminals : TerminalEnds(p) \/ Terminate(p)
    \/ Clean
    \/ ListBegins \/ ListPage \/ ListFails

InventorySpec == InventoryInit /\ [][InventoryNext]_inventoryVars

-----------------------------------------------------------------------------
(* Properties                                                               *)

\* "A complete live inventory" (background_terminals.go:25): with a server
\* whose cursors are positions, what ran throughout the call is listed, and
\* what is listed ran during it; a terminal that was acknowledged before, and
\* is not listed, has ended ("a fresh inventory without the process").
Complete ==
    listing = "done" /\ honest =>
        /\ throughout \subseteq ToSet(rows)
        /\ ToSet(rows) \subseteq sometime
        /\ ackedFirst \ ToSet(rows) \subseteq (1..started) \ throughout

\* "Pagination is bounded and cursor cycles fail closed", whatever the server
\* answers: no terminal twice, no cursor used twice, no request too many.
Bounded ==
    /\ IsInjective(rows)
    /\ pages <= MaxPages
    /\ listing = "asking" => pages = Cardinality(seen)

InventoryIsComplete == Complete /\ Bounded
=============================================================================
