--------------------------- MODULE ThreadRegistryProofs ---------------------------
(****************************************************************************)
(* Proofs about ThreadRegistry, for any ids and any calls that make or      *)
(* archive handles: its type invariant, and that a notification the         *)
(* dispatcher is done with reached the handle that held its thread and the  *)
(* subscribers, or failed their subscriptions.                              *)
(****************************************************************************)
EXTENDS ThreadRegistry, Integers, TLAPS

-----------------------------------------------------------------------------
(* The inductive invariant.                                                 *)

\* How many notifications the dispatcher has taken from the wire.
Taken == sent - Len(wire)

\* The handles an id is given to, now or when something was said about it,
\* are handles a call has returned with that id.
Returned(h, i) == h # None => id[h] = i /\ opc[h] = "returned"
Holders ==
    /\ \A i \in Ids : Returned(threads[i], i) /\ Returned(holder[i], i)
    /\ \A n \in 1 .. sent : owner[n] # None => opc[owner[n]] = "returned"
    /\ \A o \in Opens : opc[o] \in {"answered", "returned"} => id[o] \in Ids

\* Until Close drops the map it is what the calls have left in it, and no
\* handle is closed.
Mirror == ~gone => threads = holder /\ marked = {}

\* The wire is in the order of sending, and each notification on it is about
\* the id whose holder it was sent to.
Ordered ==
    /\ Len(wire) \in 0 .. sent
    /\ \A k \in 1 .. Len(wire) :
          /\ wire[k].n = Taken + k
          /\ Returned(owner[wire[k].n], wire[k].id)

\* What has been published or is at hand was taken, and once.
Once ==
    /\ dest.next = "read" <=> dest = NoDest
    /\ dest # NoDest => dest.n \in 1 .. Taken
    /\ \A n \in stream : n \in 1 .. Taken /\ n # dest.n

\* The handle a notification was sent to is the one it is on its way to, or
\* has it, as long as the handle holds its id and the client is not closed.
Held(h) == holder[id[h]] = h /\ ~gone
OnItsWay(n) ==
    owner[n] # None /\ Held(owner[n]) =>
        /\ dest.n = n /\ dest.next = "deliver" => dest.handle = owner[n]
        /\ dest.n = n /\ dest.next = "publish" => <<owner[n], n>> \in seen
        /\ n \in stream => <<owner[n], n>> \in seen
Reaches == \A n \in 1 .. sent : OnItsWay(n)

\* What was read is with the subscribers, on its way there, or a gap.
Kept(n) ==
    /\ nature[n] = "thread" => n \in stream \/ dest.n = n
    /\ nature[n] = "scoped" => n \in stream \cup gaps \/ dest.n = n
Accounted == \A n \in 1 .. MaxEvents : Kept(n)

RegistryInv == Holders /\ Mirror /\ Ordered /\ Once /\ Reaches /\ Accounted

-----------------------------------------------------------------------------
(* What handleNotification makes of a notification that is in order, and of *)
(* one that lacks the thread it must have.                                  *)

\* A table reads all its kinds alike.
LEMMA OnFacts ==
    ASSUME NEW kinds, NEW reader
    PROVE  /\ DOMAIN On(kinds, reader) = kinds
           /\ \A k \in kinds : On(kinds, reader)[k] = reader
BY DEF On

IdForms == {{}, FlatOnly, FlatOrNested}
ReadsIds(t) == \A k \in DOMAIN t : t[k].ids \in IdForms

NestedToo(t) == \A k \in DOMAIN t : t[k].ids = FlatOrNested

\* The tables that do not read the kinds whose schema has the nested form.
Aside(t) == "unknown" \notin DOMAIN t /\ "thread/started" \notin DOMAIN t

LEMMA PlainTable ==
    ASSUME NEW kinds, NEW ids \in IdForms, NEW strict, NEW body,
           "unknown" \notin kinds, "thread/started" \notin kinds
    PROVE  /\ ReadsIds(On(kinds, Reader(ids, strict, body)))
           /\ Aside(On(kinds, Reader(ids, strict, body)))
<1>1. Reader(ids, strict, body).ids = ids
  BY DEF Reader
<1>2. QED
  BY <1>1, OnFacts DEF ReadsIds, Aside

LEMMA NestedTable ==
    ASSUME NEW kinds, NEW strict, NEW body
    PROVE  NestedToo(On(kinds, Reader(FlatOrNested, strict, body)))
<1>1. Reader(FlatOrNested, strict, body).ids = FlatOrNested
  BY DEF Reader
<1>2. QED
  BY <1>1, OnFacts DEF NestedToo

LEMMA TableFacts ==
    ASSUME NEW t \in Tables
    PROVE  (ReadsIds(t) /\ Aside(t)) \/ NestedToo(t)
<1>1. {} \in IdForms /\ FlatOnly \in IdForms
  BY DEF IdForms
<1>2. CASE t \in LifecycleReaders
  <2>1. CASE t = On({"thread/started", "turn"}, Reader(FlatOrNested, TRUE, FALSE))
    BY <2>1, NestedTable
  <2>2. CASE t = On({"turn/completed"}, Reader(FlatOnly, TRUE, FALSE))
    BY <1>1, <2>2, PlainTable
  <2>3. CASE t = On({"item"}, Reader(FlatOrNested, TRUE, TRUE))
    BY <2>3, NestedTable
  <2>4. QED
    BY <1>2, <2>1, <2>2, <2>3 DEF LifecycleReaders
<1>3. CASE t \in UsageReaders
  BY <1>1, <1>3, PlainTable DEF UsageReaders
<1>4. CASE t \in ThreadReaders
  BY <1>1, <1>4, PlainTable DEF ThreadReaders
<1>5. CASE t \in DeltaReaders
  BY <1>1, <1>5, PlainTable DEF DeltaReaders
<1>6. CASE t \in ReviewReaders
  BY <1>1, <1>6, PlainTable DEF ReviewReaders
<1>7. CASE t \in RealtimeReaders
  BY <1>1, <1>7, PlainTable DEF RealtimeReaders
<1>8. CASE t \in McpReaders
  BY <1>1, <1>8, PlainTable DEF McpReaders
<1>9. CASE t \in AccountReaders
  BY <1>1, <1>9, PlainTable DEF AccountReaders
<1>10. CASE t \in ModelReaders
  BY <1>1, <1>10, PlainTable DEF ModelReaders
<1>11. CASE t \in NoticeReaders
  <2>1. CASE t = On({"notice"}, Reader({}, TRUE, FALSE))
    BY <1>1, <2>1, PlainTable
  <2>2. CASE t = On({"warning", "guardianWarning"}, Reader(FlatOnly, TRUE, FALSE))
    BY <1>1, <2>2, PlainTable
  <2>3. QED
    BY <1>11, <2>1, <2>2 DEF NoticeReaders
<1>12. CASE t \in SystemReaders
  <2>1. CASE t = On({"system"}, Reader({}, TRUE, FALSE))
    BY <1>1, <2>1, PlainTable
  <2>2. CASE t = On({"resolved", "hook"}, Reader(FlatOnly, TRUE, FALSE))
    BY <1>1, <2>2, PlainTable
  <2>3. QED
    BY <1>12, <2>1, <2>2 DEF SystemReaders
<1>13. CASE t \in ErrorReaders
  BY <1>13, NestedTable DEF ErrorReaders
<1>14. CASE t \in RawReaders
  BY <1>1, <1>14, PlainTable DEF RawReaders
<1>15. CASE t \in UnknownReaders
  BY <1>15, NestedTable DEF UnknownReaders
<1>16. QED
  BY <1>2, <1>3, <1>4, <1>5, <1>6, <1>7, <1>8, <1>9, <1>10, <1>11, <1>12, <1>13,
     <1>14, <1>15 DEF Tables

\* Every reader takes the flat form of the id if it takes any; those of a new
\* thread and of an unknown method take the nested form too.
LEMMA ReaderFacts ==
    ASSUME NEW k \in Kinds
    PROVE  /\ Readers[k].ids \in IdForms
           /\ k \in {"unknown", "thread/started"} => Readers[k].ids = FlatOrNested
<1>1. PICK t \in Tables : k \in DOMAIN t
  BY DEF Kinds
<1>2. DEFINE u == CHOOSE s \in Tables : k \in DOMAIN s
<1>3. u \in Tables /\ k \in DOMAIN u
  BY <1>1
<1>4. Readers[k] = u[k]
  BY DEF Readers
<1>5. (ReadsIds(u) /\ Aside(u)) \/ NestedToo(u)
  BY <1>3, TableFacts
<1>6. QED
  BY <1>3, <1>4, <1>5 DEF ReadsIds, Aside, NestedToo, IdForms

\* What is in order and about a thread goes to that thread.
LEMMA ThreadsAreRouted ==
    ASSUME NEW l \in Line, Nature(l) = "thread"
    PROVE  Route(l) = "thread"
<1>1. l.kind \in Kinds
  BY DEF Line
<1>2. Conforms(l) /\ l.form # "missing"
  BY DEF Nature
<1>3. ~BodyFails(l) \/ ~Readers[l.kind].body
  BY <1>2 DEF Conforms, BodyFails
<1>4. ~ParseFails(l)
  BY <1>2, <1>3 DEF ParseFails, Conforms
<1>5. l.kind \in ThreadScoped
  BY <1>2 DEF Conforms, SchemaForms
<1>6. "flat" \in Readers[l.kind].ids
  BY <1>1, <1>5, ReaderFacts DEF ThreadScoped, IdForms, FlatOnly, FlatOrNested
<1>7. l.form \in SchemaForms(l.kind)
  BY <1>2 DEF Conforms
<1>8. l.form \in Readers[l.kind].ids
  <2>1. CASE l.kind \in {"unknown", "thread/started"}
    <3>1. Readers[l.kind].ids = FlatOrNested
      BY <1>1, <2>1, ReaderFacts
    <3>2. l.form \in {"flat", "nested"}
      BY <1>2, <1>5, <1>7, <2>1 DEF SchemaForms
    <3>3. QED
      BY <3>1, <3>2 DEF FlatOrNested
  <2>2. CASE l.kind \notin {"unknown", "thread/started"}
    <3>1. l.form = "flat"
      BY <1>2, <1>5, <1>7, <2>2 DEF SchemaForms
    <3>2. QED
      BY <1>6, <3>1
  <2>3. QED
    BY <2>1, <2>2
<1>9. TellsThread(l)
  BY <1>2, <1>8 DEF TellsThread, Conforms
<1>10. QED
  BY <1>4, <1>9 DEF Route

\* What is routed is routed by its nature.
LEMMA ReadingFacts ==
    ASSUME NEW r \in Readings
    PROVE  /\ r.nature \in {"thread", "scoped", "free"}
           /\ r.nature = "thread" => r.route = "thread"
           /\ r.nature = "scoped" => r.route # "nobody"
<1>1. PICK l \in Line : r = [route |-> Route(l), nature |-> Nature(l)]
  BY DEF Readings
<1>2. r.route = Route(l) /\ r.nature = Nature(l)
  BY <1>1
<1>3. Nature(l) = "thread" => Route(l) = "thread"
  BY ThreadsAreRouted
<1>4. Nature(l) \in {"thread", "scoped", "free"}
  BY DEF Nature
<1>5. Nature(l) = "scoped" => Route(l) # "nobody"
  BY DEF Nature, Route, Optional
<1>6. QED
  BY <1>2, <1>3, <1>4, <1>5

-----------------------------------------------------------------------------
(* Types.                                                                   *)

LEMMA AppendFacts ==
    ASSUME NEW S, NEW n \in Nat, NEW f \in [1 .. n -> S], NEW s \in S
    PROVE  /\ Append(f, s) \in [1 .. n + 1 -> S]
           /\ \A k \in 1 .. n : Append(f, s)[k] = f[k]
           /\ Append(f, s)[n + 1] = s
<1>1. f \in Seq(S) /\ Len(f) = n
  OBVIOUS
<1>2. /\ Append(f, s) \in Seq(S) /\ Len(Append(f, s)) = n + 1
      /\ \A k \in 1 .. n : Append(f, s)[k] = f[k]
      /\ Append(f, s)[n + 1] = s
  BY <1>1
<1>3. \A g \in Seq(S) : g \in [1 .. Len(g) -> S]
  OBVIOUS
<1>4. QED
  BY <1>2, <1>3

\* What the dispatcher's reading of a notification changes, and the three things
\* that may follow from it.
ReadBy(found) ==
    /\ found \in {"thread", "scoped", "free"}
    /\ Reads(found)
    /\ \/ found # "thread" /\ dest' = dest /\ gaps' = gaps \cup {Head(wire).n}
       \/ found = "free" /\ dest' = dest /\ gaps' = gaps
       \/ /\ dest' = [handle |-> threads[Head(wire).id], n |-> Head(wire).n,
                      next |-> "deliver"]
          /\ gaps' = gaps

LEMMA ReadCases ==
    ASSUME Gap \/ FrameGap \/ Unroutable \/ LookUp
    PROVE  \E found : ReadBy(found)
<1>1. CASE Gap
  <2>1. PICK r \in Readings : r.route = "gap" /\ Reads(r.nature)
    BY <1>1 DEF Gap
  <2>2. r.nature \in {"thread", "scoped", "free"} /\ r.nature # "thread"
    BY <2>1, ReadingFacts
  <2>3. dest' = dest /\ gaps' = gaps \cup {Head(wire).n}
    BY <1>1 DEF Gap
  <2>4. QED
    BY <2>1, <2>2, <2>3 DEF ReadBy
<1>2. CASE FrameGap
  BY <1>2 DEF FrameGap, ReadBy
<1>3. CASE Unroutable
  <2>1. PICK r \in Readings : r.route = "nobody" /\ Reads(r.nature)
    BY <1>3 DEF Unroutable
  <2>2. r.nature = "free"
    BY <2>1, ReadingFacts
  <2>3. dest' = dest /\ gaps' = gaps
    BY <1>3 DEF Unroutable
  <2>4. QED
    BY <2>1, <2>2, <2>3 DEF ReadBy
<1>4. CASE LookUp
  <2>1. PICK r \in Readings : r.route = "thread" /\ Reads(r.nature)
    BY <1>4 DEF LookUp
  <2>2. r.nature \in {"thread", "scoped", "free"}
    BY ReadingFacts
  <2>3. /\ dest' = [handle |-> threads[Head(wire).id], n |-> Head(wire).n,
                    next |-> "deliver"]
        /\ gaps' = gaps
    BY <1>4 DEF LookUp
  <2>4. QED
    BY <2>1, <2>2, <2>3 DEF ReadBy
<1>5. QED
  BY <1>1, <1>2, <1>3, <1>4

\* The head of the wire is a notification.
LEMMA HeadFacts ==
    ASSUME TypeOK, NEW found, Reads(found)
    PROVE  /\ Head(wire) = wire[1]
           /\ Head(wire) \in [id : Ids, n : 1 .. MaxEvents]
           /\ wire' \in Seq([id : Ids, n : 1 .. MaxEvents])
           /\ Len(wire) \in Nat \ {0}
           /\ Len(wire') = Len(wire) - 1
           /\ \A k \in 1 .. Len(wire') : wire'[k] = wire[k + 1]
<1>1. wire \in Seq([id : Ids, n : 1 .. MaxEvents]) /\ wire # <<>>
  BY DEF TypeOK, Reads
<1>2. wire' = Tail(wire)
  BY DEF Reads
<1>3. Len(wire) \in Nat /\ Len(wire) # 0
  BY <1>1
<1>4. Head(wire) = wire[1] /\ wire[1] \in [id : Ids, n : 1 .. MaxEvents]
  <2>1. Head(wire) = wire[1]
    BY <1>1
  <2>2. 1 \in 1 .. Len(wire)
    BY <1>3
  <2>3. ASSUME NEW S, wire \in Seq(S)
        PROVE  \A k \in 1 .. Len(wire) : wire[k] \in S
    BY <2>3
  <2>4. QED
    BY <1>1, <2>1, <2>2, <2>3
<1>5. /\ Tail(wire) \in Seq([id : Ids, n : 1 .. MaxEvents])
      /\ Len(Tail(wire)) = Len(wire) - 1
      /\ \A k \in 1 .. Len(wire) - 1 : Tail(wire)[k] = wire[k + 1]
  BY <1>1, <1>3
<1>6. QED
  BY <1>2, <1>3, <1>4, <1>5

LEMMA TypesInit ==
    ASSUME Init
    PROVE  TypeOK
<1>1. <<>> \in Seq([id : Ids, n : 1 .. MaxEvents])
  OBVIOUS
<1>2. <<>> \in [1 .. 0 -> Opens \cup {None}]
  OBVIOUS
<1>3. 0 \in 0 .. MaxEvents
  BY BoundAssumption
<1>4. NoDest \in [handle : Opens \cup {None}, n : 0 .. MaxEvents,
                  next : {"read", "deliver", "publish"}]
  BY <1>3 DEF NoDest
<1>5. /\ wire = <<>> /\ sent = 0 /\ owner = <<>> /\ dest = NoDest /\ seen = {}
      /\ nature \in [1 .. MaxEvents -> {"unread", "thread", "scoped", "free"}]
      /\ stream = {} /\ gaps = {} /\ marked = {} /\ early = {}
      /\ latest = None /\ threads = [i \in Ids |-> None]
      /\ holder = [i \in Ids |-> None]
      /\ closed = FALSE /\ gone = FALSE
      /\ opc = [o \in Opens |-> "idle"] /\ id = [o \in Opens |-> None]
      /\ apc = [a \in Archives |-> "idle"] /\ aid = [a \in Archives |-> None]
  BY DEF Init
<1>6. QED
  BY <1>1, <1>2, <1>3, <1>4, <1>5 DEF TypeOK

LEMMA TypesStep ==
    ASSUME TypeOK, RegistryInv, Holders', [Next]_vars
    PROVE  TypeOK'
<1> USE BoundAssumption
<1>0. (\A i \in Ids : threads[i] # None => id[threads[i]] = i)'
  BY DEF Holders, Returned
<1>d. dest.next # "read" => dest.n \in 1 .. MaxEvents
  <2>1. dest.next # "read" => dest.n \in 1 .. Taken
    BY DEF RegistryInv, Once
  <2>2. sent \in 0 .. MaxEvents /\ Len(wire) \in 0 .. sent
    BY DEF TypeOK, RegistryInv, Ordered
  <2>3. QED
    BY <2>1, <2>2 DEF Taken
<1>1. ASSUME NEW o \in Opens, Open(o)
      PROVE  TypeOK'
  <2>1. /\ opc' \in [Opens -> {"idle", "answered", "returned", "failed"}]
        /\ id' \in [Opens -> Ids \cup {None}]
    <3>1. /\ opc \in [Opens -> {"idle", "answered", "returned", "failed"}]
          /\ id \in [Opens -> Ids \cup {None}]
      BY DEF TypeOK
    <3>2. /\ \/ opc' = [opc EXCEPT ![o] = "failed"]
             \/ opc' = [opc EXCEPT ![o] = "answered"]
          /\ id' = id \/ \E i \in Ids : id' = [id EXCEPT ![o] = i]
      BY <1>1 DEF Open
    <3>3. QED
      BY <3>1, <3>2
  <2>2. QED
    BY <1>0, <1>1, <2>1 DEF TypeOK, Open, registry, traffic, stories
<1>2. ASSUME NEW o \in Opens, OpenFails(o)
      PROVE  TypeOK'
  BY <1>0, <1>2 DEF TypeOK, OpenFails, registry, traffic, stories
<1>3. ASSUME NEW o \in Opens, Register(o)
      PROVE  TypeOK'
  <2>1. threads' \in [Ids -> Opens \cup {None}] /\ latest' \in Ids \cup {None}
    <3>1. /\ threads \in [Ids -> Opens \cup {None}] /\ latest \in Ids \cup {None}
          /\ id[o] \in Ids \cup {None}
      BY DEF TypeOK
    <3>2. CASE gone
      BY <1>3, <3>1, <3>2 DEF Register, registry
    <3>3. CASE ~gone
      BY <1>3, <3>1, <3>3 DEF Register, Registered
    <3>4. QED
      BY <3>2, <3>3
  <2>2. holder' \in [Ids -> Opens \cup {None}]
    BY <1>3 DEF TypeOK, Register
  <2>3. opc' \in [Opens -> {"idle", "answered", "returned", "failed"}]
    BY <1>3 DEF TypeOK, Register
  <2>4. early' \subseteq Opens
    BY <1>3 DEF TypeOK, Register
  <2>5. QED
    BY <1>0, <1>3, <2>1, <2>2, <2>3, <2>4 DEF TypeOK, Register, stories
<1>4. ASSUME NEW a \in Archives, Archive(a)
      PROVE  TypeOK'
  <2>1. /\ apc' \in [Archives -> {"idle", "answered", "done"}]
        /\ aid' \in [Archives -> Ids \cup {None}]
    BY <1>4 DEF TypeOK, Archive
  <2>2. QED
    BY <1>0, <1>4, <2>1 DEF TypeOK, Archive, registry, traffic, stories
<1>5. ASSUME NEW a \in Archives, Unregister(a)
      PROVE  TypeOK'
  BY <1>0, <1>5 DEF TypeOK, Unregister, LatestAfter, stories
<1>6. ASSUME NEW i \in Ids, Emit(i)
      PROVE  TypeOK'
  <2>1. owner' \in [1 .. sent' -> Opens \cup {None}]
    <3>1. /\ sent \in Nat /\ sent' = sent + 1 /\ owner' = Append(owner, holder[i])
          /\ owner \in [1 .. sent -> Opens \cup {None}]
          /\ holder[i] \in Opens \cup {None}
      BY <1>6 DEF TypeOK, Emit
    <3>2. QED
      BY <3>1, AppendFacts
  <2>2. wire' \in Seq([id : Ids, n : 1 .. MaxEvents])
    BY <1>6 DEF TypeOK, Emit
  <2>3. QED
    BY <1>0, <1>6, <2>1, <2>2 DEF TypeOK, Emit, registry, calls, stories
<1>7. CASE Gap \/ FrameGap \/ Unroutable \/ LookUp
  <2>1. PICK found : ReadBy(found)
    BY <1>7, ReadCases
  <2>2. Reads(found) /\ found \in {"thread", "scoped", "free"}
    BY <2>1 DEF ReadBy
  <2>3. /\ Head(wire) \in [id : Ids, n : 1 .. MaxEvents]
        /\ wire' \in Seq([id : Ids, n : 1 .. MaxEvents])
    BY <2>2, HeadFacts
  <2>4. nature' \in [1 .. MaxEvents -> {"unread", "thread", "scoped", "free"}]
    BY <2>2, <2>3 DEF TypeOK, Reads
  <2>5. gaps' \subseteq 1 .. MaxEvents
    <3>1. gaps \subseteq 1 .. MaxEvents /\ Head(wire).n \in 1 .. MaxEvents
      BY <2>3 DEF TypeOK
    <3>2. gaps' = gaps \/ gaps' = gaps \cup {Head(wire).n}
      BY <2>1 DEF ReadBy
    <3>3. QED
      BY <3>1, <3>2
  <2>6. dest' \in [handle : Opens \cup {None}, n : 0 .. MaxEvents,
                   next : {"read", "deliver", "publish"}]
    BY <2>1, <2>3 DEF TypeOK, ReadBy
  <2>7. QED
    BY <1>0, <2>2, <2>3, <2>4, <2>5, <2>6 DEF TypeOK, Reads, registry, calls
<1>8. CASE DeliverTo
  <2>1. dest.n \in 1 .. MaxEvents
    BY <1>8, <1>d DEF DeliverTo
  <2>2. seen' \subseteq Opens \X (1 .. MaxEvents)
    BY <1>8, <2>1 DEF TypeOK, DeliverTo
  <2>3. QED
    BY <1>0, <1>8, <2>2 DEF TypeOK, DeliverTo, registry, calls, stories
<1>9. CASE Publish
  <2>1. dest.n \in 1 .. MaxEvents
    BY <1>9, <1>d DEF Publish
  <2>2. stream' \subseteq 1 .. MaxEvents
    BY <1>9, <2>1 DEF TypeOK, Publish
  <2>3. NoDest \in [handle : Opens \cup {None}, n : 0 .. MaxEvents,
                    next : {"read", "deliver", "publish"}]
    BY DEF NoDest
  <2>4. QED
    BY <1>0, <1>9, <2>2, <2>3 DEF TypeOK, Publish, registry, calls
<1>10. CASE CloseBegins
  BY <1>0, <1>10 DEF TypeOK, CloseBegins, registry, calls, traffic, stories
<1>11. CASE Sweep
  BY <1>0, <1>11 DEF TypeOK, Sweep, MarkedBySweep, calls, traffic, stories
<1>12. CASE UNCHANGED vars
  BY <1>0, <1>12 DEF TypeOK, vars, registry, calls, traffic, stories
<1>13. QED
  BY <1>1, <1>2, <1>3, <1>4, <1>5, <1>6, <1>7, <1>8, <1>9, <1>10, <1>11, <1>12
  DEF Next

-----------------------------------------------------------------------------
(* The registry: who holds an id.                                           *)

LEMMA HoldersStep ==
    ASSUME TypeOK, RegistryInv, [Next]_vars
    PROVE  Holders'
<1> USE NoneAssumption
<1>1. ASSUME UNCHANGED <<threads, opc, id, holder, owner, sent>>
      PROVE  Holders'
  BY <1>1 DEF RegistryInv, Holders, Returned
<1>2. ASSUME NEW o \in Opens, Open(o) \/ OpenFails(o)
      PROVE  Holders'
  <2>1. opc[o] # "returned"
    BY <1>2 DEF Open, OpenFails
  <2>2. /\ threads' = threads /\ holder' = holder /\ owner' = owner /\ sent' = sent
        /\ \A h \in Opens : h # o => id'[h] = id[h] /\ opc'[h] = opc[h]
    BY <1>2 DEF Open, OpenFails, TypeOK, registry, traffic
  <2>3. opc'[o] \in {"answered", "returned"} => id'[o] \in Ids
    BY <1>2 DEF Open, OpenFails, TypeOK
  <2>4. \A h \in Opens : opc[h] = "returned" => opc'[h] = "returned" /\ id'[h] = id[h]
    BY <2>1, <2>2
  <2>5. (\A i \in Ids : Returned(threads[i], i) /\ Returned(holder[i], i))'
    BY <2>2, <2>4 DEF RegistryInv, Holders, Returned, TypeOK
  <2>6. (\A n \in 1 .. sent : owner[n] # None => opc[owner[n]] = "returned")'
    BY <2>2, <2>4 DEF RegistryInv, Holders, TypeOK
  <2>7. (\A p \in Opens : opc[p] \in {"answered", "returned"} => id[p] \in Ids)'
    BY <2>2, <2>3 DEF RegistryInv, Holders
  <2>8. QED
    BY <2>5, <2>6, <2>7 DEF Holders
<1>3. ASSUME NEW o \in Opens, Register(o)
      PROVE  Holders'
  <2>1. /\ id' = id /\ owner' = owner /\ sent' = sent
        /\ opc'[o] = "returned" /\ opc[o] = "answered"
        /\ \A h \in Opens : h # o => opc'[h] = opc[h]
    BY <1>3 DEF Register, TypeOK
  <2>2. \A i \in Ids : \/ holder'[i] = holder[i]
                       \/ holder'[i] = o /\ i = id[o]
    BY <1>3 DEF Register, TypeOK
  <2>3. \A i \in Ids : \/ threads'[i] = threads[i]
                       \/ threads'[i] = o /\ i = id[o]
    BY <1>3 DEF Register, Registered, registry, TypeOK
  <2>4. (\A i \in Ids : Returned(threads[i], i) /\ Returned(holder[i], i))'
    BY <2>1, <2>2, <2>3 DEF RegistryInv, Holders, Returned, TypeOK
  <2>5. (\A n \in 1 .. sent : owner[n] # None => opc[owner[n]] = "returned")'
    BY <2>1 DEF RegistryInv, Holders, TypeOK
  <2>6. (\A p \in Opens : opc[p] \in {"answered", "returned"} => id[p] \in Ids)'
    BY <2>1 DEF RegistryInv, Holders
  <2>7. QED
    BY <2>4, <2>5, <2>6 DEF Holders
<1>4. ASSUME NEW a \in Archives, Unregister(a)
      PROVE  Holders'
  <2>1. UNCHANGED <<id, opc, owner, sent>>
    BY <1>4 DEF Unregister
  <2>2. \A i \in Ids : /\ holder'[i] = holder[i] \/ holder'[i] = None
                       /\ threads'[i] = threads[i] \/ threads'[i] = None
    BY <1>4 DEF Unregister, TypeOK
  <2>3. QED
    BY <2>1, <2>2 DEF RegistryInv, Holders, Returned
<1>5. ASSUME NEW i \in Ids, Emit(i)
      PROVE  Holders'
  <2>1. UNCHANGED <<threads, opc, id, holder>>
    BY <1>5 DEF Emit, registry, calls
  <2>2. /\ sent \in Nat /\ sent' = sent + 1 /\ owner' = Append(owner, holder[i])
        /\ owner \in [1 .. sent -> Opens \cup {None}]
        /\ holder[i] \in Opens \cup {None}
    BY <1>5 DEF TypeOK, Emit
  <2>3. \A n \in 1 .. sent' : \/ n \in 1 .. sent /\ owner'[n] = owner[n]
                              \/ owner'[n] = holder[i]
    BY <2>2, AppendFacts
  <2>4. QED
    BY <2>1, <2>3 DEF RegistryInv, Holders, Returned
<1>6. CASE Gap \/ FrameGap \/ Unroutable \/ LookUp
  <2>1. PICK found : ReadBy(found)
    BY <1>6, ReadCases
  <2>2. QED
    BY <1>1, <2>1 DEF ReadBy, Reads, registry, calls
<1>7. CASE Sweep
  <2>1. /\ UNCHANGED <<opc, id, holder, owner, sent>>
        /\ \A i \in Ids : threads'[i] = None
    BY <1>7 DEF Sweep, calls, traffic
  <2>2. QED
    BY <2>1 DEF RegistryInv, Holders, Returned
<1>8. QED
  BY <1>1, <1>2, <1>3, <1>4, <1>5, <1>6, <1>7
  DEF Next, vars, Archive, DeliverTo, Publish, CloseBegins, registry, calls, traffic

LEMMA MirrorStep ==
    ASSUME TypeOK, RegistryInv, [Next]_vars
    PROVE  Mirror'
<1>1. ASSUME UNCHANGED <<threads, gone, holder, marked>>
      PROVE  Mirror'
  BY <1>1 DEF RegistryInv, Mirror
<1>2. ASSUME NEW o \in Opens, Register(o)
      PROVE  Mirror'
  BY <1>2 DEF RegistryInv, Mirror, Register, Registered
<1>3. ASSUME NEW a \in Archives, Unregister(a)
      PROVE  Mirror'
  BY <1>3 DEF RegistryInv, Mirror, Unregister
<1>4. CASE Sweep
  BY <1>4 DEF Mirror, Sweep
<1>5. CASE Gap \/ FrameGap \/ Unroutable \/ LookUp
  <2>1. PICK found : ReadBy(found)
    BY <1>5, ReadCases
  <2>2. QED
    BY <1>1, <2>1 DEF ReadBy, Reads, registry
<1>6. QED
  BY <1>1, <1>2, <1>3, <1>4, <1>5
  DEF Next, vars, Open, OpenFails, Archive, Emit, DeliverTo, Publish, CloseBegins,
      registry, calls, traffic

-----------------------------------------------------------------------------
(* The wire: what was said, in its order, and what has been read of it.     *)

\* The notification that is read is the next one.
LEMMA NextIsRead ==
    ASSUME TypeOK, RegistryInv, NEW found, Reads(found)
    PROVE  /\ Head(wire).n = Taken + 1
           /\ Head(wire).n \in 1 .. sent
           /\ Taken' = Taken + 1
           /\ Len(wire') \in 0 .. sent
           /\ sent' = sent
           /\ dest = NoDest
           /\ Returned(owner[Head(wire).n], Head(wire).id)
<1>1. /\ Head(wire) = wire[1]
      /\ Len(wire) \in Nat \ {0}
      /\ Len(wire') = Len(wire) - 1
  BY HeadFacts
<1>2. sent \in Nat /\ sent' = sent /\ dest = NoDest /\ Len(wire) \in 0 .. sent
  BY DEF TypeOK, Reads, RegistryInv, Ordered
<1>3. wire[1].n = Taken + 1 /\ Returned(owner[wire[1].n], wire[1].id)
  BY <1>1 DEF RegistryInv, Ordered
<1>4. QED
  BY <1>1, <1>2, <1>3 DEF Taken

LEMMA OrderedStep ==
    ASSUME TypeOK, RegistryInv, [Next]_vars
    PROVE  Ordered'
<1>0. /\ Len(wire) \in 0 .. sent /\ sent \in Nat
      /\ \A k \in 1 .. Len(wire) :
            /\ wire[k].n = Taken + k
            /\ Returned(owner[wire[k].n], wire[k].id)
      /\ \A h \in Opens : opc[h] = "returned" => id[h] \in Ids
  BY DEF TypeOK, RegistryInv, Ordered, Holders
<1>1. ASSUME UNCHANGED <<wire, sent, owner>>,
             \A h \in Opens : opc[h] = "returned" =>
                                 opc'[h] = "returned" /\ id'[h] = id[h]
      PROVE  Ordered'
  <2>1. Len(wire') \in 0 .. sent' /\ Taken' = Taken
    BY <1>0, <1>1 DEF Taken
  <2>2. ASSUME NEW k \in 1 .. Len(wire)
        PROVE  /\ wire[k].n = Taken' + k
               /\ (Returned(owner[wire[k].n], wire[k].id))'
    <3>1. wire[k].n = Taken + k /\ Returned(owner[wire[k].n], wire[k].id)
      BY <1>0
    <3>2. wire[k].n \in 1 .. sent
      BY <1>0, <3>1 DEF Taken
    <3>3. owner[wire[k].n] \in Opens \cup {None}
      BY <3>2 DEF TypeOK
    <3>4. QED
      BY <1>1, <2>1, <3>1, <3>3 DEF Returned
  <2>3. QED
    BY <1>1, <2>1, <2>2 DEF Ordered
<1>2. ASSUME NEW o \in Opens, Open(o) \/ OpenFails(o) \/ Register(o)
      PROVE  Ordered'
  <2>1. opc[o] # "returned" /\ UNCHANGED <<wire, sent, owner>>
    BY <1>2 DEF Open, OpenFails, Register, traffic
  <2>2. \A h \in Opens : h # o => opc'[h] = opc[h] /\ id'[h] = id[h]
    BY <1>2 DEF Open, OpenFails, Register, TypeOK
  <2>3. QED
    BY <1>1, <2>1, <2>2
<1>3. ASSUME NEW i \in Ids, Emit(i)
      PROVE  Ordered'
  <2>1. UNCHANGED <<opc, id>>
    BY <1>3 DEF Emit, calls
  <2>2. /\ sent' = sent + 1 /\ owner' = Append(owner, holder[i])
        /\ owner \in [1 .. sent -> Opens \cup {None}]
        /\ holder[i] \in Opens \cup {None}
        /\ wire' = Append(wire, [id |-> i, n |-> sent + 1])
        /\ wire \in Seq([id : Ids, n : 1 .. MaxEvents])
    BY <1>3 DEF TypeOK, Emit
  <2>3. /\ \A n \in 1 .. sent : owner'[n] = owner[n]
        /\ owner'[sent + 1] = holder[i]
    BY <1>0, <2>2, AppendFacts
  <2>4. /\ Len(wire') = Len(wire) + 1
        /\ \A k \in 1 .. Len(wire) : wire'[k] = wire[k]
        /\ wire'[Len(wire) + 1] = [id |-> i, n |-> sent + 1]
    BY <2>2
  <2>5. Taken' = Taken /\ Len(wire') \in 0 .. sent'
    BY <1>0, <2>2, <2>4 DEF Taken
  <2>6. ASSUME NEW k \in 1 .. Len(wire')
        PROVE  wire'[k].n = Taken' + k /\ (Returned(owner[wire[k].n], wire[k].id))'
    <3>1. CASE k \in 1 .. Len(wire)
      <4>1. wire'[k] = wire[k]
        BY <2>4, <3>1
      <4>2. wire[k].n = Taken + k /\ Returned(owner[wire[k].n], wire[k].id)
        BY <1>0, <3>1
      <4>3. wire[k].n \in 1 .. sent
        BY <1>0, <3>1, <4>2 DEF Taken
      <4>4. owner'[wire[k].n] = owner[wire[k].n]
        BY <2>3, <4>3
      <4>5. QED
        BY <2>1, <2>5, <4>1, <4>2, <4>4 DEF Returned
    <3>2. CASE k = Len(wire) + 1
      <4>1. wire'[k] = [id |-> i, n |-> sent + 1]
        BY <2>4, <3>2
      <4>2. wire'[k].n = sent + 1 /\ wire'[k].id = i
        BY <4>1
      <4>3. sent + 1 = Taken + k
        BY <1>0, <3>2 DEF Taken
      <4>4. Returned(holder[i], i)
        BY DEF RegistryInv, Holders
      <4>5. (Returned(owner[wire[k].n], wire[k].id))'
        BY <2>1, <2>3, <4>2, <4>4 DEF Returned
      <4>6. QED
        BY <2>5, <4>2, <4>3, <4>5
    <3>3. QED
      BY <1>0, <2>4, <3>1, <3>2
  <2>7. QED
    BY <2>5, <2>6 DEF Ordered
<1>4. CASE Gap \/ FrameGap \/ Unroutable \/ LookUp
  <2>1. PICK found : ReadBy(found)
    BY <1>4, ReadCases
  <2>2. Reads(found)
    BY <2>1 DEF ReadBy
  <2>3. Taken' = Taken + 1 /\ Len(wire') \in 0 .. sent'
    BY <2>2, NextIsRead
  <2>4. UNCHANGED <<opc, id, owner>>
    BY <2>2 DEF Reads, calls
  <2>5. /\ Len(wire') = Len(wire) - 1
        /\ \A k \in 1 .. Len(wire') : wire'[k] = wire[k + 1]
    BY <2>2, HeadFacts
  <2>6. ASSUME NEW k \in 1 .. Len(wire')
        PROVE  wire'[k].n = Taken' + k /\ (Returned(owner[wire[k].n], wire[k].id))'
    <3>1. wire'[k] = wire[k + 1] /\ k + 1 \in 1 .. Len(wire)
      BY <1>0, <2>5
    <3>2. /\ wire[k + 1].n = Taken + (k + 1)
          /\ Returned(owner[wire[k + 1].n], wire[k + 1].id)
      BY <1>0, <3>1
    <3>3. Taken + (k + 1) = Taken' + k
      BY <1>0, <2>3 DEF Taken
    <3>4. QED
      BY <2>4, <3>1, <3>2, <3>3 DEF Returned
  <2>7. QED
    BY <2>3, <2>6 DEF Ordered
<1>5. QED
  BY <1>1, <1>2, <1>3, <1>4
  DEF Next, vars, Archive, Unregister, DeliverTo, Publish, CloseBegins, Sweep,
      calls, traffic

-----------------------------------------------------------------------------
(* The dispatcher: what becomes of a notification.                          *)

LEMMA OnceStep ==
    ASSUME TypeOK, RegistryInv, [Next]_vars
    PROVE  Once'
<1>0. /\ dest.next = "read" <=> dest = NoDest
      /\ dest # NoDest => dest.n \in 1 .. Taken
      /\ \A n \in stream : n \in 1 .. Taken /\ n # dest.n
      /\ Len(wire) \in 0 .. sent /\ sent \in Nat
      /\ Taken \in Nat
  <2>1. Len(wire) \in 0 .. sent /\ sent \in Nat
    BY DEF TypeOK, RegistryInv, Ordered
  <2>2. QED
    BY <2>1 DEF RegistryInv, Once, Taken
<1>1. ASSUME UNCHANGED <<dest, stream>>, Taken' = Taken
      PROVE  Once'
  BY <1>0, <1>1 DEF Once
<1>2. ASSUME UNCHANGED <<dest, stream, wire, sent>>
      PROVE  Once'
  BY <1>1, <1>2 DEF Taken
<1>3. ASSUME NEW i \in Ids, Emit(i)
      PROVE  Once'
  <2>1. Len(wire') = Len(wire) + 1 /\ sent' = sent + 1
    BY <1>3 DEF Emit, TypeOK
  <2>2. Taken' = Taken
    BY <1>0, <2>1 DEF Taken
  <2>3. QED
    BY <1>1, <1>3, <2>2 DEF Emit, stories
<1>4. CASE Gap \/ FrameGap \/ Unroutable \/ LookUp
  <2>1. PICK found : ReadBy(found)
    BY <1>4, ReadCases
  <2>2. /\ dest = NoDest /\ Head(wire).n = Taken + 1 /\ Taken' = Taken + 1
        /\ stream' = stream
    BY <2>1, NextIsRead DEF ReadBy, Reads
  <2>3. CASE dest' = dest
    <3>1. \A n \in stream : n \in 1 .. Taken' /\ n # dest'.n
      BY <1>0, <2>2, <2>3
    <3>2. QED
      BY <1>0, <2>2, <2>3, <3>1 DEF Once
  <2>4. CASE dest' = [handle |-> threads[Head(wire).id], n |-> Head(wire).n,
                      next |-> "deliver"]
    <3>1. dest'.n = Taken + 1 /\ dest'.next = "deliver"
      BY <2>2, <2>4
    <3>2. dest' # NoDest
      BY <3>1 DEF NoDest
    <3>3. dest'.n \in 1 .. Taken'
      BY <1>0, <2>2, <3>1
    <3>4. \A n \in stream : n \in 1 .. Taken' /\ n # dest'.n
      BY <1>0, <2>2, <3>1
    <3>5. QED
      BY <2>2, <3>1, <3>2, <3>3, <3>4 DEF Once
  <2>5. QED
    BY <2>1, <2>3, <2>4 DEF ReadBy
<1>5. CASE DeliverTo
  <2>1. /\ dest.next = "deliver" /\ dest' = [dest EXCEPT !.next = "publish"]
        /\ UNCHANGED <<stream, wire, sent>>
    BY <1>5 DEF DeliverTo, stories
  <2>2. dest'.next = "publish" /\ dest'.n = dest.n
    BY <2>1 DEF TypeOK
  <2>3. dest' # NoDest /\ dest # NoDest /\ Taken' = Taken
    BY <2>1, <2>2 DEF NoDest, Taken
  <2>4. QED
    BY <1>0, <2>1, <2>2, <2>3 DEF Once
<1>6. CASE Publish
  <2>1. /\ dest.next = "publish" /\ dest' = NoDest /\ stream' = stream \cup {dest.n}
        /\ UNCHANGED <<wire, sent>>
    BY <1>6 DEF Publish
  <2>2. dest.n \in 1 .. Taken /\ Taken' = Taken
    BY <1>0, <2>1 DEF NoDest, Taken
  <2>3. dest'.n = 0 /\ dest'.next = "read"
    BY <2>1 DEF NoDest
  <2>4. \A n \in stream' : n \in 1 .. Taken' /\ n # dest'.n
    BY <1>0, <2>1, <2>2, <2>3
  <2>5. QED
    BY <2>1, <2>3, <2>4 DEF Once
<1>7. QED
  BY <1>2, <1>3, <1>4, <1>5, <1>6
  DEF Next, vars, Open, OpenFails, Register, Archive, Unregister, CloseBegins, Sweep,
      traffic, stories

LEMMA AccountedStep ==
    ASSUME TypeOK, RegistryInv, [Next]_vars
    PROVE  Accounted'
<1>0. \A n \in 1 .. MaxEvents : Kept(n)
  BY DEF RegistryInv, Accounted
<1>1. ASSUME UNCHANGED <<dest, stories>>
      PROVE  Accounted'
  BY <1>0, <1>1 DEF Accounted, Kept, stories
<1>2. CASE Gap \/ FrameGap \/ Unroutable \/ LookUp
  <2>1. PICK found : ReadBy(found)
    BY <1>2, ReadCases
  <2>2. /\ dest = NoDest /\ stream' = stream
        /\ nature' = [nature EXCEPT ![Head(wire).n] = found]
    BY <2>1 DEF ReadBy, Reads
  <2>3. ASSUME NEW n \in 1 .. MaxEvents
        PROVE  Kept(n)'
    <3>1. CASE n # Head(wire).n
      <4>1. nature'[n] = nature[n] /\ gaps \subseteq gaps'
        BY <2>1, <2>2, <3>1 DEF ReadBy, TypeOK
      <4>2. dest.n # n
        BY <2>2 DEF NoDest
      <4>3. QED
        BY <1>0, <2>2, <4>1, <4>2 DEF Kept
    <3>2. CASE n = Head(wire).n
      <4>1. nature'[n] = found
        BY <2>2, <3>2 DEF TypeOK
      <4>2. \/ found # "thread" /\ n \in gaps'
            \/ found = "free"
            \/ dest'.n = n
        BY <2>1, <3>2 DEF ReadBy
      <4>3. QED
        BY <4>1, <4>2 DEF Kept
    <3>3. QED
      BY <3>1, <3>2
  <2>4. QED
    BY <2>3 DEF Accounted
<1>3. CASE DeliverTo
  <2>1. dest'.n = dest.n /\ UNCHANGED stories
    BY <1>3 DEF DeliverTo, TypeOK
  <2>2. QED
    BY <1>0, <2>1 DEF Accounted, Kept, stories
<1>4. CASE Publish
  <2>1. stream' = stream \cup {dest.n} /\ UNCHANGED <<nature, gaps>>
    BY <1>4 DEF Publish
  <2>2. QED
    BY <1>0, <2>1 DEF Accounted, Kept
<1>5. QED
  BY <1>1, <1>2, <1>3, <1>4
  DEF Next, vars, Open, OpenFails, Register, Archive, Unregister, Emit, CloseBegins,
      Sweep, traffic

\* A handle that holds its id after a step held it before.
LEMMA HeldStays ==
    ASSUME TypeOK, RegistryInv, [Next]_vars,
           NEW h \in Opens, opc[h] = "returned", Held(h)'
    PROVE  Held(h) /\ id'[h] = id[h]
<1>1. id[h] \in Ids
  BY DEF RegistryInv, Holders
<1>2. ASSUME UNCHANGED <<holder, gone, id>>
      PROVE  Held(h) /\ id'[h] = id[h]
  BY <1>2 DEF Held
<1>3. ASSUME NEW o \in Opens, Open(o) \/ OpenFails(o)
      PROVE  Held(h) /\ id'[h] = id[h]
  <2>1. o # h /\ UNCHANGED <<holder, gone>>
    BY <1>3 DEF Open, OpenFails, traffic
  <2>2. id'[h] = id[h]
    BY <1>3, <2>1 DEF Open, OpenFails, TypeOK
  <2>3. QED
    BY <2>1, <2>2 DEF Held
<1>4. ASSUME NEW o \in Opens, Register(o)
      PROVE  Held(h) /\ id'[h] = id[h]
  <2>1. o # h /\ UNCHANGED <<id, gone>>
    BY <1>4 DEF Register
  <2>2. holder'[id[h]] = holder[id[h]] \/ holder'[id[h]] = o
    BY <1>1, <1>4 DEF Register, TypeOK
  <2>3. QED
    BY <2>1, <2>2 DEF Held
<1>5. ASSUME NEW a \in Archives, Unregister(a)
      PROVE  Held(h) /\ id'[h] = id[h]
  <2>1. UNCHANGED <<id, gone>>
    BY <1>5 DEF Unregister
  <2>2. holder'[id[h]] = holder[id[h]] \/ holder'[id[h]] = None
    BY <1>1, <1>5 DEF Unregister, TypeOK
  <2>3. h # None
    BY NoneAssumption
  <2>4. QED
    BY <2>1, <2>2, <2>3 DEF Held
<1>6. CASE Gap \/ FrameGap \/ Unroutable \/ LookUp
  <2>1. PICK found : ReadBy(found)
    BY <1>6, ReadCases
  <2>2. QED
    BY <1>2, <2>1 DEF ReadBy, Reads, calls
<1>7. CASE Sweep
  BY <1>7 DEF Sweep, Held
<1>8. QED
  BY <1>2, <1>3, <1>4, <1>5, <1>6, <1>7
  DEF Next, vars, Archive, Emit, DeliverTo, Publish, CloseBegins, calls, traffic

\* What a step does to the notifications sent before it leaves them on their way.
LEMMA WayStep ==
    ASSUME TypeOK, RegistryInv, [Next]_vars,
           NEW n \in 1 .. sent, NEW h \in Opens, owner[n] = h, Held(h)
    PROVE  /\ dest'.n = n /\ dest'.next = "deliver" => dest'.handle = h
           /\ dest'.n = n /\ dest'.next = "publish" => <<h, n>> \in seen'
           /\ n \in stream' => <<h, n>> \in seen'
<1>0. /\ dest.n = n /\ dest.next = "deliver" => dest.handle = h
      /\ dest.n = n /\ dest.next = "publish" => <<h, n>> \in seen
      /\ n \in stream => <<h, n>> \in seen
  <2>1. OnItsWay(n) /\ owner[n] # None
    BY NoneAssumption DEF RegistryInv, Reaches
  <2>2. QED
    BY <2>1 DEF OnItsWay
<1>1. CASE UNCHANGED <<dest, seen, stream>>
  BY <1>0, <1>1
<1>2. CASE Gap \/ FrameGap \/ Unroutable \/ LookUp
  <2>1. PICK found : ReadBy(found)
    BY <1>2, ReadCases
  <2>2. UNCHANGED <<seen, stream>> /\ dest = NoDest
    BY <2>1 DEF ReadBy, Reads
  <2>3. CASE dest' = dest
    BY <1>1, <2>2, <2>3
  <2>4. CASE dest' = [handle |-> threads[Head(wire).id], n |-> Head(wire).n,
                      next |-> "deliver"]
    <3>1. /\ dest'.handle = threads[Head(wire).id] /\ dest'.n = Head(wire).n
          /\ dest'.next = "deliver"
      BY <2>4
    <3>2. ASSUME n = Head(wire).n
          PROVE  threads[Head(wire).id] = h
      <4>1. Returned(h, Head(wire).id)
        BY <2>1, <3>2, NextIsRead DEF ReadBy
      <4>2. id[h] = Head(wire).id
        BY <4>1, NoneAssumption DEF Returned
      <4>3. holder[id[h]] = h /\ threads = holder
        BY DEF Held, RegistryInv, Mirror
      <4>4. QED
        BY <4>2, <4>3
    <3>3. QED
      BY <1>0, <2>2, <3>1, <3>2
  <2>5. QED
    BY <2>1, <2>3, <2>4 DEF ReadBy
<1>3. CASE DeliverTo
  <2>1. /\ dest'.n = dest.n /\ dest'.next = "publish" /\ dest.next = "deliver"
        /\ stream' = stream /\ seen \subseteq seen'
    BY <1>3 DEF DeliverTo, TypeOK, stories
  <2>2. ASSUME dest.n = n
        PROVE  <<h, n>> \in seen'
    <3>1. dest.handle = h
      BY <1>0, <2>1, <2>2
    <3>2. h # None /\ h \notin marked
      BY NoneAssumption DEF Held, RegistryInv, Mirror
    <3>3. QED
      BY <1>3, <2>2, <3>1, <3>2 DEF DeliverTo
  <2>3. QED
    BY <1>0, <2>1, <2>2
<1>4. CASE Publish
  <2>1. /\ dest.next = "publish" /\ dest'.next = "read"
        /\ stream' = stream \cup {dest.n} /\ seen' = seen
    BY <1>4 DEF Publish, NoDest
  <2>2. QED
    BY <1>0, <2>1
<1>5. QED
  BY <1>1, <1>2, <1>3, <1>4
  DEF Next, vars, Open, OpenFails, Register, Archive, Unregister, Emit, CloseBegins,
      Sweep, traffic, stories

LEMMA ReachesStep ==
    ASSUME TypeOK, RegistryInv, [Next]_vars
    PROVE  Reaches'
<1>1. ASSUME NEW n \in 1 .. sent, sent' \in Nat, owner'[n] = owner[n]
      PROVE  OnItsWay(n)'
  <2>1. PICK h : h = owner[n]
    OBVIOUS
  <2>2. owner'[n] = h
    BY <1>1, <2>1
  <2>3. SUFFICES ASSUME h # None, Held(h)'
                 PROVE  /\ dest'.n = n /\ dest'.next = "deliver" => dest'.handle = h
                        /\ dest'.n = n /\ dest'.next = "publish" => <<h, n>> \in seen'
                        /\ n \in stream' => <<h, n>> \in seen'
    BY <2>2 DEF OnItsWay, Held
  <2>4. h \in Opens /\ opc[h] = "returned"
    BY <2>1, <2>3 DEF TypeOK, RegistryInv, Holders
  <2>5. Held(h)
    BY <2>3, <2>4, HeldStays
  <2>6. QED
    BY <2>1, <2>4, <2>5, WayStep
<1>2. ASSUME NEW i \in Ids, Emit(i)
      PROVE  Reaches'
  <2>1. /\ sent \in Nat /\ sent' = sent + 1 /\ owner' = Append(owner, holder[i])
        /\ owner \in [1 .. sent -> Opens \cup {None}]
        /\ holder[i] \in Opens \cup {None}
        /\ UNCHANGED <<dest, stream>>
    BY <1>2 DEF TypeOK, Emit, stories
  <2>2. \A n \in 1 .. sent : owner'[n] = owner[n]
    BY <2>1, AppendFacts
  <2>3. Len(wire) \in 0 .. sent
    BY DEF RegistryInv, Ordered
  <2>4. dest.n # sent + 1 /\ sent + 1 \notin stream
    <3>1. \A n \in 1 .. Taken : n # sent + 1
      BY <2>1, <2>3 DEF Taken
    <3>2. dest = NoDest \/ dest.n \in 1 .. Taken
      BY DEF RegistryInv, Once
    <3>3. NoDest.n # sent + 1
      BY <2>1 DEF NoDest
    <3>4. \A n \in stream : n \in 1 .. Taken
      BY DEF RegistryInv, Once
    <3>5. QED
      BY <3>1, <3>2, <3>3, <3>4
  <2>5. ASSUME NEW n \in 1 .. sent'
        PROVE  OnItsWay(n)'
    <3>1. CASE n \in 1 .. sent
      BY <1>1, <2>1, <2>2, <3>1
    <3>2. CASE n = sent + 1
      BY <2>1, <2>4, <3>2 DEF OnItsWay
    <3>3. QED
      BY <2>1, <2>5, <3>1, <3>2
  <2>6. QED
    BY <2>5 DEF Reaches
<1>3. ASSUME UNCHANGED <<owner, sent>>
      PROVE  Reaches'
  <2>1. sent' \in Nat
    BY <1>3 DEF TypeOK
  <2>2. QED
    BY <1>1, <1>3, <2>1 DEF Reaches
<1>4. CASE Gap \/ FrameGap \/ Unroutable \/ LookUp
  <2>1. PICK found : ReadBy(found)
    BY <1>4, ReadCases
  <2>2. QED
    BY <1>3, <2>1 DEF ReadBy, Reads
<1>5. QED
  BY <1>2, <1>3, <1>4
  DEF Next, vars, Open, OpenFails, Register, Archive, Unregister, DeliverTo, Publish,
      CloseBegins, Sweep, traffic

-----------------------------------------------------------------------------
(* The theorems.                                                            *)

LEMMA RegistryInit ==
    ASSUME Init
    PROVE  TypeOK /\ RegistryInv
<1>1. TypeOK
  BY TypesInit
<1>2. Holders
  BY DEF Init, Holders, Returned
<1>3. Mirror
  BY DEF Init, Mirror
<1>4. Ordered
  BY DEF Init, Ordered
<1>5. Once
  BY DEF Init, Once, NoDest
<1>6. Reaches
  BY DEF Init, Reaches
<1>7. Accounted
  BY DEF Init, Accounted, Kept
<1>8. QED
  BY <1>1, <1>2, <1>3, <1>4, <1>5, <1>6, <1>7 DEF RegistryInv

LEMMA RegistryInductive == Spec => [](TypeOK /\ RegistryInv)
<1>1. Init => TypeOK /\ RegistryInv
  BY RegistryInit
<1>2. TypeOK /\ RegistryInv /\ [Next]_vars => (TypeOK /\ RegistryInv)'
  <2> SUFFICES ASSUME TypeOK, RegistryInv, [Next]_vars
               PROVE  (TypeOK /\ RegistryInv)'
    OBVIOUS
  <2>1. Holders'
    BY HoldersStep
  <2>2. TypeOK'
    BY <2>1, TypesStep
  <2>3. QED
    BY <2>1, <2>2, MirrorStep, OrderedStep, OnceStep, ReachesStep, AccountedStep
    DEF RegistryInv
<1>3. QED
  BY <1>1, <1>2, PTL DEF Spec

\* Type invariant of the registry: ids are mapped to the handles made with them.
THEOREM RegistryTypes == Spec => []TypeOK
<1>1. TypeOK /\ RegistryInv => TypeOK
  OBVIOUS
<1>2. QED
  BY <1>1, RegistryInductive, PTL

\* A notification that has been published has reached the handle that held its
\* thread when it was sent, unless the handle lost the id or the client closed:
\* the handle the dispatcher looked up under c.mu is still right when it delivers
\* without it.  What was read as its schema has it is published; what lacks its
\* thread is published or a gap.
THEOREM NotificationsAreAlwaysKept == Spec => []NotificationsAreKept
<1>1. ASSUME TypeOK, RegistryInv
      PROVE  EventsReachHandle
  <2>1. DOMAIN owner = 1 .. sent
    BY <1>1 DEF TypeOK
  <2>2. \A n \in 1 .. sent : OnItsWay(n)
    BY <1>1 DEF RegistryInv, Reaches
  <2>3. QED
    BY <2>1, <2>2 DEF EventsReachHandle, OnItsWay, Held
<1>2. ASSUME TypeOK, RegistryInv
      PROVE  NothingVanishes
  BY <1>2 DEF RegistryInv, Accounted, Kept, NothingVanishes, Handled
<1>3. TypeOK /\ RegistryInv => NotificationsAreKept
  BY <1>1, <1>2 DEF NotificationsAreKept
<1>4. QED
  BY <1>3, RegistryInductive, PTL
=============================================================================
