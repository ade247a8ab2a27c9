-------------------------- MODULE FileApprovalProofs --------------------------
(* Proofs about FileApproval: its type invariant, and that the caller is    *)
(* asked about the newest proposal, and about every sound one.              *)
EXTENDS FileApproval, SequenceTheorems, TLAPS

-----------------------------------------------------------------------------
(* The inductive invariant.  What the dispatcher believes of an item is     *)
(* what the app-server held when it wrote the next line: the lines in       *)
(* flight tell, one after the other, how the item came from there to where  *)
(* it is now.                                                               *)

States == Content \cup {"unborn", "over"}

Restates(line, k) == line.kind \in {"started", "updated", "completed"} /\ line.key = k
Ends(line, k) == line.kind \in TurnEnds /\ TurnOf(k) = line.turn

\* A line that takes item k from state v to state w.
Fits(line, k, v, w) ==
    /\ line.kind = "started" /\ line.key = k => v = "unborn" /\ w = line.content
    /\ line.kind = "updated" /\ line.key = k => v \in Content /\ w = line.content
    /\ line.kind = "completed" /\ line.key = k => w = "over"
    /\ Ends(line, k) => w = "over"
    /\ ~Restates(line, k) /\ ~Ends(line, k) => w = v
    /\ line.kind = "request" /\ line.key = k => line.asked = v

\* h: the states of item k before, between and after the lines in flight.
Story(k, h) ==
    /\ h \in [0..Len(wire) -> States]
    /\ h[Len(wire)] = proposal[k]
    /\ \A i \in 1..Len(wire) : Fits(wire[i], k, h[i - 1], h[i])

\* What the cache and lost say of an item in state v.
Agrees(k, v) ==
    /\ cache[k] = "absent" => k \in lost \/ v \in {"unborn", "over"}
    /\ cache[k] # "absent" => cache[k] = v \/ (v = "over" /\ k \in lost)

Followed == \A k \in Key : \E h : Story(k, h) /\ Agrees(k, h[0])

IndInv == TypeOK /\ Followed /\ NothingStaleIsAsked /\ SoundIsAsked

-----------------------------------------------------------------------------
(* Lines and requests.                                                      *)

\* The fields that a line of each kind has.
LEMMA LineFields ==
  ASSUME NEW line \in Line
  PROVE  /\ line.kind \in {"started", "updated", "completed", "turnCompleted",
                           "turnFailed", "request", "other"}
         /\ line.kind \in {"started", "updated"} =>
               line.key \in Key /\ line.content \in Content
         /\ line.kind = "completed" => line.key \in Key
         /\ line.kind \in TurnEnds => line.turn \in Turns
         /\ line.kind = "request" => line.key \in Key /\ line.asked \in States
BY DEF Line, TurnEnds, States

\* The line that is read next, and what stays in flight.
LEMMA NextLine ==
  ASSUME TypeOK, ReadsLine
  PROVE  /\ Head(wire) \in Line /\ Head(wire) = wire[1]
         /\ wire' \in Seq(Line) /\ Len(wire') = Len(wire) - 1
         /\ Len(wire) >= 1
         /\ \A i \in 1..(Len(wire) - 1) : wire'[i] = wire[i + 1]
<1>1. wire \in Seq(Line) /\ wire # <<>>  BY DEF TypeOK, ReadsLine
<1>2. wire' = Tail(wire)  BY DEF ReadsLine
<1>3. QED  BY <1>1, <1>2

-----------------------------------------------------------------------------
(* The two ways the lines in flight change.                                 *)

LEMMA AppendStory ==
  ASSUME TypeOK, NEW line \in Line, NEW k \in Key, NEW w \in States,
         wire' = Append(wire, line), proposal'[k] = w,
         NEW h, Story(k, h), Fits(line, k, proposal[k], w)
  PROVE  \E g : Story(k, g)' /\ g[0] = h[0]
<1>0. PICK n \in Nat : n = Len(wire)  BY DEF TypeOK
<1> DEFINE g == [i \in 0..(n + 1) |-> IF i = n + 1 THEN w ELSE h[i]]
<1>1. n = Len(wire) /\ wire \in Seq(Line)  BY <1>0 DEF TypeOK
<1>2. Len(wire') = n + 1 /\ wire'[n + 1] = line
      /\ \A i \in 1..n : wire'[i] = wire[i]
  BY <1>1
<1>3. g \in [0..Len(wire') -> States]
  BY <1>1, <1>2 DEF Story
<1>4. g[Len(wire')] = proposal'[k]  BY <1>1, <1>2
<1>5. ASSUME NEW i \in 1..Len(wire')
      PROVE  Fits(wire'[i], k, g[i - 1], g[i])
  <2>1. CASE i = n + 1
    <3>1. g[i] = w /\ g[i - 1] = h[n]  BY <2>1, <1>1
    <3>2. h[n] = proposal[k]  BY <1>0 DEF Story
    <3>3. QED  BY <2>1, <3>1, <3>2, <1>2
  <2>2. CASE i \in 1..n
    <3>1. g[i] = h[i] /\ g[i - 1] = h[i - 1]  BY <2>2, <1>1
    <3>2. QED  BY <2>2, <3>1, <1>2 DEF Story
  <2>3. QED  BY <2>1, <2>2, <1>1, <1>2
<1>6. g[0] = h[0]  BY <1>1
<1>7. QED  BY <1>3, <1>4, <1>5, <1>6 DEF Story

LEMMA TailStory ==
  ASSUME TypeOK, ReadsLine, NEW k \in Key, NEW h, Story(k, h)
  PROVE  \E g : /\ Story(k, g)' /\ g[0] = h[1]
                /\ h[0] \in States /\ h[1] \in States
                /\ Fits(Head(wire), k, h[0], h[1])
<1>0. PICK n \in Nat : n = Len(wire)  BY DEF TypeOK
<1> DEFINE g == [i \in 0..(n - 1) |-> h[i + 1]]
<1>1. /\ n = Len(wire) /\ n >= 1 /\ Len(wire') = n - 1 /\ Head(wire) = wire[1]
      /\ \A i \in 1..(n - 1) : wire'[i] = wire[i + 1]
  BY <1>0, NextLine
<1>2. h \in [0..n -> States]  BY <1>0 DEF Story
<1>3. g \in [0..Len(wire') -> States]  BY <1>1, <1>2
<1>4. g[Len(wire')] = proposal'[k]
  <2>1. g[n - 1] = h[n]  BY <1>1
  <2>2. proposal' = proposal  BY DEF ReadsLine, server
  <2>3. QED  BY <1>1, <2>1, <2>2 DEF Story
<1>5. ASSUME NEW i \in 1..Len(wire')
      PROVE  Fits(wire'[i], k, g[i - 1], g[i])
  <2>1. g[i - 1] = h[i] /\ g[i] = h[i + 1] /\ i + 1 \in 1..n  BY <1>1
  <2>2. Fits(wire[i + 1], k, h[(i + 1) - 1], h[i + 1])  BY <1>0, <2>1 DEF Story
  <2>3. QED  BY <1>1, <2>1, <2>2
<1>6. Fits(Head(wire), k, h[0], h[1])
  <2>1. 1 \in 1..n  BY <1>1
  <2>2. Fits(wire[1], k, h[1 - 1], h[1])  BY <1>0, <2>1 DEF Story
  <2>3. QED  BY <2>2, <1>1
<1>7. g[0] = h[1] /\ h[0] \in States /\ h[1] \in States  BY <1>1, <1>2
<1>8. Story(k, g)'  BY <1>3, <1>4, <1>5 DEF Story
<1>9. QED  BY <1>6, <1>7, <1>8

\* Reading a line keeps the stories when what it does to cache and lost agrees
\* with what the line says.
LEMMA ReadKeepsFollowed ==
  ASSUME TypeOK, Followed, ReadsLine,
         \A k \in Key : \A v, w \in States :
            Agrees(k, v) /\ Fits(Head(wire), k, v, w) => Agrees(k, w)'
  PROVE  Followed'
<1> SUFFICES ASSUME NEW k \in Key
             PROVE  \E g : Story(k, g)' /\ Agrees(k, g[0])'
  BY DEF Followed
<1>1. PICK h : Story(k, h) /\ Agrees(k, h[0])  BY DEF Followed
<1>2. PICK g : /\ Story(k, g)' /\ g[0] = h[1]
               /\ h[0] \in States /\ h[1] \in States
               /\ Fits(Head(wire), k, h[0], h[1])
  BY <1>1, TailStory
<1>3. Agrees(k, h[1])'  BY <1>1, <1>2
<1>4. QED  BY <1>2, <1>3

-----------------------------------------------------------------------------
(* The steps of the app-server.                                             *)

\* A line is written: it takes every item from what it was to what it is.
LEMMA SaysKeepsFollowed ==
  ASSUME TypeOK, Followed, NEW line \in Line, Says(line),
         proposal' \in [Key -> States],
         \A k \in Key : Fits(line, k, proposal[k], proposal'[k])
  PROVE  Followed'
<1> SUFFICES ASSUME NEW k \in Key
             PROVE  \E g : Story(k, g)' /\ Agrees(k, g[0])'
  BY DEF Followed
<1>1. PICK h : Story(k, h) /\ Agrees(k, h[0])  BY DEF Followed
<1>2. PICK w \in States : w = proposal'[k]  OBVIOUS
<1>3. Fits(line, k, proposal[k], w)  BY <1>2
<1>4. wire' = Append(wire, line)  BY DEF Says
<1>5. PICK g : Story(k, g)' /\ g[0] = h[0]
  BY <1>1, <1>2, <1>3, <1>4, AppendStory
<1>6. Agrees(k, h[0])'  BY <1>1 DEF Says, Agrees
<1>7. QED  BY <1>5, <1>6

\* Writing a line keeps the types.
LEMMA SaysKeepsTypes ==
  ASSUME TypeOK, NEW line \in Line, Says(line), proposal' \in [Key -> States]
  PROVE  TypeOK'
<1>1. wire' \in Seq(Line) /\ Len(wire') = Len(wire) + 1
  BY DEF TypeOK, Says
<1>2. Len(wire') <= MaxWire  BY <1>1, BoundAssumption DEF TypeOK, Says
<1>3. QED  BY <1>1, <1>2 DEF TypeOK, Says, States

ServerStep ==
    \/ \E k \in Key : StartItem(k) \/ UpdatePatch(k) \/ CompleteItem(k) \/ Ask(k)
    \/ \E t \in Turns : EndTurn(t)
    \/ AskOther

\* Every line of the app-server fits with what it does to its items.
LEMMA ServerLine ==
  ASSUME TypeOK, ServerStep
  PROVE  \E line \in Line : /\ Says(line)
                            /\ proposal' \in [Key -> States]
                            /\ \A k \in Key : Fits(line, k, proposal[k], proposal'[k])
<1> USE DEF Fits, Restates, Ends, TurnEnds
<1>0. proposal \in [Key -> States]  BY DEF TypeOK, States
<1>1. ASSUME NEW k \in Key, StartItem(k)
      PROVE  \E line \in Line : /\ Says(line)
                                /\ proposal' \in [Key -> States]
                                /\ \A j \in Key : Fits(line, j, proposal[j], proposal'[j])
  <2>1. PICK c \in Startable :
          /\ proposal' = [proposal EXCEPT ![k] = c]
          /\ Says([kind |-> "started", key |-> k, content |-> c])
    BY <1>1 DEF StartItem
  <2>2. [kind |-> "started", key |-> k, content |-> c] \in Line
    BY DEF Line, Content
  <2>3. proposal' \in [Key -> States]  BY <1>0, <2>1 DEF States, Content
  <2>4. QED  BY <1>0, <1>1, <2>1, <2>2, <2>3 DEF StartItem
<1>2. ASSUME NEW k \in Key, UpdatePatch(k)
      PROVE  \E line \in Line : /\ Says(line)
                                /\ proposal' \in [Key -> States]
                                /\ \A j \in Key : Fits(line, j, proposal[j], proposal'[j])
  <2>1. PICK c \in Content :
          /\ proposal' = [proposal EXCEPT ![k] = c]
          /\ Says([kind |-> "updated", key |-> k, content |-> c])
    BY <1>2 DEF UpdatePatch
  <2>2. [kind |-> "updated", key |-> k, content |-> c] \in Line  BY DEF Line
  <2>3. proposal' \in [Key -> States]  BY <1>0, <2>1 DEF States
  <2>4. proposal[k] \in Content  BY <1>2 DEF UpdatePatch, Live
  <2>5. QED  BY <1>0, <2>1, <2>2, <2>3, <2>4
<1>3. ASSUME NEW k \in Key, CompleteItem(k)
      PROVE  \E line \in Line : /\ Says(line)
                                /\ proposal' \in [Key -> States]
                                /\ \A j \in Key : Fits(line, j, proposal[j], proposal'[j])
  <2>1. [kind |-> "completed", key |-> k] \in Line  BY DEF Line
  <2>2. proposal' \in [Key -> States]  BY <1>0, <1>3 DEF CompleteItem, States
  <2>3. QED  BY <1>0, <1>3, <2>1, <2>2 DEF CompleteItem
<1>4. ASSUME NEW k \in Key, Ask(k)
      PROVE  \E line \in Line : /\ Says(line)
                                /\ proposal' \in [Key -> States]
                                /\ \A j \in Key : Fits(line, j, proposal[j], proposal'[j])
  <2>1. [kind |-> "request", key |-> k, asked |-> proposal[k]] \in Line
    BY <1>0 DEF Line, States
  <2>2. QED  BY <1>0, <1>4, <2>1 DEF Ask
<1>5. ASSUME NEW t \in Turns, EndTurn(t)
      PROVE  \E line \in Line : /\ Says(line)
                                /\ proposal' \in [Key -> States]
                                /\ \A j \in Key : Fits(line, j, proposal[j], proposal'[j])
  <2>1. PICK kind \in {"turnCompleted", "turnFailed"} :
          Says([kind |-> kind, turn |-> t])
    BY <1>5 DEF EndTurn
  <2>2. [kind |-> kind, turn |-> t] \in Line  BY DEF Line
  <2>3. proposal' = [j \in Key |-> IF TurnOf(j) = t THEN "over" ELSE proposal[j]]
    BY <1>5 DEF EndTurn
  <2>4. proposal' \in [Key -> States]  BY <1>0, <2>3 DEF States
  <2>5. QED  BY <1>0, <2>1, <2>2, <2>3, <2>4
<1>6. CASE AskOther
  <2>1. [kind |-> "other"] \in Line  BY DEF Line
  <2>2. QED  BY <1>0, <1>6, <2>1 DEF AskOther
<1>7. QED  BY <1>1, <1>2, <1>3, <1>4, <1>5, <1>6 DEF ServerStep

-----------------------------------------------------------------------------
(* The notifications, read by the dispatcher.                               *)

Notification ==
    \/ Damaged \/ Anonymous \/ ItemStarted \/ FileChangePatchUpdated
    \/ PatchOfUnknownItem \/ ItemCompleted \/ TurnTerminus \/ NotRemembered

\* Each reads a line, leaves no request behind and keeps the types.
LEMMA NotificationTypes ==
  ASSUME TypeOK, Notification
  PROVE  ReadsLine /\ last' = NoRequest /\ TypeOK'
<1>1. ReadsLine /\ last' = NoRequest /\ phase' = phase
  BY DEF Notification, Damaged, Anonymous, ItemStarted, FileChangePatchUpdated,
         PatchOfUnknownItem, ItemCompleted, TurnTerminus, NotRemembered, Notified
<1>2. phase = "reading"  BY <1>1 DEF ReadsLine
<1>3. wire' \in Seq(Line) /\ Len(wire') <= MaxWire
  BY <1>1, NextLine, BoundAssumption DEF TypeOK
<1>4. cache' \in [Key -> Content \cup {"absent"}]
  <2>1. CASE Damaged \/ Anonymous \/ PatchOfUnknownItem
    BY <2>1 DEF Damaged, Anonymous, PatchOfUnknownItem, ForgetAll, Without
  <2>2. CASE ItemStarted \/ FileChangePatchUpdated
    <3>1. Head(wire).content \in Content
      BY <2>2, <1>1, NextLine, LineFields DEF ItemStarted, FileChangePatchUpdated, Notified
    <3>2. QED
      BY <2>2, <3>1 DEF ItemStarted, FileChangePatchUpdated, Put, Patched, TypeOK
  <2>3. CASE ItemCompleted \/ TurnTerminus
    BY <2>3 DEF ItemCompleted, TurnTerminus, Without, TypeOK
  <2>4. CASE NotRemembered  BY <2>4 DEF NotRemembered, TypeOK
  <2>5. QED  BY <2>1, <2>2, <2>3, <2>4 DEF Notification
<1>5. lost' \subseteq Key
  <2>1. CASE Damaged \/ Anonymous \/ PatchOfUnknownItem
    BY <2>1 DEF Damaged, Anonymous, PatchOfUnknownItem
  <2>2. CASE ItemStarted \/ FileChangePatchUpdated \/ ItemCompleted \/ TurnTerminus
    BY <2>2 DEF ItemStarted, FileChangePatchUpdated, ItemCompleted, TurnTerminus, TypeOK
  <2>3. CASE NotRemembered
    <3>1. Head(wire).kind \notin TurnEnds => Head(wire).key \in Key
      BY <2>3, <1>1, NextLine, LineFields DEF NotRemembered, Notified
    <3>2. QED  BY <2>3, <3>1 DEF NotRemembered, EndedBy, TypeOK
  <2>4. QED  BY <2>1, <2>2, <2>3 DEF Notification
<1>6. QED  BY <1>1, <1>2, <1>3, <1>4, <1>5 DEF TypeOK, ReadsLine, server

\* What each does to cache and lost agrees with what its line says.
LEMMA NotificationAgrees ==
  ASSUME TypeOK, Notification, NEW k \in Key, NEW v \in States, NEW w \in States,
         Agrees(k, v), Fits(Head(wire), k, v, w)
  PROVE  Agrees(k, w)'
<1> DEFINE line == Head(wire)
<1>1. line \in Line  BY NotificationTypes, NextLine
<1>2. cache[k] \in Content \cup {"absent"} /\ lost \subseteq Key  BY DEF TypeOK
<1>3. "unborn" \notin Content /\ "over" \notin Content /\ "absent" \notin Content
  BY ProposalsAssumption DEF Content, Startable
<1>4. CASE Damaged \/ Anonymous \/ PatchOfUnknownItem
  BY <1>4 DEF Damaged, Anonymous, PatchOfUnknownItem, ForgetAll, Without, Agrees
<1>5. CASE ItemStarted
  <2>1. /\ line.kind = "started" /\ line.key \in Key /\ line.content \in Content
        /\ cache' = [cache EXCEPT ![line.key] = line.content]
        /\ lost' = lost \ {line.key}
    BY <1>1, <1>5, LineFields DEF ItemStarted, Notified, Put
  <2>2. CASE line.key = k
    <3>1. cache'[k] = w  BY <2>1, <2>2 DEF Fits, TypeOK
    <3>2. w # "absent"  BY <2>1, <2>2, <1>3 DEF Fits
    <3>3. QED  BY <3>1, <3>2 DEF Agrees
  <2>3. CASE line.key # k
    <3>1. cache'[k] = cache[k] /\ (k \in lost' <=> k \in lost)
      BY <2>1, <2>3 DEF TypeOK
    <3>2. w = v  BY <2>1, <2>3 DEF Fits, Restates, Ends, TurnEnds
    <3>3. QED  BY <3>1, <3>2 DEF Agrees
  <2>4. QED  BY <2>2, <2>3
<1>6. CASE FileChangePatchUpdated
  <2>1. /\ line.kind = "updated" /\ line.key \in Key /\ line.content \in Content
        /\ cache' = IF cache[line.key] = "absent" THEN cache
                    ELSE [cache EXCEPT ![line.key] = line.content]
        /\ lost' = lost
    BY <1>1, <1>6, LineFields DEF FileChangePatchUpdated, Notified, Put, Patched
  <2>2. CASE line.key = k
    <3>1. v \in Content /\ w = line.content  BY <2>1, <2>2 DEF Fits
    <3>2. CASE cache[k] = "absent"
      <4>1. k \in lost  BY <3>1, <3>2, <1>3 DEF Agrees
      <4>2. QED  BY <2>1, <2>2, <3>2, <4>1 DEF Agrees
    <3>3. CASE cache[k] # "absent"
      <4>1. cache'[k] = w  BY <2>1, <2>2, <3>1, <3>3 DEF TypeOK
      <4>2. QED  BY <2>1, <3>1, <4>1, <1>3 DEF Agrees
    <3>4. QED  BY <3>2, <3>3
  <2>3. CASE line.key # k
    <3>1. cache'[k] = cache[k]  BY <2>1, <2>3 DEF TypeOK
    <3>2. w = v  BY <2>1, <2>3 DEF Fits, Restates, Ends, TurnEnds
    <3>3. QED  BY <2>1, <3>1, <3>2 DEF Agrees
  <2>4. QED  BY <2>2, <2>3
<1>7. CASE ItemCompleted
  <2>1. /\ line.kind = "completed" /\ line.key \in Key /\ lost' = lost
        /\ cache'[k] = IF k = line.key THEN "absent" ELSE cache[k]
    BY <1>1, <1>7, LineFields DEF ItemCompleted, Notified, Without
  <2>2. CASE line.key = k  BY <2>1, <2>2 DEF Fits, Agrees
  <2>3. CASE line.key # k
    <3>1. w = v  BY <2>1, <2>3 DEF Fits, Restates, Ends, TurnEnds
    <3>2. QED  BY <2>1, <2>3, <3>1 DEF Agrees
  <2>4. QED  BY <2>2, <2>3
<1>8. CASE TurnTerminus
  <2>1. /\ line.kind \in TurnEnds /\ lost' = lost
        /\ cache'[k] = IF TurnOf(k) = line.turn THEN "absent" ELSE cache[k]
    BY <1>8 DEF TurnTerminus, Notified, Without, EndedBy
  <2>2. CASE TurnOf(k) = line.turn  BY <2>1, <2>2 DEF Fits, Ends, Agrees
  <2>3. CASE TurnOf(k) # line.turn
    <3>1. w = v  BY <2>1, <2>3 DEF Fits, Restates, Ends, TurnEnds
    <3>2. QED  BY <2>1, <2>3, <3>1 DEF Agrees
  <2>4. QED  BY <2>2, <2>3
<1>9. CASE NotRemembered
  <2>1. /\ line.kind \in {"started", "completed"} \cup TurnEnds /\ cache' = cache
        /\ lost' = lost \cup (IF line.kind \in TurnEnds
                              THEN EndedBy(line.turn) ELSE {line.key})
    BY <1>9 DEF NotRemembered, Notified
  <2>2. CASE line.kind = "started" /\ line.key = k
    <3>1. v = "unborn" /\ w = line.content  BY <2>2 DEF Fits
    <3>2. cache[k] = "absent"  BY <3>1, <1>2, <1>3 DEF Agrees
    <3>3. k \in lost'  BY <2>1, <2>2 DEF TurnEnds
    <3>4. QED  BY <2>1, <3>2, <3>3 DEF Agrees
  <2>3. CASE line.kind = "completed" /\ line.key = k
    <3>1. w = "over" /\ k \in lost'  BY <2>1, <2>3 DEF Fits, TurnEnds
    <3>2. QED  BY <2>1, <3>1 DEF Agrees
  <2>4. CASE Ends(line, k)
    <3>1. w = "over" /\ k \in lost'  BY <2>1, <2>4 DEF Fits, Ends, EndedBy
    <3>2. QED  BY <2>1, <3>1 DEF Agrees
  <2>5. CASE ~Restates(line, k) /\ ~Ends(line, k)
    <3>1. w = v  BY <2>5 DEF Fits
    <3>2. lost \subseteq lost'  BY <2>1
    <3>3. QED  BY <2>1, <3>1, <3>2 DEF Agrees
  <2>6. QED  BY <2>1, <2>2, <2>3, <2>4, <2>5 DEF Restates, TurnEnds
<1>10. QED  BY <1>4, <1>5, <1>6, <1>7, <1>8, <1>9 DEF Notification

-----------------------------------------------------------------------------
(* The requests.                                                            *)

Request == FileRequest \/ OtherRequest \/ UnparsedRequest

\* What a request for approval is told agrees with the cache.
LEMMA ResolveAgrees ==
  ASSUME TypeOK, NEW k \in Key, NEW full \in BOOLEAN, NEW root \in Roots,
         NEW inline \in Startable, NEW v \in States, Agrees(k, v)
  PROVE  LET r == Resolve(k, full, root, inline) IN
         /\ r.from \in {"refused", "cache", "inline", "root"}
         /\ r.shown \in Startable
         /\ r = Refused <=> r.from = "refused"
         /\ r.from = "cache" => r.shown = v \/ (v = "over" /\ k \in lost)
         /\ r.from = "inline" => v \in {"unborn", "over"} \/ k \in lost \/ ~full
         /\ r.from = "root" => v \in {"unborn", "over", "empty"} \/ k \in lost
         /\ r.from = "refused" => v \notin Proposals \/ k \in lost \/ ~full \/ root = "blank"
<1> DEFINE entry == IF full THEN cache[k] ELSE "absent"
           changes == IF entry = "absent" THEN inline ELSE entry
           r == Resolve(k, full, root, inline)
<1>1. cache[k] \in Content \cup {"absent"} /\ entry \in Content \cup {"absent"}
  BY DEF TypeOK
<1>2. "unborn" \notin Content /\ "over" \notin Content /\ "absent" \notin Content
  BY ProposalsAssumption DEF Content, Startable
<1>3. "empty" \notin Proposals /\ "odd" \notin Proposals /\ "garbled" \notin Proposals
  BY ProposalsAssumption
<1>4. full /\ entry # "absent" => entry = v \/ (v = "over" /\ k \in lost)
  BY DEF Agrees
<1>5. full /\ entry = "absent" => k \in lost \/ v \in {"unborn", "over"}
  BY <1>2 DEF Agrees
<1>6. CASE \/ entry = "garbled" \/ root = "blank"
           \/ root = "given" /\ ~full
           \/ root = "none" /\ changes = "empty"
           \/ changes = "odd"
  <2>1. r = Refused  BY <1>6 DEF Resolve
  <2>2. v \notin Proposals \/ k \in lost \/ ~full \/ root = "blank"
    BY <1>3, <1>4, <1>5, <1>6, ProposalsAssumption DEF Roots
  <2>3. QED  BY <2>1, <2>2 DEF Refused, Startable
<1>7. CASE ~(\/ entry = "garbled" \/ root = "blank"
             \/ root = "given" /\ ~full
             \/ root = "none" /\ changes = "empty"
             \/ changes = "odd")
  <2>1. changes \in Startable  BY <1>1, <1>7 DEF Content
  <2>2. CASE changes = "empty"
    <3>1. r.from = "root" /\ r.shown = "empty"  BY <1>7, <2>2 DEF Resolve
    <3>2. full  BY <1>7, <2>2 DEF Roots
    <3>3. v \in {"unborn", "over", "empty"} \/ k \in lost
      BY <1>4, <1>5, <2>2, <3>2
    <3>4. QED  BY <3>1, <3>3 DEF Refused, Startable
  <2>3. CASE changes # "empty" /\ entry = "absent"
    <3>1. r.from = "inline" /\ r.shown = inline  BY <1>7, <2>3 DEF Resolve
    <3>2. QED  BY <3>1, <1>5, <2>3 DEF Refused
  <2>4. CASE changes # "empty" /\ entry # "absent"
    <3>1. full /\ r.from = "cache" /\ r.shown = entry  BY <1>7, <2>4 DEF Resolve
    <3>2. entry \in Startable  BY <2>1, <2>4
    <3>3. r.shown = v \/ (v = "over" /\ k \in lost)  BY <3>1, <1>4, <2>4
    <3> HIDE DEF entry, r
    <3>4. r # Refused  BY <3>1 DEF Refused
    <3>5. QED  BY <3>1, <3>2, <3>3, <3>4 DEF r
  <2>5. QED  BY <2>2, <2>3, <2>4
<1>8. QED  BY <1>6, <1>7

\* A request changes nothing of what the dispatcher believes.
LEMMA RequestKeepsFollowed ==
  ASSUME TypeOK, Followed, Request
  PROVE  ReadsLine /\ Followed'
<1>1. /\ ReadsLine /\ cache' = cache /\ lost' = lost
      /\ Head(wire).kind \in {"request", "other"}
  BY DEF Request, FileRequest, OtherRequest, UnparsedRequest
<1>2. ASSUME NEW k \in Key, NEW v \in States, NEW w \in States,
             Agrees(k, v), Fits(Head(wire), k, v, w)
      PROVE  Agrees(k, w)'
  <2>1. w = v  BY <1>1, <1>2 DEF Fits, Restates, Ends, TurnEnds
  <2>2. QED  BY <1>1, <1>2, <2>1 DEF Agrees
<1>3. QED  BY <1>1, <1>2, ReadKeepsFollowed

\* What it leaves in last, field by field.
LEMMA FileRequestLast ==
  ASSUME TypeOK, Followed, FileRequest
  PROVE  /\ last' \in Requests
         /\ phase' \in {"reading", "asking"}
         /\ NothingStaleIsAsked' /\ SoundIsAsked'
<1> DEFINE k == Head(wire).key
<1>1. /\ ReadsLine /\ Head(wire).kind = "request"
      /\ lost' = lost
  BY DEF FileRequest
<1>2. k \in Key /\ Head(wire).asked \in States
  BY <1>1, NextLine, LineFields
<1>3. PICK v \in States : Agrees(k, v) /\ Head(wire).asked = v
  <2>1. PICK h : Story(k, h) /\ Agrees(k, h[0])  BY <1>2 DEF Followed
  <2>2. h[0] \in States /\ Fits(Head(wire), k, h[0], h[1])
    BY <1>1, <1>2, <2>1, TailStory
  <2>3. Head(wire).asked = h[0]  BY <1>1, <2>2 DEF Fits
  <2>4. QED  BY <2>1, <2>2, <2>3
<1>4. PICK full \in FullOrNot, root \in Roots, inline \in Startable :
        LET r == Resolve(k, full, root, inline)
        IN \E answer \in IF r = Refused THEN Sent("decline") ELSE {"none"} :
            /\ last' = [key |-> k, asked |-> Head(wire).asked, root |-> root,
                        full |-> full, from |-> r.from, shown |-> r.shown,
                        answer |-> answer]
            /\ phase' = IF r = Refused THEN "reading" ELSE "asking"
  BY DEF FileRequest
<1> DEFINE r == Resolve(k, full, root, inline)
<1>5. PICK answer \in {"none", "decline", "unsent"} :
            last' = [key |-> k, asked |-> v, root |-> root, full |-> full,
                     from |-> r.from, shown |-> r.shown, answer |-> answer]
  BY <1>3, <1>4 DEF Sent
<1>6. phase' \in {"reading", "asking"}  BY <1>4
<1>7. full \in BOOLEAN  BY <1>4 DEF FullOrNot
<1>8. /\ r.from \in {"refused", "cache", "inline", "root"}
      /\ r.shown \in Startable
      /\ r.from = "cache" => r.shown = v \/ (v = "over" /\ k \in lost)
      /\ r.from = "inline" => v \in {"unborn", "over"} \/ k \in lost \/ ~full
      /\ r.from = "root" => v \in {"unborn", "over", "empty"} \/ k \in lost
      /\ r.from = "refused" => v \notin Proposals \/ k \in lost \/ ~full \/ root = "blank"
  BY <1>2, <1>3, <1>7, ResolveAgrees
<1> HIDE DEF r, k
<1>9. last' \in Requests  BY <1>2, <1>5, <1>7, <1>8 DEF Requests, States
<1>10. NothingStaleIsAsked'  BY <1>1, <1>5, <1>8 DEF NothingStaleIsAsked
<1>11. SoundIsAsked'  BY <1>1, <1>5, <1>8 DEF SoundIsAsked
<1>12. QED  BY <1>6, <1>9, <1>10, <1>11

-----------------------------------------------------------------------------
(* The invariant holds.                                                     *)

\* A state in which no request was just read shows the caller nothing.
LEMMA NoRequestIsSafe ==
  ASSUME last' = NoRequest
  PROVE  NothingStaleIsAsked' /\ SoundIsAsked'
BY DEF NothingStaleIsAsked, SoundIsAsked, NoRequest

LEMMA InitInv == Init => IndInv
<1> SUFFICES ASSUME Init  PROVE IndInv  OBVIOUS
<1> USE DEF Init
<1>1. TypeOK  BY BoundAssumption DEF TypeOK
<1>2. Followed
  <2> SUFFICES ASSUME NEW k \in Key  PROVE \E h : Story(k, h) /\ Agrees(k, h[0])
    BY DEF Followed
  <2> DEFINE h == [i \in 0..0 |-> "unborn"]
  <2>1. Len(wire) = 0  OBVIOUS
  <2>2. Story(k, h)  BY <2>1 DEF Story, States
  <2>3. Agrees(k, h[0])  BY DEF Agrees
  <2>4. QED  BY <2>2, <2>3
<1>3. NothingStaleIsAsked /\ SoundIsAsked
  BY DEF NothingStaleIsAsked, SoundIsAsked, NoRequest
<1>4. QED  BY <1>1, <1>2, <1>3 DEF IndInv

\* The lines in flight and what is believed stay as they are.
LEMMA FollowedFrame ==
  ASSUME Followed, UNCHANGED <<proposal, wire, cache, lost>>
  PROVE  Followed'
BY DEF Followed, Story, Agrees

LEMMA StepServer ==
  ASSUME IndInv, ServerStep
  PROVE  IndInv'
<1> USE DEF IndInv
<1>1. PICK line \in Line : /\ Says(line)
                           /\ proposal' \in [Key -> States]
                           /\ \A k \in Key : Fits(line, k, proposal[k], proposal'[k])
  BY ServerLine
<1>2. TypeOK'  BY <1>1, SaysKeepsTypes
<1>3. Followed'  BY <1>1, SaysKeepsFollowed
<1>4. NothingStaleIsAsked' /\ SoundIsAsked'
  BY <1>1 DEF Says, NothingStaleIsAsked, SoundIsAsked
<1>5. QED  BY <1>2, <1>3, <1>4

LEMMA StepNotification ==
  ASSUME IndInv, Notification
  PROVE  IndInv'
<1> USE DEF IndInv
<1>1. ReadsLine /\ last' = NoRequest /\ TypeOK'  BY NotificationTypes
<1>2. Followed'  BY <1>1, NotificationAgrees, ReadKeepsFollowed
<1>3. QED  BY <1>1, <1>2, NoRequestIsSafe

LEMMA StepRequest ==
  ASSUME IndInv, Request
  PROVE  IndInv'
<1> USE DEF IndInv
<1>1. ReadsLine /\ Followed'  BY RequestKeepsFollowed
<1>2. /\ wire' \in Seq(Line) /\ Len(wire') <= MaxWire
      /\ UNCHANGED <<proposal, cache, ending, lost>>
  <2>1. UNCHANGED <<proposal, cache, ending, lost>>
    BY DEF Request, FileRequest, OtherRequest, UnparsedRequest, ReadsLine, server
  <2>2. QED  BY <1>1, <2>1, NextLine, BoundAssumption DEF TypeOK
<1>3. /\ last' \in Requests \cup Others
      /\ phase' \in {"reading", "asking"}
      /\ NothingStaleIsAsked' /\ SoundIsAsked'
  <2>1. CASE FileRequest  BY <2>1, FileRequestLast
  <2>2. CASE OtherRequest
    <3>1. last' = [from |-> "itself", answer |-> "none"] /\ phase' = "asking"
      BY <2>2 DEF OtherRequest
    <3>2. last' \in Others  BY <3>1 DEF Others
    <3>3. NothingStaleIsAsked' /\ SoundIsAsked'
      BY <3>1 DEF NothingStaleIsAsked, SoundIsAsked
    <3>4. QED  BY <3>1, <3>2, <3>3
  <2>3. CASE UnparsedRequest
    <3>1. PICK answer \in {"error", "unsent"} :
            last' = [from |-> "unparsed", answer |-> answer]
      BY <2>3 DEF UnparsedRequest, Sent
    <3>2. last' \in Others  BY <3>1 DEF Others
    <3>3. phase' = "reading"  BY <2>3 DEF UnparsedRequest, ReadsLine
    <3>4. NothingStaleIsAsked' /\ SoundIsAsked'
      BY <3>1 DEF NothingStaleIsAsked, SoundIsAsked
    <3>5. QED  BY <3>2, <3>3, <3>4
  <2>4. QED  BY <2>1, <2>2, <2>3 DEF Request
<1>4. NoRequest \notin Requests \cup Others
  BY DEF NoRequest, Requests, Others
<1>5. TypeOK'  BY <1>2, <1>3, <1>4 DEF TypeOK
<1>6. QED  BY <1>1, <1>3, <1>5

\* The callback's answer changes nothing but last.answer.
LEMMA StepCallback ==
  ASSUME IndInv, CallbackReturns
  PROVE  IndInv'
<1> USE DEF IndInv
<1>1. /\ phase = "asking" /\ phase' = "reading"
      /\ UNCHANGED <<proposal, wire, cache, ending, lost>>
  BY DEF CallbackReturns
<1>2. PICK answer \in {"accept", "acceptForSession", "decline", "cancel",
                       "answers", "unsent"} :
        last' = [last EXCEPT !.answer = answer]
  <2>1. PICK d \in Decisions : \E answer \in Sent(Encode(d)) :
          last' = [last EXCEPT !.answer = answer]
    BY DEF CallbackReturns
  <2>2. Encode(d) \in {"accept", "acceptForSession", "decline", "cancel", "answers"}
    BY DecisionsAssumption DEF Encode
  <2>3. Sent(Encode(d)) \subseteq {"accept", "acceptForSession", "decline",
                                   "cancel", "answers", "unsent"}
    BY <2>2 DEF Sent
  <2>4. QED  BY <2>1, <2>3
<1>3. last \in Requests \cup Others  BY <1>1 DEF TypeOK
<1>4. CASE last \in Requests
  <2>1. last' \in Requests  BY <1>2, <1>4 DEF Requests
  <2>2. /\ last'.from = last.from /\ last'.shown = last.shown
        /\ last'.asked = last.asked /\ last'.key = last.key
        /\ last'.full = last.full /\ last'.root = last.root
    BY <1>2, <1>4 DEF Requests
  <2>3. NothingStaleIsAsked'  BY <1>1, <2>2 DEF NothingStaleIsAsked
  <2>4. SoundIsAsked'  BY <1>1, <2>2 DEF SoundIsAsked
  <2>5. TypeOK'  BY <1>1, <2>1 DEF TypeOK
  <2>6. QED  BY <1>1, <2>3, <2>4, <2>5, FollowedFrame
<1>5. CASE last \in Others
  <2>1. last' \in Others /\ last'.from \in {"itself", "unparsed"}
    BY <1>2, <1>5 DEF Others
  <2>2. NothingStaleIsAsked' /\ SoundIsAsked'
    BY <2>1 DEF NothingStaleIsAsked, SoundIsAsked
  <2>3. TypeOK'  BY <1>1, <2>1 DEF TypeOK
  <2>4. QED  BY <1>1, <2>2, <2>3, FollowedFrame
<1>6. QED  BY <1>3, <1>4, <1>5

LEMMA StepEnd ==
  ASSUME IndInv, ServerEnds \/ Close \/ DispatcherLeaves
  PROVE  IndInv'
<1> USE DEF IndInv
<1>1. CASE ServerEnds \/ Close
  <2>1. /\ ending' \in {"gone", "closing"}
        /\ UNCHANGED <<proposal, wire, cache, phase, last, lost>>
    BY <1>1 DEF ServerEnds, Close
  <2>2. TypeOK'  BY <2>1 DEF TypeOK
  <2>3. NothingStaleIsAsked' /\ SoundIsAsked'
    BY <2>1 DEF NothingStaleIsAsked, SoundIsAsked
  <2>4. QED  BY <2>1, <2>2, <2>3, FollowedFrame
<1>2. CASE DispatcherLeaves
  <2>1. /\ UNCHANGED <<proposal, wire, ending>>
        /\ phase' = "over" /\ last' = NoRequest /\ lost' = Key
        /\ cache' = [k \in Key |-> "absent"]
    BY <1>2 DEF DispatcherLeaves, ForgetAll, Without
  <2>2. TypeOK'  BY <2>1 DEF TypeOK
  <2>3. Followed'
    <3>1. ASSUME NEW k \in Key, NEW h, Story(k, h)
          PROVE  Story(k, h)' /\ Agrees(k, h[0])'
      BY <2>1, <3>1 DEF Story, Agrees
    <3>2. QED  BY <3>1 DEF Followed
  <2>4. QED  BY <2>1, <2>2, <2>3, NoRequestIsSafe
<1>3. QED  BY <1>1, <1>2

-----------------------------------------------------------------------------
LEMMA Preserved == IndInv /\ [Next]_vars => IndInv'
<1> SUFFICES ASSUME IndInv, [Next]_vars  PROVE IndInv'  OBVIOUS
<1>1. CASE Next
  <2>1. \/ ServerStep \/ Notification \/ Request \/ CallbackReturns
        \/ ServerEnds \/ Close \/ DispatcherLeaves
    BY <1>1 DEF Next, ServerStep, Notification, Request
  <2>2. QED
    BY <2>1, StepServer, StepNotification, StepRequest, StepCallback, StepEnd
<1>2. CASE UNCHANGED vars
  <2>1. TypeOK' /\ NothingStaleIsAsked' /\ SoundIsAsked'
    BY <1>2 DEF IndInv, vars, TypeOK, NothingStaleIsAsked, SoundIsAsked
  <2>2. Followed'  BY <1>2, FollowedFrame DEF IndInv, vars
  <2>3. QED  BY <2>1, <2>2 DEF IndInv
<1>3. QED  BY <1>1, <1>2

\* What the dispatcher remembers, shows and answers has its type throughout.
THEOREM TypeCorrect == Spec => []TypeOK
<1>1. IndInv => TypeOK  BY DEF IndInv
<1>2. QED  BY InitInv, Preserved, <1>1, PTL DEF Spec

\* The caller is never asked about an older proposal than the app-server's
\* (docs/approvals.md:49-51), for any number of turns, items and lines.
THEOREM NothingStaleIsEverAsked == Spec => []NothingStaleIsAsked
<1>1. IndInv => NothingStaleIsAsked  BY DEF IndInv
<1>2. QED  BY InitInv, Preserved, <1>1, PTL DEF Spec

\* A sound proposal is refused only for what the dispatcher could not read.
THEOREM SoundIsAlwaysAsked == Spec => []SoundIsAsked
<1>1. IndInv => SoundIsAsked  BY DEF IndInv
<1>2. QED  BY InitInv, Preserved, <1>1, PTL DEF Spec
=============================================================================
