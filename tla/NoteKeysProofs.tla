--------------------------- MODULE NoteKeysProofs ---------------------------
(***************************************************************************)
(* Proofs, for every map of buttons, every queue and every pattern of lost *)
(* events, that a button which is not remapped never sticks and that the   *)
(* engine holds a key as often as the map has buttons pressed on it.       *)
(***************************************************************************)
EXTENDS NoteKeys, FiniteSetTheorems, TLAPS

EdgeEvent == [button : Buttons, on : BOOLEAN]

\* The buttons the property is about.
Mapped == {b \in Buttons \ Remapped : SlotOf(b) # NoSlot}

\* The k-th event of the queue is the latest one of its button.
LatestAt(k) == \A j \in DOMAIN queue : j > k => queue[j].button # queue[k].button

NoEdge(b) == \A k \in DOMAIN queue : queue[k].button # b

\* The property looks at buttons without an event in the queue.  Before its
\* latest event is handled, that event is what agrees with the finger.
Inv ==
    /\ down \in [Buttons -> BOOLEAN] /\ queue \in Seq(EdgeEvent)
    /\ pressed \in [Entries -> BOOLEAN]
    /\ \A k \in DOMAIN queue :
          queue[k].button \notin missed /\ LatestAt(k)
            => queue[k].on = down[queue[k].button]
    /\ \A b \in Mapped :
          b \notin missed /\ NoEdge(b) => pressed[EntryOf(b)] = down[b]

-----------------------------------------------------------------------------
(* The map.                                                                *)

\* The entry of a mapped button is its own, in a map without duplicates.
LEMMA EntryIsOwn ==
    ASSUME NEW b \in Buttons, SlotOf(b) # NoSlot
    PROVE  EntryOf(b) \in Entries /\ NoteMap[EntryOf(b)].button = b
<1>1. Entries = 1..Len(NoteMap)
  BY NoteAssumption DEF Entries
<1>2. PICK i \in Entries : NoteMap[i].button = b
  BY DEF SlotOf
<1>3. \A j \in 1..i-1 : NoteMap[j].button # b
  BY <1>1, <1>2, NoteAssumption
<1>4. QED
  BY <1>2, <1>3 DEF EntryOf

-----------------------------------------------------------------------------
(* Queues.                                                                 *)

\* What an appended event does to the others.
LEMMA AppendFacts ==
    ASSUME NEW q \in Seq(EdgeEvent), NEW e \in EdgeEvent
    PROVE  /\ Append(q, e) \in Seq(EdgeEvent)
           /\ DOMAIN Append(q, e) = 1..Len(q)+1
           /\ \A k \in 1..Len(q) : Append(q, e)[k] = q[k]
           /\ Append(q, e)[Len(q)+1] = e
           /\ DOMAIN q = 1..Len(q) /\ Len(q) \in Nat
  OBVIOUS

\* What is left of a queue without its head.
LEMMA TailFacts ==
    ASSUME NEW q \in Seq(EdgeEvent), q # <<>>
    PROVE  /\ Tail(q) \in Seq(EdgeEvent) /\ Head(q) \in EdgeEvent
           /\ Head(q) = q[1]
           /\ DOMAIN Tail(q) = 1..Len(q)-1
           /\ \A k \in 1..Len(q)-1 : Tail(q)[k] = q[k+1]
           /\ DOMAIN q = 1..Len(q) /\ Len(q) \in Nat \ {0}
  OBVIOUS

\* The events of a queue are edges of buttons.
LEMMA EventFacts ==
    ASSUME NEW q \in Seq(EdgeEvent), NEW k \in DOMAIN q
    PROVE  q[k].button \in Buttons
<1>1. q[k] \in EdgeEvent
  OBVIOUS
<1>2. QED
  BY <1>1 DEF EdgeEvent

-----------------------------------------------------------------------------
LEMMA InvInit == Init => Inv
<1> SUFFICES ASSUME Init PROVE Inv
  OBVIOUS
<1>1. queue = <<>> /\ down = [b \in Buttons |-> FALSE]
      /\ pressed = [i \in Entries |-> FALSE]
  BY DEF Init
<1>2. \A b \in Mapped : EntryOf(b) \in Entries
  BY EntryIsOwn DEF Mapped
<1>3. queue \in Seq(EdgeEvent) /\ DOMAIN queue = {}
  BY <1>1
<1>4. down \in [Buttons -> BOOLEAN] /\ pressed \in [Entries -> BOOLEAN]
  BY <1>1
<1>5. \A b \in Mapped : pressed[EntryOf(b)] = down[b]
  BY <1>1, <1>2 DEF Mapped
<1>6. QED
  BY <1>3, <1>4, <1>5 DEF Inv

\* An edge is appended, and is then the latest of its button, or is missed.
LEMMA EdgeKeeps ==
    ASSUME Inv, NEW b \in Buttons, Edge(b)
    PROVE  Inv'
<1>1. /\ down \in [Buttons -> BOOLEAN] /\ queue \in Seq(EdgeEvent)
      /\ down' = [down EXCEPT ![b] = ~@]
      /\ pressed' = pressed /\ pressed \in [Entries -> BOOLEAN]
  BY DEF Inv, Edge
<1>2. CASE queue' = Append(queue, [button |-> b, on |-> ~down[b]])
           /\ missed' = missed \ {b}
  <2> DEFINE e == [button |-> b, on |-> ~down[b]]
  <2>1. e \in EdgeEvent
    BY <1>1 DEF EdgeEvent
  <2>2. /\ queue' \in Seq(EdgeEvent) /\ DOMAIN queue' = 1..Len(queue)+1
        /\ \A k \in 1..Len(queue) : queue'[k] = queue[k]
        /\ queue'[Len(queue)+1] = e
        /\ DOMAIN queue = 1..Len(queue) /\ Len(queue) \in Nat
    BY <1>1, <1>2, <2>1, AppendFacts
  <2>3. ASSUME NEW k \in DOMAIN queue', queue'[k].button \notin missed',
               LatestAt(k)'
        PROVE  queue'[k].on = down'[queue'[k].button]
    <3>1. CASE k = Len(queue) + 1
      BY <1>1, <2>2, <3>1
    <3>2. CASE k \in 1..Len(queue)
      <4>1. queue'[k].button # b
        BY <2>2, <2>3, <3>2 DEF LatestAt
      <4>2. queue'[k] = queue[k] /\ queue[k].button \notin missed /\ LatestAt(k)
        BY <1>2, <2>2, <2>3, <3>2, <4>1 DEF LatestAt
      <4>3. queue[k].button \in Buttons
        BY <1>1, <2>2, <3>2, EventFacts
      <4>4. QED
        BY <1>1, <2>2, <3>2, <4>1, <4>2, <4>3 DEF Inv
    <3>3. QED
      BY <2>2, <2>3, <3>1, <3>2
  <2>4. ASSUME NEW c \in Mapped, c \notin missed', NoEdge(c)'
        PROVE  pressed'[EntryOf(c)] = down'[c]
    <3>1. c # b
      BY <2>2, <2>4 DEF NoEdge
    <3>2. c \notin missed /\ NoEdge(c)
      BY <1>2, <2>2, <2>4, <3>1 DEF NoEdge
    <3>3. QED
      BY <1>1, <3>1, <3>2 DEF Inv, Mapped
  <2>5. QED
    BY <1>1, <2>2, <2>3, <2>4 DEF Inv, Mapped
<1>3. CASE queue' = queue /\ missed' = missed \cup {b}
  <2>1. ASSUME NEW k \in DOMAIN queue', queue'[k].button \notin missed',
               LatestAt(k)'
        PROVE  queue'[k].on = down'[queue'[k].button]
    <3>1. queue[k].button \notin missed /\ queue[k].button # b /\ LatestAt(k)
      BY <1>3, <2>1 DEF LatestAt
    <3>2. queue[k].button \in Buttons
      BY <1>1, <1>3, <2>1, EventFacts
    <3>3. QED
      BY <1>1, <1>3, <2>1, <3>1, <3>2 DEF Inv
  <2>2. ASSUME NEW c \in Mapped, c \notin missed', NoEdge(c)'
        PROVE  pressed'[EntryOf(c)] = down'[c]
    <3>1. c \notin missed /\ c # b /\ NoEdge(c)
      BY <1>3, <2>2 DEF NoEdge
    <3>2. QED
      BY <1>1, <3>1 DEF Inv, Mapped
  <2>3. QED
    BY <1>1, <1>3, <2>1, <2>2 DEF Inv, Mapped
<1>4. QED
  BY <1>2, <1>3 DEF Edge

\* The event at the head leaves the queue; if it was the latest of its
\* button, the entry now agrees with it and so with the finger.
LEMMA HandleKeeps ==
    ASSUME Inv, HandleNote
    PROVE  Inv'
<1> DEFINE ev == Head(queue)
<1>1. /\ queue # <<>> /\ queue' = Tail(queue) /\ queue \in Seq(EdgeEvent)
      /\ down' = down /\ missed' = missed
      /\ pressed \in [Entries -> BOOLEAN] /\ down \in [Buttons -> BOOLEAN]
  BY DEF Inv, HandleNote
<1>2. /\ queue' \in Seq(EdgeEvent) /\ ev \in EdgeEvent /\ ev = queue[1]
      /\ DOMAIN queue' = 1..Len(queue)-1
      /\ \A k \in 1..Len(queue)-1 : queue'[k] = queue[k+1]
      /\ DOMAIN queue = 1..Len(queue) /\ Len(queue) \in Nat \ {0}
  BY <1>1, TailFacts
<1> HIDE DEF ev
<1>3. ev.button \in Buttons /\ ev.on \in BOOLEAN
  BY <1>2 DEF EdgeEvent
<1>4. \/ pressed' = pressed /\ (ToUsb1(ev.button) \/ ~IsNews(ev.button, ev.on))
      \/ /\ ~ToUsb1(ev.button) /\ IsNews(ev.button, ev.on)
         /\ pressed' = [pressed EXCEPT ![EntryOf(ev.button)] = ev.on]
  BY DEF HandleNote, ev
<1>5. ASSUME NEW k \in DOMAIN queue', queue'[k].button \notin missed', LatestAt(k)'
      PROVE  queue'[k].on = down'[queue'[k].button]
  <2>1. k + 1 \in DOMAIN queue /\ queue'[k] = queue[k+1]
    BY <1>2, <1>5
  <2>2. LatestAt(k+1)
    <3>1. SUFFICES ASSUME NEW j \in DOMAIN queue, j > k + 1
                   PROVE  queue[j].button # queue[k+1].button
      BY DEF LatestAt
    <3>2. j - 1 \in DOMAIN queue' /\ j - 1 > k /\ queue'[j-1] = queue[j]
      BY <1>2, <2>1, <3>1
    <3>3. QED
      BY <1>5, <2>1, <3>2 DEF LatestAt
  <2>3. QED
    BY <1>1, <1>5, <2>1, <2>2 DEF Inv
<1>6. ASSUME NEW c \in Mapped, c \notin missed', NoEdge(c)'
      PROVE  pressed'[EntryOf(c)] = down'[c]
  <2>1. /\ c \in Buttons /\ SlotOf(c) # NoSlot /\ c \notin Remapped
        /\ EntryOf(c) \in Entries /\ NoteMap[EntryOf(c)].button = c
    BY EntryIsOwn DEF Mapped
  <2>2. \A j \in DOMAIN queue : j > 1 => queue[j].button # c
    <3>1. SUFFICES ASSUME NEW j \in DOMAIN queue, j > 1 PROVE queue[j].button # c
      OBVIOUS
    <3>2. j - 1 \in DOMAIN queue' /\ queue'[j-1] = queue[j]
      BY <1>2, <3>1
    <3>3. QED
      BY <1>6, <3>2 DEF NoEdge
  <2>3. CASE c = ev.button
    <3>1. 1 \in DOMAIN queue /\ LatestAt(1) /\ queue[1].button = c
      BY <1>2, <2>2, <2>3 DEF LatestAt
    <3>2. ev.on = down[c]
      BY <1>1, <1>2, <1>6, <3>1 DEF Inv
    <3>3. ~ToUsb1(ev.button)
      BY <2>1, <2>3 DEF ToUsb1
    <3>4. CASE IsNews(ev.button, ev.on)
      BY <1>1, <1>4, <2>1, <2>3, <3>2, <3>3, <3>4
    <3>5. CASE ~IsNews(ev.button, ev.on)
      BY <1>1, <1>4, <2>1, <2>3, <3>2, <3>3, <3>5 DEF IsNews
    <3>6. QED
      BY <3>4, <3>5
  <2>4. CASE c # ev.button
    <3>1. NoEdge(c)
      BY <1>2, <2>2, <2>4 DEF NoEdge
    <3>2. pressed[EntryOf(c)] = down[c]
      BY <1>1, <1>6, <3>1 DEF Inv
    <3>3. CASE pressed' = pressed
      BY <1>1, <3>2, <3>3
    <3>4. CASE IsNews(ev.button, ev.on)
               /\ pressed' = [pressed EXCEPT ![EntryOf(ev.button)] = ev.on]
      <4>1. NoteMap[EntryOf(ev.button)].button = ev.button
        BY <1>3, <3>4, EntryIsOwn DEF IsNews
      <4>2. EntryOf(ev.button) # EntryOf(c)
        BY <2>1, <2>4, <4>1
      <4>3. QED
        BY <1>1, <2>1, <3>2, <3>4, <4>2
    <3>5. QED
      BY <1>4, <3>3, <3>4
  <2>5. QED
    BY <2>3, <2>4
<1>7. pressed' \in [Entries -> BOOLEAN]
  BY <1>1, <1>3, <1>4
<1>8. QED
  BY <1>1, <1>2, <1>5, <1>6, <1>7 DEF Inv, Mapped

LEMMA InvNext == Inv /\ [Next]_vars => Inv'
<1> SUFFICES ASSUME Inv, [Next]_vars PROVE Inv'
  OBVIOUS
<1>1. CASE \E b \in Buttons : Edge(b)
  BY <1>1, EdgeKeeps
<1>2. CASE HandleNote
  BY <1>2, HandleKeeps
<1>3. CASE Browse \/ Mounted \/ UNCHANGED vars
  <2>1. down' = down /\ queue' = queue /\ pressed' = pressed /\ missed' = missed
    BY <1>3 DEF Browse, Mounted, vars
  <2>2. QED
    BY <2>1 DEF Inv, LatestAt, NoEdge, Mapped
<1>4. QED
  BY <1>1, <1>2, <1>3 DEF Next

-----------------------------------------------------------------------------
(* What the engine counts.                                                 *)

\* The entries of a slot that are pressed.
Holding(s) == {i \in Entries : NoteMap[i].slot = s /\ pressed[i]}

\* The keys and the events handle_note has still to see stem from edges the
\* fingers made, one each: this is what bounds the counts, USB1's included.
Budget ==
    \A s \in Slots \cup {Usb1} : /\ held[s] \in Int
                                 /\ held[s] + Len(queue) <= edges
                                 /\ Len(queue) - held[s] <= edges

CountInv ==
    /\ held \in [Slots \cup {Usb1} -> Int] /\ missed \subseteq Buttons
    /\ menu \in BOOLEAN /\ stick \in BOOLEAN
    /\ edges \in 0..MaxEdges /\ Len(queue) <= QueueLen
    /\ Budget
    /\ HeldMatchesPressed

\* There are finitely many entries, so a slot's pressed entries can be
\* counted, and pressing or releasing one changes the count by one.
LEMMA HoldingIsFinite ==
    ASSUME NEW s
    PROVE  /\ IsFiniteSet(Holding(s))
           /\ Cardinality(Holding(s)) \in 0..Len(NoteMap)
<1>1. Len(NoteMap) \in Nat /\ Entries = 1..Len(NoteMap)
  BY NoteAssumption DEF Entries
<1>2. IsFiniteSet(Entries) /\ Cardinality(Entries) = Len(NoteMap)
  <2> DEFINE n == Len(NoteMap)
  <2>1. n \in Int /\ 1 \in Int
    BY <1>1
  <2> HIDE DEF n
  <2>2. /\ IsFiniteSet(1..n)
        /\ Cardinality(1..n) = IF 1 > n THEN 0 ELSE n - 1 + 1
    BY <2>1, FS_Interval
  <2>3. QED
    BY <1>1, <2>2 DEF n
<1>3. Holding(s) \in SUBSET Entries
  BY DEF Holding
<1>4. IsFiniteSet(Holding(s)) /\ Cardinality(Holding(s)) <= Len(NoteMap)
  BY <1>2, <1>3, FS_Subset
<1>5. Cardinality(Holding(s)) \in Nat
  BY <1>4, FS_CardinalityType
<1>6. QED
  BY <1>1, <1>4, <1>5

LEMMA HoldingChanges ==
    ASSUME pressed \in [Entries -> BOOLEAN], NEW e \in Entries,
           NEW on \in BOOLEAN, pressed[e] # on,
           pressed' = [pressed EXCEPT ![e] = on], NEW s
    PROVE  Cardinality(Holding(s)') =
             IF NoteMap[e].slot # s THEN Cardinality(Holding(s))
             ELSE IF on THEN Cardinality(Holding(s)) + 1
                        ELSE Cardinality(Holding(s)) - 1
<1>1. CASE NoteMap[e].slot # s
  <2>1. Holding(s)' = Holding(s)
    BY <1>1 DEF Holding
  <2>2. QED
    BY <1>1, <2>1
<1>2. CASE NoteMap[e].slot = s /\ on
  <2>1. Holding(s)' = Holding(s) \cup {e} /\ e \notin Holding(s)
    BY <1>2 DEF Holding
  <2>2. QED
    BY <1>2, <2>1, HoldingIsFinite, FS_AddElement
<1>3. CASE NoteMap[e].slot = s /\ ~on
  <2>1. Holding(s)' = Holding(s) \ {e} /\ e \in Holding(s)
    BY <1>3 DEF Holding
  <2>2. QED
    BY <1>3, <2>1, HoldingIsFinite, FS_RemoveElement
<1>4. QED
  BY <1>1, <1>2, <1>3

LEMMA CountInit == Init => CountInv
<1> SUFFICES ASSUME Init PROVE CountInv
  OBVIOUS
<1>1. /\ held = [s \in Slots \cup {Usb1} |-> 0] /\ edges = 0 /\ missed = {}
      /\ menu = FALSE /\ stick \in BOOLEAN /\ queue = <<>>
      /\ pressed = [i \in Entries |-> FALSE]
  BY DEF Init
<1>2. Len(queue) = 0 /\ MaxEdges \in Nat /\ QueueLen \in Nat \ {0}
  BY <1>1, NoteAssumption
<1>3. ASSUME NEW s \in Slots PROVE held[s] = Cardinality(Holding(s))
  <2>1. Holding(s) = {}
    BY <1>1 DEF Holding
  <2>2. QED
    BY <1>1, <2>1, FS_EmptySet
<1>4. Budget
  BY <1>1, <1>2 DEF Budget
<1>5. HeldMatchesPressed
  BY <1>3 DEF HeldMatchesPressed, Holding
<1>6. held \in [Slots \cup {Usb1} -> Int] /\ edges \in 0..MaxEdges
  BY <1>1, <1>2
<1>7. Len(queue) <= QueueLen
  BY <1>2
<1>8. QED
  BY <1>1, <1>4, <1>5, <1>6, <1>7, Zenon DEF CountInv

\* A finger pays for one event, or for none when it is dropped.
LEMMA EdgeCounts ==
    ASSUME Inv, CountInv, NEW b \in Buttons, Edge(b)
    PROVE  CountInv'
<1>1. /\ edges' = edges + 1 /\ edges < MaxEdges /\ edges \in 0..MaxEdges
      /\ MaxEdges \in Nat /\ QueueLen \in Nat \ {0}
      /\ held' = held /\ pressed' = pressed /\ menu' = menu /\ stick' = stick
      /\ missed' \subseteq Buttons
  BY NoteAssumption DEF Edge, CountInv
<1>2. /\ Len(queue) \in Nat /\ Len(queue') \in Nat /\ Len(queue') <= QueueLen
      /\ Len(queue') <= Len(queue) + 1
  <2>1. queue \in Seq(EdgeEvent) /\ Len(queue) <= QueueLen
    BY DEF Inv, CountInv
  <2>2. CASE /\ Len(queue) < QueueLen
             /\ queue' = Append(queue, [button |-> b, on |-> ~down[b]])
    <3>1. [button |-> b, on |-> ~down[b]] \in EdgeEvent
      BY DEF Inv, EdgeEvent
    <3>2. Len(queue') = Len(queue) + 1 /\ Len(queue) \in Nat
      BY <2>1, <2>2, <3>1
    <3>3. QED
      BY <1>1, <2>2, <3>2
  <2>3. CASE queue' = queue
    BY <2>1, <2>3
  <2>4. QED
    BY <2>2, <2>3 DEF Edge
<1>3. Budget'
  BY <1>1, <1>2 DEF CountInv, Budget
<1>4. QED
  BY <1>1, <1>2, <1>3 DEF CountInv, HeldMatchesPressed

\* One event leaves the queue and moves at most one count by one; where it
\* moves a key's, it moves the pressed flag of one entry of that key too.
LEMMA HandleCounts ==
    ASSUME Inv, CountInv, HandleNote
    PROVE  CountInv'
<1> DEFINE ev == Head(queue)
<1> DEFINE b == ev.button
<1>1. /\ Len(queue) \in Nat \ {0} /\ Len(queue') = Len(queue) - 1
      /\ ev \in EdgeEvent
  BY DEF Inv, HandleNote
<1>2. b \in Buttons /\ ev.on \in BOOLEAN
  BY <1>1 DEF EdgeEvent
<1>3. \/ ToUsb1(b) /\ Send(Usb1, ev.on) /\ pressed' = pressed
      \/ /\ ~ToUsb1(b) /\ IsNews(b, ev.on)
         /\ pressed' = [pressed EXCEPT ![EntryOf(b)] = ev.on]
         /\ Send(SlotOf(b), ev.on)
      \/ pressed' = pressed /\ held' = held
  BY DEF HandleNote
<1>4. /\ UNCHANGED <<menu, stick, edges, missed>>
      /\ edges \in 0..MaxEdges /\ Len(queue) <= QueueLen
      /\ MaxEdges \in Nat /\ QueueLen \in Nat
      /\ held \in [Slots \cup {Usb1} -> Int]
      /\ pressed \in [Entries -> BOOLEAN]
  BY NoteAssumption DEF HandleNote, CountInv, Inv
<1> HIDE DEF ev
<1>5. ASSUME NEW slot \in Slots \cup {Usb1}, Send(slot, ev.on)
      PROVE  held' \in [Slots \cup {Usb1} -> Int] /\ Budget'
  <2>1. held' = [held EXCEPT ![slot] = IF ev.on THEN @ + 1 ELSE @ - 1]
    BY <1>5 DEF Send
  <2>2. held' \in [Slots \cup {Usb1} -> Int]
    BY <1>4, <2>1
  <2>3. ASSUME NEW s \in Slots \cup {Usb1}
        PROVE  /\ held'[s] \in Int /\ held'[s] + Len(queue') <= edges'
               /\ Len(queue') - held'[s] <= edges'
    <3>1. /\ held[s] \in Int /\ held[s] + Len(queue) <= edges
          /\ Len(queue) - held[s] <= edges
      BY DEF CountInv, Budget
    <3>2. held'[s] \in {held[s], held[s] + 1, held[s] - 1}
      BY <1>4, <2>1
    <3>3. edges' = edges /\ edges \in Int
      BY <1>4
    <3>4. QED
      BY <1>1, <3>1, <3>2, <3>3
  <2>4. QED
    BY <2>2, <2>3 DEF Budget
<1>6. /\ held' \in [Slots \cup {Usb1} -> Int] /\ Budget' /\ HeldMatchesPressed'
  <2>1. CASE ToUsb1(b) /\ Send(Usb1, ev.on) /\ pressed' = pressed
    <3>1. held' \in [Slots \cup {Usb1} -> Int] /\ Budget'
      BY <1>5, <2>1
    <3>2. ASSUME NEW s \in Slots
          PROVE  held'[s] = Cardinality(Holding(s)')
      <4>1. held'[s] = held[s]
        BY <1>4, <2>1, NoteAssumption DEF Send
      <4>2. QED
        BY <2>1, <4>1 DEF CountInv, HeldMatchesPressed, Holding
    <3>3. QED
      BY <3>1, <3>2 DEF HeldMatchesPressed, Holding
  <2>2. CASE /\ IsNews(b, ev.on) /\ Send(SlotOf(b), ev.on)
             /\ pressed' = [pressed EXCEPT ![EntryOf(b)] = ev.on]
    <3> DEFINE e == EntryOf(b)
    <3>1. /\ e \in Entries /\ NoteMap[e].slot = SlotOf(b) /\ pressed[e] # ev.on
          /\ SlotOf(b) \in Slots
      <4>1. e \in Entries /\ SlotOf(b) # NoSlot /\ pressed[e] # ev.on
        BY <1>2, <2>2, EntryIsOwn DEF IsNews
      <4>2. SlotOf(b) = NoteMap[e].slot
        BY <4>1 DEF SlotOf
      <4>3. NoteMap[e].slot \in Slots \cup {NoSlot}
        <5> DEFINE Row == [button : Buttons, slot : Slots \cup {NoSlot}]
        <5>1. NoteMap \in Seq(Row) /\ e \in DOMAIN NoteMap
          BY <4>1, NoteAssumption DEF Entries
        <5> HIDE DEF Row, e
        <5>2. NoteMap[e] \in Row
          BY <5>1
        <5>3. QED
          BY <5>2 DEF Row
      <4>4. QED
        BY <4>1, <4>2, <4>3
    <3> HIDE DEF e
    <3>2. held' \in [Slots \cup {Usb1} -> Int] /\ Budget'
      BY <1>5, <2>2, <3>1
    <3>3. ASSUME NEW s \in Slots
          PROVE  held'[s] = Cardinality(Holding(s)')
      <4>1. held[s] = Cardinality(Holding(s))
        BY DEF CountInv, HeldMatchesPressed, Holding
      <4>2. Cardinality(Holding(s)') =
              IF NoteMap[e].slot # s THEN Cardinality(Holding(s))
              ELSE IF ev.on THEN Cardinality(Holding(s)) + 1
                            ELSE Cardinality(Holding(s)) - 1
        <5>1. pressed' = [pressed EXCEPT ![e] = ev.on]
          BY <2>2 DEF e
        <5>2. QED
          BY <1>2, <1>4, <3>1, <5>1, HoldingChanges
      <4>3. QED
        BY <1>2, <1>4, <2>2, <3>1, <4>1, <4>2 DEF Send
    <3>4. QED
      BY <3>2, <3>3 DEF HeldMatchesPressed, Holding
  <2>3. CASE pressed' = pressed /\ held' = held
    <3>1. Budget'
      BY <1>1, <1>4, <2>3 DEF CountInv, Budget
    <3>2. QED
      BY <1>4, <2>3, <3>1 DEF CountInv, HeldMatchesPressed
  <2>4. QED
    BY <1>3, <2>1, <2>2, <2>3
<1>7. QED
  BY <1>1, <1>4, <1>6 DEF CountInv

LEMMA CountNext == Inv /\ CountInv /\ [Next]_vars => CountInv'
<1> SUFFICES ASSUME Inv, CountInv, [Next]_vars PROVE CountInv'
  OBVIOUS
<1>1. CASE \E b \in Buttons : Edge(b)
  BY <1>1, EdgeCounts
<1>2. CASE HandleNote
  BY <1>2, HandleCounts
<1>3. CASE Browse \/ Mounted \/ UNCHANGED vars
  <2>1. /\ UNCHANGED <<queue, pressed, held, edges, missed>>
        /\ menu' \in BOOLEAN /\ stick' \in BOOLEAN
    BY <1>3 DEF Browse, Mounted, vars, CountInv
  <2>2. QED
    BY <2>1 DEF CountInv, Budget, HeldMatchesPressed
<1>4. QED
  BY <1>1, <1>2, <1>3 DEF Next

LEMMA NoteInvariant == Spec => [](Inv /\ CountInv)
  BY InvInit, InvNext, CountInit, CountNext, PTL DEF Spec

-----------------------------------------------------------------------------
(* What a reader should know.                                              *)

\* A button that is not remapped is never stuck: whatever the sequencer lost
\* before, handling its latest edge makes the entry agree with the finger.
THEOREM NoButtonSticks == Spec => []PressedFollowsButton
<1>1. Inv => PressedFollowsButton
  BY DEF Inv, PressedFollowsButton, Mapped, NoEdge
<1>2. QED
  BY <1>1, NoteInvariant, PTL

\* Whatever the sequencer drops and the menu diverts, handle_note sends each
\* key as many presses beyond its releases as it has pressed entries: never
\* a press twice, never a release too many.
THEOREM EngineCountsPresses == Spec => []HeldMatchesPressed
<1>1. CountInv => HeldMatchesPressed
  BY DEF CountInv
<1>2. QED
  BY <1>1, NoteInvariant, PTL

\* The FIFO keeps its length, no key's count goes below zero or above the
\* buttons of the map, and no count, USB1's included, exceeds the edges made.
THEOREM NoteTypes == Spec => []TypeOK
<1>1. Inv /\ CountInv => TypeOK
  <2> SUFFICES ASSUME Inv, CountInv PROVE TypeOK
    OBVIOUS
  <2>1. queue \in Seq([button : Buttons, on : BOOLEAN]) /\ Len(queue) \in Nat
    BY DEF Inv, EdgeEvent
  <2>2. ASSUME NEW s \in Slots \cup {Usb1} PROVE held[s] \in -MaxEdges..MaxEdges
    <3>1. /\ held[s] \in Int /\ held[s] + Len(queue) <= edges
          /\ Len(queue) - held[s] <= edges
          /\ edges \in 0..MaxEdges /\ MaxEdges \in Nat
      BY NoteAssumption DEF CountInv, Budget
    <3>2. QED
      BY <2>1, <3>1
  <2>3. held \in [Slots \cup {Usb1} -> -MaxEdges..MaxEdges]
    BY <2>2 DEF CountInv
  <2>4. \A s \in Slots : held[s] \in 0..Len(NoteMap)
    BY HoldingIsFinite DEF CountInv, HeldMatchesPressed, Holding
  <2>5. QED
    BY <2>1, <2>3, <2>4 DEF Inv, CountInv, TypeOK
<1>2. QED
  BY <1>1, NoteInvariant, PTL
=============================================================================
