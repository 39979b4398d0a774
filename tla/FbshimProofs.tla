---------------------------- MODULE FbshimProofs ----------------------------
(***************************************************************************)
(* Proofs about scripts/shims/fbshim-tsc.c.  The touch screen: rbp ends up *)
(* with the contact and loses no tap but possibly the first, for every set *)
(* of fingers, size of the screen and length of the queues, and every loss *)
(* of the device.  The display: flips are a frame apart for every          *)
(* behaviour of the clock.                                                 *)
(***************************************************************************)
EXTENDS TouchReader, TLAPS, FiniteSetTheorems

Packets == [track : {"up", "down", "same"}, key : {"up", "down", "same"},
            pos : SUBSET (0..Raw-1), alone : BOOLEAN]
Frames == [flag : {0, 1}, x : 0..Size-1]

\* Packets that decide whether the reader has the right position, and packets
\* that tell something of contacts.
Minded == {m \in Packets : m.pos # {} \/ ~m.alone}
Flagging == {m \in Packets : m.track # "same" \/ m.key # "same"}

-----------------------------------------------------------------------------
(* Positions on the screen.                                                *)

LEMMA Constants ==
    /\ Raw \in Nat \ {0} /\ Size \in Nat \ {0} /\ Size <= Raw
    /\ MaxTouches \in Nat /\ MaxLosses \in Nat
    /\ EvLen \in Nat \ {0} /\ PipeLen \in Nat \ {0, 1}
  BY TouchAssumption

\* Scaling keeps a position on the screen.
LEMMA CellType ==
    ASSUME NEW p \in 0..Raw-1
    PROVE  Cell(p) \in 0..Size-1
<1> DEFINE a == p * Size
           q == a \div Raw
<1>1. Raw \in Nat \ {0} /\ Size \in Nat \ {0} /\ p \in Nat /\ p <= Raw - 1
  BY Constants
<1>2. a \in Nat /\ a <= (Raw - 1) * Size /\ Raw * Size \in Nat
  BY <1>1
<1>3. a < Raw * Size
  <2>1. (Raw - 1) * Size = Raw * Size - Size
    BY <1>1
  <2>2. QED
    BY <1>1, <1>2, <2>1
<1> HIDE DEF a
<1>4. q * Raw + (a % Raw) = a /\ a % Raw \in 0..Raw-1 /\ q \in Int
  BY <1>1, <1>2
<1> HIDE DEF q
<1>5. q < Size
  <2>1. SUFFICES ASSUME q >= Size PROVE FALSE
    BY <1>1, <1>4
  <2>2. q * Raw >= Size * Raw
    BY <1>1, <1>4, <2>1
  <2>3. Size * Raw = Raw * Size
    BY <1>1
  <2>4. QED
    BY <1>1, <1>2, <1>3, <1>4, <2>2, <2>3
<1>6. q >= 0
  <2>1. SUFFICES ASSUME q <= -1 PROVE FALSE
    BY <1>4
  <2>2. q * Raw <= -Raw
    BY <1>1, <1>4, <2>1
  <2>3. QED
    BY <1>1, <1>2, <1>4, <2>2
<1>7. Cell(p) = q
  BY DEF Cell, q, a
<1>8. QED
  BY <1>1, <1>4, <1>5, <1>6, <1>7

-----------------------------------------------------------------------------
(* Queues.                                                                 *)

LEMMA LengthZero ==
    ASSUME NEW S, NEW q \in Seq(S), Len(q) = 0
    PROVE  q = <<>>
  OBVIOUS

LEMMA AppendType ==
    ASSUME NEW S, NEW q \in Seq(S), NEW x \in S, NEW n \in Nat, Len(q) < n
    PROVE  Append(q, x) \in Seq(S) /\ Len(Append(q, x)) <= n
<1>1. Len(Append(q, x)) = Len(q) + 1 /\ Len(q) \in Nat
  OBVIOUS
<1>2. Append(q, x) \in Seq(S)
  OBVIOUS
<1>3. QED
  BY <1>1, <1>2

LEMMA TailType ==
    ASSUME NEW S, NEW q \in Seq(S), q # <<>>, NEW n \in Nat, Len(q) <= n
    PROVE  Tail(q) \in Seq(S) /\ Len(Tail(q)) <= n
<1>1. Len(Tail(q)) = Len(q) - 1 /\ Len(q) \in Nat
  OBVIOUS
<1>2. Tail(q) \in Seq(S)
  OBVIOUS
<1>3. QED
  BY <1>1, <1>2

-----------------------------------------------------------------------------
(* Contacts.                                                               *)

AtMostOne(S) == \A f, g \in S : f = g

\* Two fingers at once are noticed.
LEMMA OneFinger ==
    ASSUME NEW S, IsFiniteSet(S), ~(Cardinality(S) > 1)
    PROVE  AtMostOne(S)
<1> SUFFICES ASSUME NEW f \in S, NEW g \in S, f # g PROVE FALSE
  BY DEF AtMostOne
<1>1. IsFiniteSet({f}) /\ Cardinality({f}) = 1
  BY FS_Singleton
<1>2. Cardinality({f} \cup {g}) = 1 + 1
  BY <1>1, FS_AddElement
<1>3. {f} \cup {g} \in SUBSET S
  OBVIOUS
<1>4. Cardinality({f} \cup {g}) <= Cardinality(S) /\ Cardinality(S) \in Nat
  BY <1>3, FS_Subset, FS_CardinalityType
<1>5. QED
  BY <1>2, <1>4

-----------------------------------------------------------------------------
(* Types, but for the number of touch-downs.                               *)

Typed ==
    /\ contact \in [Fingers -> 0..Raw] /\ slot \in [Fingers -> 0..Raw-1]
    /\ lead \subseteq Down(contact) /\ kpos \in 0..Raw-1
    /\ IsFiniteSet(Down(contact))
    /\ evdev \in Seq(Packets) /\ Len(evdev) <= EvLen
    /\ touches \in 0..MaxTouches /\ losses \in 0..MaxLosses
    /\ pc \in {"read", "push", "again", "reopen"} /\ rx \in 0..Raw-1
    /\ cur_flag \in {0, 1} /\ last_flag \in {-1, 0, 1}
    /\ last_x \in 0..Size-1
    /\ pipe \in Seq(Frames) /\ Len(pipe) <= PipeLen
    /\ hyst \in 0..2 /\ rbp_x \in 0..Size-1 /\ downs \in Nat
    /\ blind \in BOOLEAN /\ multi \in BOOLEAN /\ astray \in BOOLEAN

LEMMA TypedInit == Init => Typed
<1> SUFFICES ASSUME Init PROVE Typed
  OBVIOUS
<1>1. Down(contact) = {}
  BY DEF Init, Down
<1>2. IsFiniteSet(Down(contact)) /\ lead \subseteq Down(contact)
  BY <1>1, FS_EmptySet DEF Init
<1>3. /\ 0 \in 0..Raw-1 /\ 0 \in 0..Size-1 /\ Raw \in 0..Raw
      /\ 0 \in 0..MaxTouches /\ 0 \in 0..MaxLosses /\ 0 <= EvLen /\ 0 <= PipeLen
  BY Constants
<1>4. /\ contact \in [Fingers -> 0..Raw] /\ evdev \in Seq(Packets) /\ pipe \in Seq(Frames)
      /\ Len(evdev) = 0 /\ Len(pipe) = 0 /\ slot \in [Fingers -> 0..Raw-1]
  BY <1>3 DEF Init, Up
<1>5. /\ kpos \in 0..Raw-1 /\ rx \in 0..Raw-1 /\ last_x \in 0..Size-1 /\ rbp_x \in 0..Size-1
      /\ touches \in 0..MaxTouches /\ losses \in 0..MaxLosses
      /\ cur_flag \in {0, 1} /\ last_flag \in {-1, 0, 1} /\ hyst \in 0..2 /\ downs \in Nat
      /\ Len(evdev) <= EvLen /\ Len(pipe) <= PipeLen
  BY <1>3, <1>4 DEF Init
<1>6. /\ pc \in {"read", "push", "again", "reopen"}
      /\ blind \in BOOLEAN /\ multi \in BOOLEAN /\ astray \in BOOLEAN
  BY DEF Init
<1>7. QED
  BY <1>2, <1>4, <1>5, <1>6, Zenon DEF Typed

\* What Touch does with its packet y, or with what is left of it, z.  In a
\* packet of a lone finger every position is the kernel's, and none is missing
\* from a packet that is whole.
Touched(f, p, y, z) ==
    /\ p # contact[f] /\ touches < MaxTouches /\ touches' = touches + 1
    /\ contact' = [contact EXCEPT ![f] = p]
    /\ contact' \in [Fingers -> 0..Raw] /\ slot' \in [Fingers -> 0..Raw-1]
    /\ lead' \subseteq Down(contact') /\ kpos' \in 0..Raw-1
    /\ IsFiniteSet(Down(contact'))
    /\ ~multi' /\ p # Up => kpos' = p
    /\ p = Up /\ Down(contact') = {} => kpos' = kpos
    /\ multi' = ((multi \/ Cardinality(Down(contact')) > 1) /\ Down(contact') # {})
    /\ UNCHANGED <<losses, reader, pipe, player>>
    /\ y.track = IF p = Up THEN "up" ELSE IF contact[f] = Up THEN "down" ELSE "same"
    /\ y.key = IF Down(contact) = {} THEN "down"
               ELSE IF Down(contact') = {} THEN "up" ELSE "same"
    /\ y.alone = ~multi' /\ z.alone = ~multi'
    /\ y.pos = {} => kpos' = kpos
    /\ ~multi' /\ y.pos # {} => y.pos = {kpos'}
    /\ ~multi' /\ z.pos # {} => z.pos = {kpos'}
    /\ (z.track = y.track /\ z.key = y.key)
       \/ (z.track = "same" /\ z.key \in {y.key, "same"})
    /\ \/ pc = "reopen" /\ UNCHANGED <<evdev, blind, astray>>
       \/ /\ pc # "reopen" /\ Len(evdev) < EvLen
          /\ evdev' = Append(evdev, y) /\ UNCHANGED <<blind, astray>>
       \/ /\ pc # "reopen" /\ Len(evdev) = EvLen
          /\ evdev' = <<z>> /\ blind' = TRUE /\ astray' = TRUE

LEMMA TouchStep ==
    ASSUME Typed, NEW f \in Fingers, NEW p \in 0..Raw, Touch(f, p)
    PROVE  \E y, z \in Packets : Touched(f, p, y, z)
<1> DEFINE c == [contact EXCEPT ![f] = p]
           track == IF p = Up THEN "up" ELSE IF contact[f] = Up THEN "down" ELSE "same"
           key == IF Down(contact) = {} THEN "down" ELSE IF Down(c) = {} THEN "up" ELSE "same"
           mt == {p} \ {slot[f], Up}
           abs == {kpos'} \ {kpos}
           y(n) == Part(n, track, mt, key, abs, ~multi')
<1>1. /\ p # contact[f] /\ touches < MaxTouches /\ touches' = touches + 1
      /\ contact' = c /\ slot' = IF p = Up THEN slot ELSE [slot EXCEPT ![f] = p]
      /\ lead' \in Leads(c)
      /\ kpos' \in IF lead' = {} THEN {kpos} ELSE {c[g] : g \in lead'}
      /\ multi' = ((multi \/ Cardinality(Down(c)) > 1) /\ Down(c) # {})
      /\ UNCHANGED <<losses, reader, pipe, player>>
  BY DEF Touch
<1>2. \/ pc = "reopen" /\ UNCHANGED <<evdev, blind, astray>>
      \/ /\ pc # "reopen" /\ Len(evdev) < EvLen
         /\ evdev' = Append(evdev, y(0)) /\ UNCHANGED <<blind, astray>>
      \/ /\ pc # "reopen" /\ Len(evdev) = EvLen
         /\ \E n \in 0..4 : evdev' = <<y(n)>>
         /\ blind' = TRUE /\ astray' = TRUE
  BY DEF Touch
<1>3. c \in [Fingers -> 0..Raw] /\ slot' \in [Fingers -> 0..Raw-1] /\ c[f] = p
  BY <1>1, Constants DEF Typed, Up
<1>4. IsFiniteSet(Down(c)) /\ Down(c) \subseteq Fingers /\ (f \in Down(c) <=> p # Up)
  <2>1. Down(c) \subseteq Down(contact) \cup {f} /\ (f \in Down(c) <=> p # Up)
    BY <1>3 DEF Typed, Down
  <2>2. IsFiniteSet(Down(contact) \cup {f})
    BY FS_AddElement DEF Typed
  <2>3. QED
    BY <2>1, <2>2, FS_Subset DEF Down
<1>5. lead' \subseteq Down(c) /\ (lead' = {} => Down(c) = {})
  BY <1>1 DEF Leads
<1>6. kpos' \in 0..Raw-1
  <2>1. \A g \in Down(c) : c[g] \in 0..Raw-1
    BY <1>3, Constants DEF Down, Up
  <2>2. QED
    BY <1>1, <1>5, <2>1 DEF Typed
<1>7. ASSUME ~multi', p # Up PROVE kpos' = p
  <2>1. AtMostOne(Down(c))
    BY <1>1, <1>4, <1>7, OneFinger
  <2>2. lead' = {f}
    BY <1>4, <1>5, <1>7, <2>1 DEF AtMostOne
  <2>3. QED
    BY <1>1, <1>3, <2>2
<1>8. p = Up /\ Down(c) = {} => kpos' = kpos
  BY <1>1, <1>5
<1>9. mt \subseteq 0..Raw-1 /\ abs \subseteq 0..Raw-1
  BY <1>6, Constants DEF Up
<1>10. ~multi' => mt \in {{}, {kpos'}}
  BY <1>7
<1>11. abs \in {{}, {kpos'}} /\ (abs = {} => kpos' = kpos)
  OBVIOUS
<1>12. track \in {"up", "down", "same"} /\ key \in {"up", "down", "same"} /\ multi' \in BOOLEAN
  BY <1>1 DEF Typed
<1> HIDE DEF mt, abs, track, key, c
<1>13. ASSUME NEW n \in 0..4
       PROVE  /\ y(n) \in Packets /\ y(n).alone = ~multi'
              /\ ~multi' /\ y(n).pos # {} => y(n).pos = {kpos'}
              /\ (y(n).track = track /\ y(n).key = key)
                 \/ (y(n).track = "same" /\ y(n).key \in {key, "same"})
  <2>1. PICK w : w = IF n < 4 /\ abs # {} THEN abs ELSE IF n < 2 THEN mt ELSE {}
    OBVIOUS
  <2>2. w \subseteq 0..Raw-1 /\ (~multi' /\ w # {} => w = {kpos'})
    BY <1>9, <1>10, <1>11, <2>1
  <2>3. PICK t, k, a : /\ t = IF n > 0 THEN "same" ELSE track
                       /\ k = IF n > 2 THEN "same" ELSE key
                       /\ a = ~multi'
    OBVIOUS
  <2>4. y(n) = [track |-> t, key |-> k, pos |-> w, alone |-> a]
    BY <2>1, <2>3 DEF Part
  <2>5. t \in {"up", "down", "same"} /\ k \in {"up", "down", "same"} /\ a \in BOOLEAN
    BY <1>12, <2>3
  <2>6. y(n) \in Packets
    <3>1. w \in SUBSET (0..Raw-1)
      BY <2>2
    <3>2. [track |-> t, key |-> k, pos |-> w, alone |-> a] \in Packets
      BY <2>5, <3>1 DEF Packets
    <3>3. QED
      BY <2>4, <3>2, Zenon
  <2>7. (t = track /\ k = key) \/ (t = "same" /\ k \in {key, "same"})
    BY <2>3
  <2>8. y(n).alone = a /\ y(n).track = t /\ y(n).key = k /\ y(n).pos = w
    BY <2>4
  <2>9. QED
    BY <2>2, <2>3, <2>6, <2>7, <2>8
<1>14. /\ 0 \in 0..4 /\ y(0).track = track /\ y(0).key = key
       /\ y(0).pos = {} => kpos' = kpos
  BY <1>11 DEF Part
<1> HIDE DEF y
<1>15. PICK n \in 0..4 : Len(evdev) = EvLen /\ pc # "reopen" => evdev' = <<y(n)>>
  BY <1>2, <1>14
<1>16. contact' = [contact EXCEPT ![f] = p] /\ Down(contact') = Down(c) /\ contact' = c
  BY <1>1 DEF c
<1>17. /\ y(0).track = IF p = Up THEN "up" ELSE IF contact[f] = Up THEN "down" ELSE "same"
       /\ y(0).key = IF Down(contact) = {} THEN "down"
                     ELSE IF Down(contact') = {} THEN "up" ELSE "same"
  BY <1>14, <1>16 DEF track, key
<1>18. \/ pc = "reopen" /\ UNCHANGED <<evdev, blind, astray>>
       \/ /\ pc # "reopen" /\ Len(evdev) < EvLen
          /\ evdev' = Append(evdev, y(0)) /\ UNCHANGED <<blind, astray>>
       \/ /\ pc # "reopen" /\ Len(evdev) = EvLen
          /\ evdev' = <<y(n)>> /\ blind' = TRUE /\ astray' = TRUE
  BY <1>2, <1>15
<1>19. /\ y(0) \in Packets /\ y(n) \in Packets
       /\ y(0).alone = ~multi' /\ y(n).alone = ~multi'
       /\ ~multi' /\ y(0).pos # {} => y(0).pos = {kpos'}
       /\ ~multi' /\ y(n).pos # {} => y(n).pos = {kpos'}
       /\ (y(n).track = y(0).track /\ y(n).key = y(0).key)
          \/ (y(n).track = "same" /\ y(n).key \in {y(0).key, "same"})
       /\ y(0).pos = {} => kpos' = kpos
  BY <1>13, <1>14
<1>20. /\ contact' \in [Fingers -> 0..Raw] /\ slot' \in [Fingers -> 0..Raw-1]
       /\ lead' \subseteq Down(contact') /\ kpos' \in 0..Raw-1
       /\ IsFiniteSet(Down(contact'))
       /\ ~multi' /\ p # Up => kpos' = p
       /\ p = Up /\ Down(contact') = {} => kpos' = kpos
       /\ multi' = ((multi \/ Cardinality(Down(contact')) > 1) /\ Down(contact') # {})
  BY <1>1, <1>3, <1>4, <1>5, <1>6, <1>7, <1>8, <1>16
<1>21. Touched(f, p, y(0), y(n))
  BY <1>1, <1>16, <1>17, <1>18, <1>19, <1>20 DEF Touched
<1>22. QED
  BY <1>19, <1>21

LEMMA TouchTyped ==
    ASSUME Typed, NEW f \in Fingers, NEW p \in 0..Raw, Touch(f, p)
    PROVE  Typed'
<1>0. PICK y, z \in Packets : Touched(f, p, y, z)
  BY TouchStep
<1>1. /\ touches < MaxTouches /\ touches' = touches + 1
      /\ contact' \in [Fingers -> 0..Raw] /\ slot' \in [Fingers -> 0..Raw-1]
      /\ lead' \subseteq Down(contact') /\ kpos' \in 0..Raw-1
      /\ IsFiniteSet(Down(contact'))
      /\ multi' = ((multi \/ Cardinality(Down(contact')) > 1) /\ Down(contact') # {})
      /\ UNCHANGED <<losses, reader, pipe, player>>
      /\ \/ UNCHANGED <<evdev, blind, astray>>
         \/ /\ Len(evdev) < EvLen
            /\ evdev' = Append(evdev, y) /\ UNCHANGED <<blind, astray>>
         \/ evdev' = <<z>> /\ blind' = TRUE /\ astray' = TRUE
  BY <1>0 DEF Touched
<1>2. evdev' \in Seq(Packets) /\ Len(evdev') <= EvLen
  <2>1. EvLen \in Nat /\ 1 <= EvLen /\ evdev \in Seq(Packets)
    BY Constants DEF Typed
  <2>2. Len(<<z>>) = 1 /\ <<z>> \in Seq(Packets)
    OBVIOUS
  <2>3. CASE evdev' = evdev
    BY <2>3 DEF Typed
  <2>4. CASE Len(evdev) < EvLen /\ evdev' = Append(evdev, y)
    BY <2>1, <2>4, AppendType
  <2>5. CASE evdev' = <<z>>
    BY <2>1, <2>2, <2>5
  <2>6. QED
    BY <1>1, <2>3, <2>4, <2>5
<1>3. touches' \in 0..MaxTouches
  BY <1>1, Constants DEF Typed
<1>4. blind' \in BOOLEAN /\ multi' \in BOOLEAN /\ astray' \in BOOLEAN
  BY <1>1 DEF Typed
<1>5. QED
  BY <1>1, <1>2, <1>3, <1>4 DEF Typed, reader, player

\* Every effect of Report, with its local variable named.
LEMMA ReportStep ==
    ASSUME Typed, Report
    PROVE  \E m \in Packets, p \in 0..Raw-1, flag \in {0, 1} :
              /\ pc = "read" /\ evdev # <<>> /\ m = evdev[1]
              /\ evdev' = Tail(evdev)
              /\ m.pos = {} => p = rx
              /\ m.pos # {} => p \in m.pos
              /\ flag = Flag(m) /\ rx' = p /\ cur_flag' = flag
              /\ blind' = (blind /\ m.key = "same")
              /\ astray' = (~m.alone \/ (astray /\ m.pos = {}))
              /\ pc' = IF Changed(flag, Cell(p)) THEN "push" ELSE "read"
              /\ UNCHANGED <<kernel, last_flag, last_x, pipe, player, multi>>
<1>1. PICK m \in Packets : m = evdev[1] /\ m = Head(evdev)
  BY DEF Report, Typed
<1>2. PICK p : p = IF m.pos = {} THEN rx ELSE CHOOSE q \in m.pos : TRUE
  OBVIOUS
<1>3. m.pos \subseteq 0..Raw-1 /\ (m.pos # {} => p \in m.pos)
  BY <1>2 DEF Packets
<1>4. p \in 0..Raw-1
  BY <1>2, <1>3 DEF Typed
<1>5. Flag(m) \in {0, 1}
  BY DEF Flag, Tracked, Typed
<1>6. rx' = p /\ cur_flag' = Flag(m)
  BY <1>1, <1>2 DEF Report
<1>7. pc' = IF Changed(Flag(m), Cell(p)) THEN "push" ELSE "read"
  BY <1>6 DEF Report
<1>8. QED
  BY <1>1, <1>2, <1>3, <1>4, <1>5, <1>6, <1>7 DEF Report

LEMMA ReportTyped ==
    ASSUME Typed, Report
    PROVE  Typed'
<1>1. PICK m \in Packets, p \in 0..Raw-1, flag \in {0, 1} :
          /\ evdev # <<>> /\ evdev' = Tail(evdev)
          /\ rx' = p /\ cur_flag' = flag
          /\ blind' = (blind /\ m.key = "same")
          /\ astray' = (~m.alone \/ (astray /\ m.pos = {}))
          /\ pc' = IF Changed(flag, Cell(p)) THEN "push" ELSE "read"
          /\ UNCHANGED <<kernel, last_flag, last_x, pipe, player, multi>>
  BY ReportStep
<1>2. evdev' \in Seq(Packets) /\ Len(evdev') <= EvLen
  BY <1>1, Constants DEF Typed
<1>3. IsFiniteSet(Down(contact')) /\ lead' \subseteq Down(contact')
  BY <1>1 DEF Typed, kernel
<1>4. pc' \in {"read", "push", "again", "reopen"}
  BY <1>1
<1>5. blind' \in BOOLEAN /\ astray' \in BOOLEAN
  BY <1>1 DEF Typed, Packets
<1>6. QED
  BY <1>1, <1>2, <1>3, <1>4, <1>5 DEF Typed, kernel, player

LEMMA TypedNext == Typed /\ [Next]_vars => Typed'
<1> SUFFICES ASSUME Typed, [Next]_vars PROVE Typed'
  OBVIOUS
<1>1. ASSUME NEW f \in Fingers, NEW p \in 0..Raw, Touch(f, p) PROVE Typed'
  BY <1>1, TouchTyped
<1>2. CASE Lose
  <2>1. Down(contact') = {}
    BY <1>2 DEF Lose, Down
  <2>2. IsFiniteSet(Down(contact')) /\ lead' \subseteq Down(contact')
    BY <1>2, <2>1, FS_EmptySet DEF Lose
  <2>3. /\ 0 \in 0..Raw-1 /\ Raw \in 0..Raw /\ losses' \in 0..MaxLosses /\ 0 <= EvLen
    BY <1>2, Constants DEF Lose, Typed
  <2>4. contact' \in [Fingers -> 0..Raw] /\ slot' \in [Fingers -> 0..Raw-1] /\ evdev' \in Seq(Packets) /\ Len(evdev') <= EvLen
    BY <1>2, <2>3 DEF Lose, Up
  <2>5. QED
    BY <1>2, <2>2, <2>3, <2>4 DEF Lose, Typed, player
<1>3. CASE Report
  BY <1>3, ReportTyped
<1>4. CASE Push
  <2>1. Cell(rx) \in 0..Size-1
    BY CellType DEF Typed
  <2>2. [flag |-> cur_flag, x |-> Cell(rx)] \in Frames
    BY <2>1 DEF Frames, Typed
  <2>3. pipe' \in Seq(Frames) /\ Len(pipe') <= PipeLen
    BY <1>4, <2>2, Constants DEF Push, Typed
  <2>4. pc' \in {"read", "push", "again", "reopen"}
    BY <1>4 DEF Push
  <2>5. last_flag' \in {-1, 0, 1} /\ last_x' \in 0..Size-1
    BY <1>4, <2>1 DEF Push, Typed
  <2>6. QED
    BY <1>4, <2>3, <2>4, <2>5 DEF Push, Typed, kernel, player
<1>5. CASE PushAgain
  <2>1. [flag |-> 1, x |-> last_x] \in Frames
    BY DEF Frames, Typed
  <2>2. pipe' \in Seq(Frames) /\ Len(pipe') <= PipeLen
    BY <1>5, <2>1, Constants DEF PushAgain, Typed
  <2>3. QED
    BY <1>5, <2>2 DEF PushAgain, Typed, kernel, player
<1>6. CASE Reopen
  BY <1>6 DEF Reopen, Typed, kernel, player
<1>7. CASE ReadFrame
  <2>1. pipe[1] \in Frames /\ Head(pipe) = pipe[1]
    BY <1>7 DEF ReadFrame, Typed
  <2>2. pipe' \in Seq(Frames) /\ Len(pipe') <= PipeLen
    BY <1>7, Constants DEF ReadFrame, Typed
  <2>3. hyst' \in 0..2 /\ rbp_x' \in 0..Size-1 /\ downs' \in Nat
    BY <1>7, <2>1 DEF ReadFrame, Typed, Frames
  <2>4. QED
    BY <1>7, <2>2, <2>3 DEF ReadFrame, Typed, kernel, reader
<1>8. CASE UNCHANGED vars
  BY <1>8 DEF vars, Typed, kernel, reader, player
<1>9. QED
  BY <1>1, <1>2, <1>3, <1>4, <1>6, <1>7, <1>8, <1>5 DEF Next, Reader

-----------------------------------------------------------------------------
(* The pipe and the debouncing behind it.                                  *)

\* What the reader thinks it told is at the end of the pipe or with rbp, and
\* is what the last packet said unless a frame is due.
PipeInv ==
    /\ pipe = <<>> => rbp_x = last_x /\ (hyst # 0 <=> last_flag = 1)
    /\ pipe # <<>> => pipe[Len(pipe)] = [flag |-> last_flag, x |-> last_x]
    /\ last_flag = -1 => pipe = <<>> /\ downs = 0 /\ hyst = 0
    /\ pc # "push" => /\ cur_flag = IF last_flag = -1 THEN 0 ELSE last_flag
                      /\ last_x = Cell(rx)
    /\ pc = "again" => last_flag = 1

\* A touch-down begins with frame i of a pipe that rbp reads in state h.
Starts(q, h, i) ==
    q[i].flag = 1 /\ IF i = 1 THEN h = 0 ELSE q[i - 1].flag = 0

\* The frame at i is, or is about to be, one with a contact.
Doubled(q, p, i) == IF i <= Len(q) THEN q[i].flag = 1 ELSE p = "again"

\* The first frame of a touch-down is followed by a second one, but for the
\* first touch-down of all.
TapInv ==
    /\ hyst = 1 => downs = 1 \/ Doubled(pipe, pc, 1)
    /\ \A i \in 1..Len(pipe) :
          Starts(pipe, hyst, i) => Doubled(pipe, pc, i + 1) \/ (i = 1 /\ downs = 0)

\* f[i] is a bound on the touch-downs rbp has counted after the first i frames
\* of the pipe.
Account(f, q, h, d) ==
    /\ f \in [0..Len(q) -> Nat] /\ f[0] = d
    /\ \A i, j \in 0..Len(q) : i <= j => f[i] <= f[j]
    /\ \A i \in 1..Len(q) : Starts(q, h, i) => f[i - 1] < f[i]

\* Each packet, read or not, has at most one frame due that is not a second.
Due(p) == IF p = "push" THEN 1 ELSE 0

\* rbp counts no more touch-downs than there were changes of the contacts.
Budget ==
    \E f : /\ Account(f, pipe, hyst, downs)
           /\ f[Len(pipe)] + Len(evdev) + Due(pc) <= touches

PlayInv == PipeInv /\ TapInv /\ Budget

LEMMA AccountAppends ==
    ASSUME NEW q \in Seq(Frames), NEW x \in Frames,
           NEW f, NEW h, NEW d \in Nat, NEW e \in Nat, Account(f, q, h, d),
           Starts(Append(q, x), h, Len(q) + 1) => e = 1
    PROVE  \E g : Account(g, Append(q, x), h, d) /\ g[Len(q) + 1] = f[Len(q)] + e
<1> DEFINE r == Append(q, x)
<1>1. PICK n \in Nat : n = Len(q)
  OBVIOUS
<1>2. Len(r) = n + 1 /\ r[n + 1] = x /\ \A i \in 1..n : r[i] = q[i]
  BY <1>1
<1> HIDE DEF r
<1>3. /\ f \in [0..n -> Nat] /\ f[0] = d
      /\ \A i, j \in 0..n : i <= j => f[i] <= f[j]
      /\ \A i \in 1..n : Starts(q, h, i) => f[i - 1] < f[i]
  BY <1>1 DEF Account
<1>4. PICK g : g = [i \in 0..n+1 |-> IF i = n + 1 THEN f[n] + e ELSE f[i]]
  OBVIOUS
<1>5. n \in 0..n /\ f[n] \in Nat /\ f[n] + e \in Nat
  BY <1>3
<1>6. /\ g \in [0..n+1 -> Nat] /\ g[n + 1] = f[n] + e
      /\ \A i \in 0..n : g[i] = f[i]
  BY <1>3, <1>4, <1>5
<1>7. ASSUME NEW i \in 0..n+1, NEW j \in 0..n+1, i <= j PROVE g[i] <= g[j]
  <2>1. CASE j \in 0..n
    BY <1>3, <1>6, <1>7, <2>1
  <2>2. CASE i \in 0..n /\ j = n + 1
    BY <1>3, <1>5, <1>6, <2>2
  <2>3. CASE i = n + 1 /\ j = n + 1
    BY <1>5, <1>6, <2>3
  <2>4. QED
    BY <1>7, <2>1, <2>2, <2>3
<1>8. ASSUME NEW i \in 1..n+1, Starts(r, h, i) PROVE g[i - 1] < g[i]
  <2>1. CASE i \in 1..n
    <3>1. Starts(q, h, i)
      BY <1>2, <1>8, <2>1 DEF Starts
    <3>2. f[i - 1] < f[i] /\ i - 1 \in 0..n /\ i \in 0..n
      BY <1>3, <2>1, <3>1
    <3>3. QED
      BY <1>6, <3>2
  <2>2. CASE i = n + 1
    <3>1. e = 1
      BY <1>1, <1>8, <2>2 DEF r
    <3>2. g[i - 1] = f[n] /\ g[i] = f[n] + 1
      BY <1>5, <1>6, <2>2, <3>1
    <3>3. QED
      BY <1>5, <3>2
  <2>3. QED
    BY <2>1, <2>2
<1>9. g[0] = d
  BY <1>3, <1>6
<1>10. Account(g, r, h, d)
  BY <1>2, <1>6, <1>7, <1>8, <1>9 DEF Account
<1>11. g[Len(q) + 1] = f[Len(q)] + e
  BY <1>1, <1>6
<1>12. QED
  BY <1>10, <1>11 DEF r

LEMMA AccountRemoves ==
    ASSUME NEW q \in Seq(Frames), q # <<>>, NEW r, r = Tail(q),
           NEW f, NEW h, NEW d \in Nat, Account(f, q, h, d), NEW k, k = 0 => q[1].flag = 0,
           NEW b \in Nat, b = IF Starts(q, h, 1) THEN d + 1 ELSE d
    PROVE  \E g : Account(g, r, k, b) /\ g[Len(r)] <= f[Len(q)]
<1>1. PICK n \in Nat : n = Len(r)
  <2>1. Len(r) \in Nat
    OBVIOUS
  <2>2. QED
    BY <2>1
<1>2. Len(q) = n + 1 /\ \A i \in 1..n : r[i] = q[i + 1]
  BY <1>1
<1>3. /\ f \in [0..n+1 -> Nat] /\ f[0] = d
      /\ \A i, j \in 0..n+1 : i <= j => f[i] <= f[j]
      /\ \A i \in 1..n+1 : Starts(q, h, i) => f[i - 1] < f[i]
  BY <1>2 DEF Account
<1>4. PICK g : g = [i \in 0..n |-> IF i = 0 THEN b ELSE f[i + 1]]
  OBVIOUS
<1>5. /\ g \in [0..n -> Nat] /\ g[0] = b
      /\ \A i \in 1..n : g[i] = f[i + 1]
  BY <1>3, <1>4
<1>6. b <= f[1] /\ f[1] \in Nat
  <2>1. f[0] <= f[1] /\ f[1] \in Nat
    BY <1>3
  <2>2. CASE Starts(q, h, 1)
    <3>1. f[1 - 1] < f[1] /\ 1 - 1 = 0
      BY <1>3, <2>2
    <3>2. QED
      BY <1>3, <2>1, <2>2, <3>1
  <2>3. CASE ~Starts(q, h, 1)
    BY <1>3, <2>1, <2>3
  <2>4. QED
    BY <2>2, <2>3
<1>7. ASSUME NEW i \in 0..n, NEW j \in 0..n, i <= j PROVE g[i] <= g[j]
  <2>1. CASE i \in 1..n
    <3>1. j \in 1..n /\ i + 1 \in 0..n+1 /\ j + 1 \in 0..n+1 /\ i + 1 <= j + 1
      BY <1>7, <2>1
    <3>2. f[i + 1] <= f[j + 1]
      BY <1>3, <3>1
    <3>3. QED
      BY <1>5, <2>1, <3>1, <3>2
  <2>2. CASE i = 0 /\ j \in 1..n
    <3>1. 1 \in 0..n+1 /\ j + 1 \in 0..n+1 /\ 1 <= j + 1
      BY <2>2
    <3>2. f[1] <= f[j + 1] /\ f[j + 1] \in Nat
      BY <1>3, <3>1
    <3>3. QED
      BY <1>5, <1>6, <2>2, <3>2
  <2>3. CASE i = 0 /\ j = 0
    BY <1>5, <2>3
  <2>4. QED
    BY <1>7, <2>1, <2>2, <2>3
<1>8. ASSUME NEW i \in 1..n, Starts(r, k, i) PROVE g[i - 1] < g[i]
  <2>1. i + 1 \in 1..n+1 /\ r[i] = q[i + 1] /\ i + 1 # 1 /\ (i + 1) - 1 = i
    BY <1>2
  <2>2. q[i].flag = 0
    <3>1. CASE i = 1
      BY <1>8, <3>1 DEF Starts
    <3>2. CASE i # 1
      <4>1. i - 1 \in 1..n /\ r[i - 1] = q[i]
        BY <1>2, <3>2
      <4>2. QED
        BY <1>8, <3>2, <4>1 DEF Starts
    <3>3. QED
      BY <3>1, <3>2
  <2>3. Starts(q, h, i + 1)
    BY <1>8, <2>1, <2>2 DEF Starts
  <2>4. f[i] < f[i + 1]
    BY <1>3, <2>1, <2>3
  <2>5. CASE i = 1
    BY <1>3, <1>5, <1>6, <2>1, <2>4, <2>5
  <2>6. CASE i # 1
    <3>1. i - 1 \in 1..n /\ g[i - 1] = f[i] /\ g[i] = f[i + 1]
      BY <1>5, <2>6
    <3>2. QED
      BY <2>4, <3>1
  <2>7. QED
    BY <2>5, <2>6
<1>9. Account(g, r, k, b)
  BY <1>1, <1>5, <1>7, <1>8 DEF Account
<1>10. g[n] <= f[n + 1]
  BY <1>3, <1>5, <1>6
<1>11. QED
  BY <1>1, <1>2, <1>9, <1>10

LEMMA PlayInit == Init => PlayInv
<1> SUFFICES ASSUME Init PROVE PlayInv
  OBVIOUS
<1>1. Cell(0) = 0
  <2>1. 0 * Size = 0 /\ 0 \div Raw = 0
    BY Constants
  <2>2. QED
    BY <2>1 DEF Cell
<1>2. pipe = <<>> /\ Len(pipe) = 0 /\ Len(evdev) = 0
  BY DEF Init
<1>3. PipeInv
  <2>1. pc = "read" /\ last_flag = -1 /\ cur_flag = 0 /\ rx = 0 /\ last_x = 0 /\ rbp_x = 0
        /\ hyst = 0 /\ downs = 0
    BY DEF Init
  <2>2. QED
    BY <1>1, <1>2, <2>1 DEF PipeInv
<1>4. TapInv
  BY <1>2 DEF Init, TapInv
<1>5. PICK f : f = [i \in 0..0 |-> 0]
  OBVIOUS
<1>6. Account(f, pipe, hyst, downs)
  BY <1>2, <1>5 DEF Init, Account
<1>7. f[Len(pipe)] + Len(evdev) + Due(pc) <= touches
  BY <1>2, <1>5 DEF Init, Due
<1>8. Budget
  BY <1>6, <1>7 DEF Budget
<1>9. QED
  BY <1>3, <1>4, <1>8 DEF PlayInv

\* A packet more is a change of the contacts more.
LEMMA TouchPlays ==
    ASSUME Typed, PlayInv, NEW f \in Fingers, NEW p \in 0..Raw, Touch(f, p)
    PROVE  PlayInv'
<1>0. PICK y, z \in Packets : Touched(f, p, y, z)
  BY TouchStep
<1>1. /\ UNCHANGED <<reader, pipe, player>> /\ touches' = touches + 1
      /\ \/ evdev' = evdev
         \/ Len(evdev) < EvLen /\ evdev' = Append(evdev, y)
         \/ Len(evdev) = EvLen /\ evdev' = <<z>>
  BY <1>0 DEF Touched
<1>2. PipeInv'
  BY <1>1 DEF PlayInv, PipeInv, reader, player, Cell
<1>3. TapInv'
  BY <1>1 DEF PlayInv, TapInv, reader, player
<1>4. Len(evdev') <= Len(evdev) + 1 /\ Len(evdev') \in Nat /\ Len(evdev) \in Nat
  <2>1. CASE evdev' = evdev
    BY <2>1 DEF Typed
  <2>2. CASE evdev' = Append(evdev, y)
    BY <2>2 DEF Typed
  <2>3. CASE Len(evdev) = EvLen /\ evdev' = <<z>>
    BY <2>3, Constants DEF Typed
  <2>4. QED
    BY <1>1, <2>1, <2>2, <2>3
<1>5. PICK g : Account(g, pipe, hyst, downs) /\ g[Len(pipe)] + Len(evdev) + Due(pc) <= touches
  BY DEF PlayInv, Budget
<1>6. g[Len(pipe)] \in Nat
  BY <1>5 DEF Account, Typed
<1>7. g[Len(pipe')] + Len(evdev') + Due(pc') <= touches'
  <2>1. UNCHANGED <<pc, pipe>> /\ Due(pc) \in Nat /\ touches \in Nat
    BY <1>1 DEF Typed, Due, reader
  <2>2. QED
    BY <1>1, <1>4, <1>5, <1>6, <2>1
<1>8. Account(g, pipe', hyst', downs')
  BY <1>1, <1>5 DEF player
<1>9. Budget'
  BY <1>7, <1>8 DEF Budget
<1>10. QED
  BY <1>2, <1>3, <1>9 DEF PlayInv

\* A frame that enters the pipe of reader_thread.
LEMMA PushTaps ==
    ASSUME Typed, PipeInv, TapInv, NEW x \in Frames,
           pipe' = Append(pipe, x), UNCHANGED player,
           pc = "again" => x.flag = 1,
           x.flag = 1 /\ last_flag = 0 => pc' = "again"
    PROVE  TapInv'
<1>1. PICK r, n : r = pipe' /\ n = Len(pipe) /\ n \in Nat
  <2>1. Len(pipe) \in Nat
    BY DEF Typed
  <2>2. QED
    BY <2>1
<1>2. /\ Len(r) = n + 1 /\ r[n + 1] = x
      /\ \A i \in 1..n : r[i] = pipe[i] /\ pipe[i] \in Frames
  BY <1>1 DEF Typed
<1>3. ASSUME hyst = 1 PROVE downs = 1 \/ Doubled(r, pc', 1)
  <2>1. CASE n = 0
    BY <1>1, <1>2, <1>3, <2>1 DEF TapInv, Doubled
  <2>2. CASE n > 0
    BY <1>1, <1>2, <1>3, <2>2 DEF TapInv, Doubled
  <2>3. QED
    BY <1>1, <2>1, <2>2
<1>4. ASSUME NEW i \in 1..n, Starts(r, hyst, i)
      PROVE  Doubled(r, pc', i + 1) \/ (i = 1 /\ downs = 0)
  <2>1. Starts(pipe, hyst, i)
    <3>1. r[i] = pipe[i] /\ (i # 1 => r[i - 1] = pipe[i - 1])
      BY <1>1, <1>2
    <3>2. QED
      BY <1>4, <3>1 DEF Starts
  <2>2. Doubled(pipe, pc, i + 1) \/ (i = 1 /\ downs = 0)
    BY <1>1, <2>1 DEF TapInv
  <2>3. Doubled(pipe, pc, i + 1) => r[i + 1].flag = 1
    <3>1. CASE i + 1 <= n
      BY <1>1, <1>2, <3>1 DEF Doubled
    <3>2. CASE i = n
      BY <1>1, <1>2, <3>2 DEF Doubled
    <3>3. QED
      BY <1>1, <3>1, <3>2
  <2>4. i + 1 <= Len(r)
    BY <1>1, <1>2
  <2>5. QED
    BY <2>2, <2>3, <2>4 DEF Doubled
<1>5. ASSUME Starts(r, hyst, n + 1)
      PROVE  Doubled(r, pc', n + 2) \/ (n + 1 = 1 /\ downs = 0)
  <2>1. x.flag = 1
    BY <1>2, <1>5 DEF Starts
  <2>2. last_flag = 0 => Doubled(r, pc', n + 2)
    BY <1>1, <1>2, <2>1 DEF Doubled
  <2>3. CASE n = 0
    <3>1. pipe = <<>> /\ hyst = 0
      <4>1. pipe = <<>>
        BY <1>1, <2>3, LengthZero DEF Typed
      <4>2. n + 1 = 1
        BY <2>3
      <4>3. hyst = 0
        BY <1>5, <4>2 DEF Starts
      <4>4. QED
        BY <4>1, <4>3
    <3>2. last_flag = 0 \/ last_flag = -1
      BY <3>1 DEF PipeInv, Typed
    <3>3. QED
      BY <2>2, <2>3, <3>2 DEF PipeInv
  <2>4. CASE n > 0
    <3>1. pipe # <<>> /\ pipe[n].flag = last_flag
      BY <1>1, <2>4 DEF PipeInv
    <3>2. r[n].flag = 0 /\ r[n] = pipe[n]
      BY <1>1, <1>2, <1>5, <2>4 DEF Starts
    <3>3. QED
      BY <2>2, <3>1, <3>2
  <2>5. QED
    BY <1>1, <2>3, <2>4
<1>6. \A i \in 1..n+1 : Starts(r, hyst, i) => Doubled(r, pc', i + 1) \/ (i = 1 /\ downs = 0)
  <2>1. SUFFICES ASSUME NEW i \in 1..n+1, Starts(r, hyst, i)
                 PROVE  Doubled(r, pc', i + 1) \/ (i = 1 /\ downs = 0)
    OBVIOUS
  <2>2. CASE i \in 1..n
    BY <1>4, <2>1, <2>2
  <2>3. CASE i = n + 1
    <3>1. (n + 1) + 1 = n + 2
      BY <1>1
    <3>2. QED
      BY <1>5, <2>1, <2>3, <3>1
  <2>4. QED
    BY <1>1, <2>2, <2>3
<1>7. hyst' = hyst /\ downs' = downs /\ Len(pipe') = n + 1
  BY <1>1, <1>2 DEF player
<1>8. QED
  BY <1>1, <1>3, <1>6, <1>7 DEF TapInv

\* A frame is paid for by the packet it comes from, or does not begin a contact.
LEMMA PushCounts ==
    ASSUME Typed, PipeInv, Budget, NEW x \in Frames, NEW e \in {0, 1},
           pipe' = Append(pipe, x), UNCHANGED <<player, touches>>,
           evdev' = evdev, Due(pc') + e <= Due(pc),
           x.flag = 1 /\ last_flag # 1 => e = 1
    PROVE  Budget'
<1>1. PICK f : Account(f, pipe, hyst, downs) /\ f[Len(pipe)] + Len(evdev) + Due(pc) <= touches
  BY DEF Budget
<1>2. PICK r : r = pipe' /\ r = Append(pipe, x)
  OBVIOUS
<1>3. PICK n \in Nat : n = Len(pipe)
  BY DEF Typed
<1>4. /\ Len(r) = n + 1 /\ r[n + 1] = x
      /\ \A i \in 1..n : r[i] = pipe[i] /\ pipe[i] \in Frames
  BY <1>2, <1>3 DEF Typed
<1>5. ASSUME Starts(r, hyst, n + 1) PROVE e = 1
  <2>1. x.flag = 1
    BY <1>4, <1>5 DEF Starts
  <2>2. CASE n = 0
    <3>1. pipe = <<>> /\ hyst = 0
      <4>1. pipe = <<>>
        BY <1>3, <2>2, LengthZero DEF Typed
      <4>2. n + 1 = 1
        BY <2>2
      <4>3. hyst = 0
        BY <1>5, <4>2 DEF Starts
      <4>4. QED
        BY <4>1, <4>3
    <3>2. QED
      BY <2>1, <3>1 DEF PipeInv
  <2>3. CASE n > 0
    <3>1. pipe # <<>> /\ pipe[n].flag = last_flag
      BY <1>3, <2>3 DEF PipeInv
    <3>2. r[n].flag = 0 /\ r[n] = pipe[n]
      BY <1>3, <1>4, <1>5, <2>3 DEF Starts
    <3>3. QED
      BY <2>1, <3>1, <3>2
  <2>4. QED
    BY <1>3, <2>2, <2>3
<1>6. downs \in Nat /\ pipe \in Seq(Frames)
  BY DEF Typed
<1>7. PICK g : Account(g, r, hyst, downs) /\ g[Len(r)] = f[n] + e
  <2>1. Starts(Append(pipe, x), hyst, Len(pipe) + 1) => e = 1
    BY <1>2, <1>3, <1>5
  <2>2. e \in Nat
    OBVIOUS
  <2>3. \E g : Account(g, Append(pipe, x), hyst, downs) /\ g[Len(pipe) + 1] = f[Len(pipe)] + e
    BY <1>1, <1>6, <2>1, <2>2, AccountAppends
  <2>4. QED
    BY <1>2, <1>3, <1>4, <2>3
<1>8. f[n] \in Nat /\ f[n] + Len(evdev) + Due(pc) <= touches
  BY <1>1, <1>3 DEF Account
<1>9. Len(evdev) \in Nat /\ Len(evdev') = Len(evdev) /\ touches \in Nat
      /\ Due(pc) \in Nat /\ Due(pc') \in Nat
  BY Constants DEF Typed, Due
<1>10. g[Len(r)] + Len(evdev') + Due(pc') <= touches
  BY <1>7, <1>8, <1>9
<1>11. hyst' = hyst /\ downs' = downs /\ touches' = touches
  BY DEF player
<1>12. QED
  BY <1>2, <1>7, <1>10, <1>11 DEF Budget

LEMMA ReportPlays ==
    ASSUME Typed, PlayInv, Report
    PROVE  PlayInv'
<1>1. PICK m \in Packets, p \in 0..Raw-1, flag \in {0, 1} :
          /\ pc = "read" /\ evdev # <<>> /\ evdev' = Tail(evdev)
          /\ rx' = p /\ cur_flag' = flag
          /\ pc' = IF Changed(flag, Cell(p)) THEN "push" ELSE "read"
          /\ UNCHANGED <<touches, last_flag, last_x, pipe, player>>
  BY ReportStep DEF kernel
<1>2. PipeInv'
  <2>1. pc' # "push" => flag = last_flag /\ Cell(p) = last_x
    BY <1>1 DEF Changed
  <2>2. pc' # "push" => last_flag # -1
    BY <2>1
  <2>3. pc' # "again" /\ Cell(rx)' = Cell(p)
    BY <1>1 DEF Cell
  <2>4. QED
    BY <1>1, <2>1, <2>2, <2>3 DEF PlayInv, PipeInv, player
<1>3. TapInv'
  <2>1. pc # "again" /\ pc' # "again"
    BY <1>1
  <2>2. QED
    BY <1>1, <2>1 DEF PlayInv, TapInv, Doubled, player
<1>4. PICK f : Account(f, pipe, hyst, downs) /\ f[Len(pipe)] + Len(evdev) + Due(pc) <= touches
  BY DEF PlayInv, Budget
<1>5. f[Len(pipe)] \in Nat /\ Due(pc) = 0 /\ Due(pc') \in 0..1
  BY <1>1, <1>4 DEF Account, Typed, Due
<1>6. Len(evdev') + 1 = Len(evdev) /\ Len(evdev) \in Nat /\ Len(evdev') \in Nat
  BY <1>1 DEF Typed
<1>7. f[Len(pipe')] + Len(evdev') + Due(pc') <= touches'
  BY <1>1, <1>4, <1>5, <1>6, Constants DEF Typed
<1>8. Account(f, pipe', hyst', downs')
  BY <1>1, <1>4 DEF player
<1>9. Budget'
  BY <1>7, <1>8 DEF Budget
<1>10. QED
  BY <1>2, <1>3, <1>9 DEF PlayInv

LEMMA PushPlays ==
    ASSUME Typed, PlayInv, Push
    PROVE  PlayInv'
<1>1. PICK y \in Frames : y = [flag |-> cur_flag, x |-> Cell(rx)] /\ y.flag = cur_flag
  <2>1. [flag |-> cur_flag, x |-> Cell(rx)] \in Frames
    BY CellType DEF Frames, Typed
  <2>2. QED
    BY <2>1
<1>2. /\ pc = "push" /\ pc' = IF TouchDown(cur_flag) THEN "again" ELSE "read"
      /\ pipe' = Append(pipe, y) /\ last_flag' = cur_flag /\ last_x' = Cell(rx)
      /\ UNCHANGED <<evdev, touches, rx, cur_flag, player>>
  BY <1>1 DEF Push, kernel
<1>3. TapInv'
  BY <1>1, <1>2, PushTaps DEF PlayInv, TouchDown
<1>4. Due(pc') + 1 <= Due(pc)
  BY <1>2 DEF Due
<1>5. Budget'
  BY <1>1, <1>2, <1>4, PushCounts DEF PlayInv
<1>6. pipe' # <<>> /\ pipe'[Len(pipe')] = y
  BY <1>2 DEF Typed
<1>7. PipeInv'
  <2>1. cur_flag \in {0, 1} /\ last_x' = Cell(rx)'
    BY <1>2 DEF Typed, Cell
  <2>2. pc' = "again" => last_flag' = 1
    BY <1>2 DEF TouchDown
  <2>3. y = [flag |-> last_flag', x |-> last_x']
    BY <1>1, <1>2
  <2>4. QED
    BY <1>2, <1>6, <2>1, <2>2, <2>3 DEF PipeInv
<1>8. QED
  BY <1>3, <1>5, <1>7 DEF PlayInv

LEMMA PushAgainPlays ==
    ASSUME Typed, PlayInv, PushAgain
    PROVE  PlayInv'
<1>1. /\ pc = "again" /\ pc' = "read" /\ last_flag = 1
      /\ pipe' = Append(pipe, [flag |-> 1, x |-> last_x])
      /\ UNCHANGED <<evdev, touches, rx, cur_flag, last_flag, last_x, player>>
  BY DEF PushAgain, PlayInv, PipeInv, kernel
<1>2. PICK y \in Frames : y = [flag |-> 1, x |-> last_x] /\ y.flag = 1
  <2>1. [flag |-> 1, x |-> last_x] \in Frames
    BY DEF Frames, Typed
  <2>2. QED
    BY <2>1
<1>3. TapInv'
  BY <1>1, <1>2, PushTaps DEF PlayInv
<1>4. Due(pc') + 0 <= Due(pc)
  BY <1>1 DEF Due
<1>5. Budget'
  BY <1>1, <1>2, <1>4, PushCounts DEF PlayInv
<1>6. pipe' # <<>> /\ pipe'[Len(pipe')] = y
  <2>1. pipe' = Append(pipe, y) /\ pipe \in Seq(Frames)
    BY <1>1, <1>2 DEF Typed
  <2>2. QED
    BY <2>1
<1>7. PipeInv'
  BY <1>1, <1>2, <1>6 DEF PlayInv, PipeInv, Cell
<1>8. QED
  BY <1>3, <1>5, <1>7 DEF PlayInv

LEMMA ReadPlays ==
    ASSUME Typed, PlayInv, ReadFrame
    PROVE  PlayInv'
<1>1. PICK fr \in Frames, r \in Seq(Frames) :
          fr = pipe[1] /\ fr = Head(pipe) /\ r = pipe' /\ r = Tail(pipe)
  <2>1. pipe[1] \in Frames /\ Head(pipe) = pipe[1] /\ Tail(pipe) \in Seq(Frames)
    BY DEF ReadFrame, Typed
  <2>2. QED
    BY <2>1 DEF ReadFrame
<1>2. /\ pipe # <<>> /\ pipe \in Seq(Frames)
      /\ hyst' = IF fr.flag = 0 THEN 0 ELSE IF hyst = 0 THEN 1 ELSE 2
      /\ rbp_x' = fr.x
      /\ downs' = IF fr.flag = 1 /\ hyst = 0 THEN downs + 1 ELSE downs
      /\ UNCHANGED <<evdev, touches, reader>>
      /\ fr.flag \in {0, 1} /\ downs \in Nat
  BY <1>1 DEF ReadFrame, kernel, Typed, Frames
<1>3. PICK n \in Nat : n = Len(r)
  <2>1. Len(r) \in Nat
    BY <1>1, <1>2
  <2>2. QED
    BY <2>1
<1>4. Len(pipe) = n + 1 /\ \A i \in 1..n : r[i] = pipe[i + 1]
  BY <1>1, <1>2, <1>3
<1>5. Starts(pipe, hyst, 1) <=> fr.flag = 1 /\ hyst = 0
  BY <1>1 DEF Starts
<1>6. last_flag # -1
  BY <1>2 DEF PlayInv, PipeInv
<1>7. PipeInv'
  <2>1. CASE n = 0
    <3>1. pipe[Len(pipe)] = fr /\ fr.flag = last_flag /\ fr.x = last_x
      BY <1>1, <1>2, <1>4, <2>1 DEF PlayInv, PipeInv
    <3>2. r = <<>>
      BY <1>1, <1>2, <1>3, <2>1
    <3>3. QED
      BY <1>1, <1>2, <1>6, <3>1, <3>2 DEF PlayInv, PipeInv, Cell, reader
  <2>2. CASE n > 0
    <3>1. r # <<>> /\ r[Len(r)] = pipe[Len(pipe)]
      BY <1>3, <1>4, <2>2
    <3>2. QED
      BY <1>1, <1>2, <1>6, <3>1 DEF PlayInv, PipeInv, Cell, reader
  <2>3. QED
    BY <2>1, <2>2
<1>8. TapInv'
  <2>1. ASSUME hyst' = 1 PROVE downs' = 1 \/ Doubled(r, pc, 1)
    <3>1. Starts(pipe, hyst, 1) /\ downs' = downs + 1
      BY <1>2, <1>5, <2>1
    <3>2. Doubled(pipe, pc, 1 + 1) \/ downs = 0
      BY <1>4, <3>1 DEF PlayInv, TapInv
    <3>3. Doubled(pipe, pc, 1 + 1) => Doubled(r, pc, 1)
      BY <1>3, <1>4 DEF Doubled
    <3>4. QED
      BY <3>1, <3>2, <3>3
  <2>2. ASSUME NEW i \in 1..n, Starts(r, hyst', i) PROVE Doubled(r, pc, i + 1)
    <3>1. i + 1 \in 1..n+1 /\ r[i] = pipe[i + 1] /\ i + 1 # 1 /\ (i + 1) - 1 = i
      BY <1>4
    <3>2. pipe[i].flag = 0
      <4>1. CASE i = 1
        BY <1>1, <1>2, <2>2, <4>1 DEF Starts
      <4>2. CASE i # 1
        <5>1. i - 1 \in 1..n /\ r[i - 1] = pipe[i]
          BY <1>4, <4>2
        <5>2. QED
          BY <2>2, <4>2, <5>1 DEF Starts
      <4>3. QED
        BY <4>1, <4>2
    <3>3. Starts(pipe, hyst, i + 1)
      BY <2>2, <3>1, <3>2 DEF Starts
    <3>4. Doubled(pipe, pc, (i + 1) + 1)
      BY <1>4, <3>1, <3>3 DEF PlayInv, TapInv
    <3>5. QED
      BY <1>3, <1>4, <3>4 DEF Doubled
  <2>3. pc' = pc
    BY <1>2 DEF reader
  <2>4. QED
    BY <1>1, <1>3, <2>1, <2>2, <2>3 DEF TapInv
<1>9. Budget'
  <2>1. PICK f : Account(f, pipe, hyst, downs) /\ f[Len(pipe)] + Len(evdev) + Due(pc) <= touches
    BY DEF PlayInv, Budget
  <2>2. PICK k, b \in Nat : k = hyst' /\ b = downs'
    BY <1>2
  <2>3. (k = 0 => pipe[1].flag = 0) /\ b = IF Starts(pipe, hyst, 1) THEN downs + 1 ELSE downs
    BY <1>1, <1>2, <1>5, <2>2
  <2>4. PICK g : Account(g, r, k, b) /\ g[Len(r)] <= f[Len(pipe)]
    BY <1>1, <1>2, <2>1, <2>2, <2>3, AccountRemoves
  <2>5. g[Len(r)] \in Nat /\ f[Len(pipe)] \in Nat
    BY <1>3, <1>4, <2>1, <2>4 DEF Account
  <2>6. Len(evdev) \in Nat /\ touches \in Nat /\ Due(pc) \in Nat
    BY Constants DEF Typed, Due
  <2>7. g[Len(r)] + Len(evdev) + Due(pc) <= touches
    BY <2>1, <2>4, <2>5, <2>6
  <2>8. QED
    BY <1>1, <1>2, <2>2, <2>4, <2>7 DEF Budget, reader
<1>10. QED
  BY <1>7, <1>8, <1>9 DEF PlayInv

LEMMA PlayNext == Typed /\ PlayInv /\ [Next]_vars => PlayInv'
<1> SUFFICES ASSUME Typed, PlayInv, [Next]_vars PROVE PlayInv'
  OBVIOUS
<1>1. ASSUME NEW f \in Fingers, NEW p \in 0..Raw, Touch(f, p) PROVE PlayInv'
  BY <1>1, TouchPlays
<1>2. ASSUME UNCHANGED <<touches, rx, cur_flag, last_flag, last_x, pipe, player>>,
             {pc, pc'} \cap {"push", "again"} = {}, evdev' \in Seq(Packets), Len(evdev') <= Len(evdev)
      PROVE  PlayInv'
  <2>1. PipeInv'
    BY <1>2 DEF PlayInv, PipeInv, player, Cell
  <2>2. TapInv'
    BY <1>2 DEF PlayInv, TapInv, Doubled, Starts, player
  <2>3. PICK f : Account(f, pipe, hyst, downs) /\ f[Len(pipe)] + Len(evdev) + Due(pc) <= touches
    BY DEF PlayInv, Budget
  <2>4. f[Len(pipe)] \in Nat
    BY <2>3 DEF Account, Typed
  <2>5. f[Len(pipe)] + Len(evdev') + Due(pc') <= touches
    <3>1. Due(pc) = 0 /\ Due(pc') = 0 /\ touches' = touches /\ touches \in Nat
      <4>1. pc # "push" /\ pc' # "push"
        BY <1>2
      <4>2. QED
        BY <1>2, <4>1, Constants DEF Typed, Due
    <3>2. Len(evdev) \in Nat /\ Len(evdev') \in Nat
      BY <1>2 DEF Typed
    <3>3. QED
      BY <1>2, <2>3, <2>4, <3>1, <3>2
  <2>6. Budget'
    BY <1>2, <2>3, <2>5 DEF Budget, player
  <2>7. QED
    BY <2>1, <2>2, <2>6 DEF PlayInv
<1>3. CASE Lose
  <2>1. evdev' = <<>> /\ evdev' \in Seq(Packets) /\ Len(evdev') <= Len(evdev)
    BY <1>3 DEF Lose, Typed
  <2>2. QED
    BY <1>2, <1>3, <2>1 DEF Lose
<1>4. CASE Report
  BY <1>4, ReportPlays
<1>5. CASE Push \/ PushAgain
  BY <1>5, PushPlays, PushAgainPlays
<1>6. CASE Reopen
  BY <1>2, <1>6 DEF Reopen, kernel, Typed
<1>7. CASE ReadFrame
  BY <1>7, ReadPlays
<1>8. CASE UNCHANGED vars
  <2>1. PipeInv' /\ TapInv'
    BY <1>8 DEF vars, reader, player, PlayInv, PipeInv, TapInv
  <2>2. Budget'
    BY <1>8 DEF vars, kernel, reader, player, PlayInv, Budget
  <2>3. QED
    BY <2>1, <2>2 DEF PlayInv
<1>9. QED
  BY <1>1, <1>3, <1>4, <1>5, <1>6, <1>7, <1>8 DEF Next, Reader

-----------------------------------------------------------------------------
(* What is on its way from the controller to reader_thread.                *)

\* q holds a packet of S; m is the last packet of S in it.
Holds(q, S) == \E i \in 1..Len(q) : q[i] \in S
Newest(q, S, m) ==
    /\ m \in S
    /\ \E i \in 1..Len(q) : q[i] = m /\ \A j \in i+1..Len(q) : q[j] \notin S

\* The last packet that decides about the position tells the kernel's or leads
\* the reader astray, and the last one that tells the contact tells whether a
\* finger is down; with no such packet the reader has it, unless it is astray
\* or lost packets made it blind.
KernelInv ==
    /\ pc = "reopen" => evdev = <<>> /\ blind /\ astray
    /\ ~multi => /\ AtMostOne(Down(contact))
                 /\ \A f \in Down(contact) : contact[f] = kpos
    /\ \A m : Newest(evdev, Minded, m) => ~m.alone \/ m.pos = {kpos}
    /\ ~Holds(evdev, Minded) => astray \/ rx = kpos
    /\ ~multi => \A m : Newest(evdev, Flagging, m)
                           => m.key = IF Down(contact) = {} THEN "up" ELSE "down"
    /\ ~multi /\ ~Holds(evdev, Flagging)
          => blind \/ (cur_flag = 1 <=> Down(contact) # {})

LEMMA EmptyHolds ==
    ASSUME NEW S
    PROVE  ~Holds(<<>>, S) /\ \A m : ~Newest(<<>>, S, m)
  BY DEF Holds, Newest

LEMMA Appended ==
    ASSUME NEW q \in Seq(Packets), NEW x \in Packets, NEW S
    PROVE  /\ x \in S => /\ Holds(Append(q, x), S)
                         /\ \A m : Newest(Append(q, x), S, m) => m = x
           /\ x \notin S => /\ Holds(q, S) => Holds(Append(q, x), S)
                            /\ \A m : Newest(Append(q, x), S, m) => Newest(q, S, m)
<1> DEFINE r == Append(q, x)
<1>1. PICK n \in Nat : n = Len(q)
  OBVIOUS
<1>2. Len(r) = n + 1 /\ r[n + 1] = x /\ \A i \in 1..n : r[i] = q[i]
  BY <1>1
<1> HIDE DEF r
<1>3. n + 1 \in 1..n+1 /\ \A i \in 1..n : i \in 1..n+1
  BY <1>1
<1>4. ASSUME x \in S PROVE Holds(r, S)
  BY <1>2, <1>3, <1>4 DEF Holds
<1>5. ASSUME x \in S, NEW m, Newest(r, S, m) PROVE m = x
  <2>1. PICK i \in 1..n+1 : r[i] = m /\ \A j \in i+1..n+1 : r[j] \notin S
    BY <1>2, <1>5 DEF Newest
  <2>2. i = n + 1
    <3>1. n + 1 \in i+1..n+1 => FALSE
      BY <1>2, <1>5, <2>1
    <3>2. QED
      BY <1>1, <3>1
  <2>3. QED
    BY <1>2, <2>1, <2>2
<1>6. ASSUME Holds(q, S) PROVE Holds(r, S)
  BY <1>1, <1>2, <1>3, <1>6 DEF Holds
<1>7. ASSUME x \notin S, NEW m, Newest(r, S, m) PROVE Newest(q, S, m)
  <2>1. PICK i \in 1..n+1 : r[i] = m /\ \A j \in i+1..n+1 : r[j] \notin S
    BY <1>2, <1>7 DEF Newest
  <2>2. m \in S
    BY <1>7 DEF Newest
  <2>3. i \in 1..n
    <3>1. i # n + 1
      BY <1>2, <1>7, <2>1, <2>2
    <3>2. QED
      BY <1>1, <3>1
  <2>4. q[i] = m /\ \A j \in i+1..n : q[j] \notin S
    <3>1. ASSUME NEW j \in i+1..n PROVE q[j] \notin S
      <4>1. j \in i+1..n+1 /\ r[j] = q[j]
        BY <1>1, <1>2, <2>3
      <4>2. QED
        BY <2>1, <4>1
    <3>2. QED
      BY <1>2, <2>1, <2>3, <3>1
  <2>5. QED
    BY <1>1, <2>2, <2>3, <2>4 DEF Newest
<1>8. QED
  BY <1>4, <1>5, <1>6, <1>7 DEF r

LEMMA Removed ==
    ASSUME NEW q \in Seq(Packets), q # <<>>, NEW S
    PROVE  /\ \A m : Newest(Tail(q), S, m) => Newest(q, S, m)
           /\ ~Holds(Tail(q), S) => IF q[1] \in S THEN Newest(q, S, q[1]) ELSE ~Holds(q, S)
<1> DEFINE r == Tail(q)
<1>1. Len(r) = Len(q) - 1 /\ Len(q) \in Nat \ {0} /\ \A i \in 1..Len(r) : r[i] = q[i + 1]
  OBVIOUS
<1> HIDE DEF r
<1>2. PICK n \in Nat : n = Len(r)
  BY <1>1
<1>3. Len(q) = n + 1 /\ \A i \in 1..n : r[i] = q[i + 1]
  BY <1>1, <1>2
<1>4. ASSUME NEW m, Newest(r, S, m) PROVE Newest(q, S, m)
  <2>1. PICK i \in 1..n : r[i] = m /\ \A j \in i+1..n : r[j] \notin S
    BY <1>2, <1>4 DEF Newest
  <2>2. i + 1 \in 1..n+1 /\ q[i + 1] = m
    BY <1>3, <2>1
  <2>3. ASSUME NEW j \in (i+1)+1..n+1 PROVE q[j] \notin S
    <3>1. j - 1 \in i+1..n /\ (j - 1) + 1 = j /\ r[j - 1] = q[j]
      BY <1>3
    <3>2. QED
      BY <2>1, <3>1
  <2>4. QED
    BY <1>3, <1>4, <2>2, <2>3 DEF Newest
<1>5. ASSUME ~Holds(r, S), NEW j \in 2..n+1 PROVE q[j] \notin S
  <2>1. j - 1 \in 1..n /\ r[j - 1] = q[j]
    BY <1>3
  <2>2. QED
    BY <1>2, <1>5, <2>1 DEF Holds
<1>6. ASSUME ~Holds(r, S), q[1] \in S PROVE Newest(q, S, q[1])
  <2>1. 1 \in 1..n+1 /\ \A j \in 1+1..n+1 : q[j] \notin S
    BY <1>5, <1>6
  <2>2. QED
    BY <1>3, <1>6, <2>1 DEF Newest
<1>7. ASSUME ~Holds(r, S), q[1] \notin S PROVE ~Holds(q, S)
  <2>1. ASSUME NEW i \in 1..n+1 PROVE q[i] \notin S
    <3>1. i = 1 \/ i \in 2..n+1
      OBVIOUS
    <3>2. QED
      BY <1>5, <1>7, <3>1
  <2>2. QED
    BY <1>3, <2>1 DEF Holds
<1>8. QED
  BY <1>4, <1>6, <1>7 DEF r

\* The only packet of a queue.
LEMMA Alone ==
    ASSUME NEW x, NEW S
    PROVE  /\ \A m : Newest(<<x>>, S, m) => m = x
           /\ x \in S => Holds(<<x>>, S)
<1>1. Len(<<x>>) = 1 /\ <<x>>[1] = x /\ \A i \in 1..1 : i = 1
  OBVIOUS
<1>2. QED
  BY <1>1 DEF Newest, Holds

LEMMA KernelInit == Init => KernelInv
<1> SUFFICES ASSUME Init PROVE KernelInv
  OBVIOUS
<1>1. Down(contact) = {} /\ evdev = <<>>
  BY DEF Init, Down
<1>2. /\ ~Holds(evdev, Minded) /\ \A m : ~Newest(evdev, Minded, m)
      /\ ~Holds(evdev, Flagging) /\ \A m : ~Newest(evdev, Flagging, m)
  BY <1>1, EmptyHolds
<1>3. pc # "reopen" /\ astray /\ cur_flag = 0
  BY DEF Init
<1>4. QED
  BY <1>1, <1>2, <1>3 DEF KernelInv, AtMostOne

LEMMA TouchKernel ==
    ASSUME Typed, Typed', KernelInv, NEW f \in Fingers, NEW p \in 0..Raw, Touch(f, p)
    PROVE  KernelInv'
<1>0. PICK y, z \in Packets : Touched(f, p, y, z)
  BY TouchStep
<1>1. /\ p # contact[f]
      /\ contact' = [contact EXCEPT ![f] = p]
      /\ ~multi' /\ p # Up => kpos' = p
      /\ multi' = ((multi \/ Cardinality(Down(contact')) > 1) /\ Down(contact') # {})
      /\ UNCHANGED <<losses, reader, pipe, player>>
      /\ y.track = IF p = Up THEN "up" ELSE IF contact[f] = Up THEN "down" ELSE "same"
      /\ y.key = IF Down(contact) = {} THEN "down"
                 ELSE IF Down(contact') = {} THEN "up" ELSE "same"
      /\ y.alone = ~multi' /\ z.alone = ~multi'
      /\ y.pos = {} => kpos' = kpos
      /\ ~multi' /\ y.pos # {} => y.pos = {kpos'}
      /\ ~multi' /\ z.pos # {} => z.pos = {kpos'}
      /\ (z.track = y.track /\ z.key = y.key)
         \/ (z.track = "same" /\ z.key \in {y.key, "same"})
      /\ \/ pc = "reopen" /\ UNCHANGED <<evdev, blind, astray>>
         \/ /\ pc # "reopen" /\ Len(evdev) < EvLen
            /\ evdev' = Append(evdev, y) /\ UNCHANGED <<blind, astray>>
         \/ /\ pc # "reopen" /\ Len(evdev) = EvLen
            /\ evdev' = <<z>> /\ blind' = TRUE /\ astray' = TRUE
  BY <1>0 DEF Touched
<1>2. contact \in [Fingers -> 0..Raw] /\ evdev \in Seq(Packets)
      /\ pc' = pc /\ rx' = rx /\ cur_flag' = cur_flag
  BY <1>1 DEF Typed, reader
<1>3. /\ f \in Down(contact') <=> p # Up
      /\ f \in Down(contact) <=> contact[f] # Up
      /\ \A g \in Fingers : g # f => (g \in Down(contact') <=> g \in Down(contact))
      /\ Down(contact) \subseteq Fingers /\ Down(contact') \subseteq Fingers
  BY <1>1, <1>2 DEF Down
<1>4. ASSUME ~multi', Down(contact') # {}
      PROVE  ~multi /\ AtMostOne(Down(contact)) /\ Down(contact') = {f} /\ p # Up
  <2>1. ~multi /\ AtMostOne(Down(contact)) /\ AtMostOne(Down(contact'))
    BY <1>1, <1>4, OneFinger DEF Typed, KernelInv
  <2>2. p # Up
    <3>1. SUFFICES ASSUME p = Up PROVE FALSE
      OBVIOUS
    <3>2. PICK g \in Down(contact') : TRUE
      BY <1>4
    <3>3. g # f /\ g \in Down(contact) /\ f \in Down(contact)
      BY <1>1, <1>3, <3>1
    <3>4. QED
      BY <2>1, <3>3 DEF AtMostOne
  <2>3. QED
    BY <1>3, <2>1, <2>2 DEF AtMostOne
<1>5. ~multi' => /\ AtMostOne(Down(contact'))
                 /\ \A g \in Down(contact') : contact'[g] = kpos'
  <2>1. SUFFICES ASSUME ~multi', Down(contact') # {}
                 PROVE  /\ AtMostOne(Down(contact'))
                        /\ \A g \in Down(contact') : contact'[g] = kpos'
    BY DEF AtMostOne
  <2>2. Down(contact') = {f} /\ kpos' = p /\ contact'[f] = p
    BY <1>1, <1>2, <1>4, <2>1
  <2>3. QED
    BY <2>2 DEF AtMostOne
\* What the packet says of the contact of a lone finger.
<1>6. ASSUME ~multi'
      PROVE  /\ y \in Flagging => y.key = IF Down(contact') = {} THEN "up" ELSE "down"
             /\ y \notin Flagging => ~multi /\ Down(contact) # {} /\ Down(contact') # {}
  <2>1. CASE Down(contact') = {}
    <3>1. Down(contact) # {}
      BY <1>1, <1>3, <2>1
    <3>2. y.key = "up" /\ y \in Flagging
      BY <1>1, <2>1, <3>1 DEF Flagging
    <3>3. QED
      BY <2>1, <3>2
  <2>2. CASE Down(contact') # {} /\ Down(contact) = {}
    <3>1. y.key = "down" /\ y \in Flagging
      BY <1>1, <2>2 DEF Flagging
    <3>2. QED
      BY <2>2, <3>1
  <2>3. CASE Down(contact') # {} /\ Down(contact) # {}
    <3>1. contact[f] # Up /\ p # Up /\ ~multi
      <4>1. PICK g \in Down(contact) : TRUE
        BY <2>3
      <4>2. g = f
        BY <1>3, <1>4, <1>6, <2>3, <4>1
      <4>3. QED
        BY <1>3, <1>4, <1>6, <2>3, <4>1, <4>2
    <3>2. y.track = "same" /\ y.key = "same"
      BY <1>1, <2>3, <3>1
    <3>3. y \notin Flagging
      BY <3>2 DEF Flagging
    <3>4. QED
      BY <2>3, <3>1, <3>3
  <2>4. QED
    BY <2>1, <2>2, <2>3
<1>7. CASE pc = "reopen" /\ UNCHANGED <<evdev, blind, astray>>
  <2>1. evdev' = <<>> /\ blind' /\ astray'
    BY <1>7 DEF KernelInv
  <2>2. /\ ~Holds(evdev', Minded) /\ \A m : ~Newest(evdev', Minded, m)
        /\ ~Holds(evdev', Flagging) /\ \A m : ~Newest(evdev', Flagging, m)
    BY <2>1, EmptyHolds
  <2>3. QED
    BY <1>5, <2>1, <2>2 DEF KernelInv
<1>8. CASE pc # "reopen" /\ evdev' = Append(evdev, y) /\ UNCHANGED <<blind, astray>>
  <2>1. ASSUME NEW S, y \in S
        PROVE  Holds(evdev', S) /\ \A m : Newest(evdev', S, m) => m = y
    BY <1>2, <1>8, <2>1, Appended
  <2>2. ASSUME NEW S, y \notin S
        PROVE  /\ Holds(evdev, S) => Holds(evdev', S)
               /\ \A m : Newest(evdev', S, m) => Newest(evdev, S, m)
    BY <1>2, <1>8, <2>2, Appended
  <2>3. /\ \A m : Newest(evdev', Minded, m) => ~m.alone \/ m.pos = {kpos'}
        /\ ~Holds(evdev', Minded) => astray' \/ rx' = kpos'
    <3>1. CASE y \in Minded
      <4>1. ~y.alone \/ y.pos = {kpos'}
        BY <1>1, <3>1 DEF Minded
      <4>2. QED
        BY <2>1, <3>1, <4>1
    <3>2. CASE y \notin Minded
      <4>1. kpos' = kpos
        BY <1>1, <3>2 DEF Minded
      <4>2. QED
        BY <1>2, <1>8, <2>2, <3>2, <4>1 DEF KernelInv
    <3>3. QED
      BY <3>1, <3>2
  <2>4. ASSUME ~multi'
        PROVE  /\ \A m : Newest(evdev', Flagging, m)
                            => m.key = IF Down(contact') = {} THEN "up" ELSE "down"
               /\ ~Holds(evdev', Flagging) => blind' \/ (cur_flag' = 1 <=> Down(contact') # {})
    <3>1. CASE y \in Flagging
      BY <1>6, <2>1, <2>4, <3>1
    <3>2. CASE y \notin Flagging
      <4>1. ~multi /\ Down(contact) # {} /\ Down(contact') # {}
        BY <1>6, <2>4, <3>2
      <4>2. QED
        BY <1>2, <1>8, <2>2, <3>2, <4>1 DEF KernelInv
    <3>3. QED
      BY <3>1, <3>2
  <2>5. QED
    BY <1>2, <1>5, <1>8, <2>3, <2>4 DEF KernelInv
<1>9. CASE pc # "reopen" /\ evdev' = <<z>> /\ blind' = TRUE /\ astray' = TRUE
  <2>1. \A m, S : Newest(evdev', S, m) => m = z /\ m \in S
    BY <1>9, Alone DEF Newest
  <2>2. z \in Minded => ~z.alone \/ z.pos = {kpos'}
    BY <1>1 DEF Minded
  <2>3. ASSUME ~multi', z \in Flagging
        PROVE  z.key = IF Down(contact') = {} THEN "up" ELSE "down"
    <3>1. z.track # "same" \/ z.key # "same"
      BY <2>3 DEF Flagging
    <3>2. y \in Flagging /\ (z.key = y.key \/ z.key = "same")
      BY <1>1, <3>1 DEF Flagging
    <3>3. z.key = y.key
      BY <1>1, <3>1
    <3>4. QED
      BY <1>6, <2>3, <3>2, <3>3
  <2>4. QED
    BY <1>2, <1>5, <1>9, <2>1, <2>2, <2>3 DEF KernelInv
<1>10. QED
  BY <1>1, <1>7, <1>8, <1>9

LEMMA ReportKernel ==
    ASSUME Typed, KernelInv, Report
    PROVE  KernelInv'
<1>1. PICK m \in Packets, p \in 0..Raw-1, flag \in {0, 1} :
          /\ evdev # <<>> /\ m = evdev[1] /\ evdev' = Tail(evdev)
          /\ m.pos = {} => p = rx
          /\ m.pos # {} => p \in m.pos
          /\ flag = Flag(m) /\ rx' = p /\ cur_flag' = flag
          /\ blind' = (blind /\ m.key = "same")
          /\ astray' = (~m.alone \/ (astray /\ m.pos = {}))
          /\ pc' # "reopen"
          /\ UNCHANGED <<contact, kpos, multi>>
  BY ReportStep DEF kernel
<1>2. evdev \in Seq(Packets)
  BY DEF Typed
<1>3. \A x, S : Newest(evdev', S, x) => Newest(evdev, S, x)
  BY <1>1, <1>2, Removed
<1>4. ASSUME ~Holds(evdev', Minded) PROVE astray' \/ rx' = kpos'
  <2>1. CASE m \in Minded
    <3>1. Newest(evdev, Minded, m)
      BY <1>1, <1>2, <1>4, <2>1, Removed
    <3>2. ~m.alone \/ m.pos = {kpos}
      BY <3>1 DEF KernelInv
    <3>3. QED
      BY <1>1, <3>2
  <2>2. CASE m \notin Minded
    <3>1. ~Holds(evdev, Minded)
      BY <1>1, <1>2, <1>4, <2>2, Removed
    <3>2. m.pos = {} /\ m.alone
      BY <2>2 DEF Minded
    <3>3. QED
      BY <1>1, <3>1, <3>2 DEF KernelInv
  <2>3. QED
    BY <2>1, <2>2
<1>5. ASSUME ~multi', ~Holds(evdev', Flagging)
      PROVE  blind' \/ (cur_flag' = 1 <=> Down(contact') # {})
  <2>1. CASE m \in Flagging
    <3>1. Newest(evdev, Flagging, m)
      BY <1>1, <1>2, <1>5, <2>1, Removed
    <3>2. m.key = IF Down(contact) = {} THEN "up" ELSE "down"
      BY <1>1, <1>5, <3>1 DEF KernelInv
    <3>3. flag = IF Down(contact) = {} THEN 0 ELSE 1
      BY <1>1, <3>2 DEF Flag, Tracked
    <3>4. QED
      BY <1>1, <3>3
  <2>2. CASE m \notin Flagging
    <3>1. ~Holds(evdev, Flagging)
      BY <1>1, <1>2, <1>5, <2>2, Removed
    <3>2. m.track = "same" /\ m.key = "same"
      BY <2>2 DEF Flagging
    <3>3. flag = cur_flag
      BY <1>1, <3>2 DEF Flag, Tracked
    <3>4. QED
      BY <1>1, <1>5, <3>1, <3>2, <3>3 DEF KernelInv
  <2>3. QED
    BY <2>1, <2>2
<1>6. QED
  BY <1>1, <1>3, <1>4, <1>5 DEF KernelInv

LEMMA KernelNext == Typed /\ Typed' /\ KernelInv /\ [Next]_vars => KernelInv'
<1> SUFFICES ASSUME Typed, Typed', KernelInv, [Next]_vars PROVE KernelInv'
  OBVIOUS
<1>1. ASSUME NEW f \in Fingers, NEW p \in 0..Raw, Touch(f, p) PROVE KernelInv'
  BY <1>1, TouchKernel
<1>2. CASE Lose
  <2>1. Down(contact') = {} /\ evdev' = <<>> /\ blind' /\ astray'
    BY <1>2 DEF Lose, Down
  <2>2. QED
    BY <2>1, EmptyHolds DEF KernelInv, AtMostOne
<1>3. CASE Report
  BY <1>3, ReportKernel
<1>4. ASSUME UNCHANGED <<contact, kpos, evdev, rx, cur_flag, blind, multi, astray>>,
             pc' = "reopen" => pc = "reopen"
      PROVE  KernelInv'
  BY <1>4 DEF KernelInv
<1>5. CASE Push \/ PushAgain \/ Reopen
  BY <1>4, <1>5 DEF Push, PushAgain, Reopen, kernel
<1>6. CASE ReadFrame
  BY <1>4, <1>6 DEF ReadFrame, kernel, reader
<1>7. CASE UNCHANGED vars
  BY <1>4, <1>7 DEF vars, kernel, reader
<1>8. QED
  BY <1>1, <1>2, <1>3, <1>5, <1>6, <1>7 DEF Next, Reader

-----------------------------------------------------------------------------
(* The theorems.                                                           *)

Inv == Typed /\ PlayInv /\ KernelInv

LEMMA InvInit == Init => Inv
  BY TypedInit, PlayInit, KernelInit DEF Inv

LEMMA InvNext == Inv /\ [Next]_vars => Inv'
  BY TypedNext, PlayNext, KernelNext DEF Inv

\* Every variable of the reader, the kernel and rbp keeps its type, and rbp
\* counts no more touch-downs than there were changes of the contacts: the
\* second frame of a touch-down is never taken for another one.
THEOREM TouchTypes == Spec => []TypeOK
<1>1. Inv => TypeOK
  <2> SUFFICES ASSUME Inv PROVE TypeOK
    OBVIOUS
  <2>1. PICK f : Account(f, pipe, hyst, downs) /\ f[Len(pipe)] + Len(evdev) + Due(pc) <= touches
    BY DEF Inv, PlayInv, Budget
  <2>2. PICK n \in Nat : n = Len(pipe)
    BY DEF Inv, Typed
  <2>3. f[0] = downs /\ f[0] <= f[n] /\ f[n] \in Nat
    BY <2>1, <2>2 DEF Account
  <2>4. /\ Len(evdev) \in Nat /\ Due(pc) \in Nat
        /\ downs \in Nat /\ touches \in Nat /\ touches <= MaxTouches
    BY Constants DEF Inv, Typed, Due
  <2>5. downs \in 0..MaxTouches
    BY <2>1, <2>2, <2>3, <2>4, Constants
  <2>6. QED
    BY <2>5 DEF Inv, Typed, TypeOK, Frames, Up
<1>2. QED
  BY <1>1, InvInit, InvNext, PTL DEF Spec

\* When everything is read, rbp has the contact exactly while a finger is down,
\* and the finger at its position once a packet of a lone finger told one since
\* two were down or packets were lost: for every number of fingers and size of
\* the screen, whatever the kernel remembers of each slot, however packets and
\* frames were queued, and for every part of a packet that an overflow leaves.
THEOREM RbpFollowsContact == Spec => []ContactIsFollowed
<1>1. Inv => ContactIsFollowed
  <2> SUFFICES ASSUME Inv, Settled, ~blind, ~multi
               PROVE  /\ hyst # 0 <=> Down(contact) # {}
                      /\ \A f \in Down(contact) : astray \/ rbp_x = Cell(contact[f])
    BY DEF ContactIsFollowed
  <2>1. evdev = <<>> /\ pipe = <<>> /\ pc = "read"
    BY DEF Settled
  <2>2. ~Holds(evdev, Minded) /\ ~Holds(evdev, Flagging)
    BY <2>1, EmptyHolds
  <2>3. (astray \/ rx = kpos) /\ (cur_flag = 1 <=> Down(contact) # {})
    BY <2>2 DEF Inv, KernelInv
  <2>4. rbp_x = Cell(rx) /\ (hyst # 0 <=> last_flag = 1)
    BY <2>1 DEF Inv, PlayInv, PipeInv
  <2>5. last_flag = 1 <=> cur_flag = 1
    BY <2>1 DEF Inv, PlayInv, PipeInv, Typed
  <2>6. \A f \in Down(contact) : contact[f] = kpos
    BY DEF Inv, KernelInv
  <2>7. QED
    BY <2>3, <2>4, <2>5, <2>6
<1>2. QED
  BY <1>1, InvInit, InvNext, PTL DEF Spec

\* The debouncing discards no touch-down but possibly the first since the shim
\* was loaded, also when frames are still in the pipe and the device is lost
\* between the two frames of a touch-down.
THEOREM TapsAreDoubled == Spec => LaterTapsSurvive
<1>1. Inv /\ [Next]_vars => [hyst = 1 /\ hyst' = 0 => downs = 1]_vars
  <2> SUFFICES ASSUME Inv, [Next]_vars, hyst = 1, hyst' = 0 PROVE downs = 1
    OBVIOUS
  <2>1. CASE ReadFrame
    <3>1. pipe # <<>> /\ pipe[1].flag = 0
      BY <2>1 DEF ReadFrame, Inv, Typed
    <3>2. 1 <= Len(pipe)
      BY <3>1 DEF Inv, Typed
    <3>3. ~Doubled(pipe, pc, 1)
      BY <3>1, <3>2 DEF Doubled
    <3>4. QED
      BY <3>3 DEF Inv, PlayInv, TapInv
  <2>2. CASE UNCHANGED player
    BY <2>2 DEF player
  <2>3. ReadFrame \/ UNCHANGED player
    BY ReportStep DEF Next, Touch, Lose, Reader, Push, PushAgain, Reopen, vars, Inv
  <2>4. QED
    BY <2>1, <2>2, <2>3
<1>2. QED
  BY <1>1, InvInit, InvNext, PTL DEF Spec, LaterTapsSurvive

-----------------------------------------------------------------------------
(* The display: gui is where gui_task is in FBIOPAN_DISPLAY.               *)

VARIABLES now, last, gui, until

Fb == INSTANCE Framebuffer WITH pc <- gui

\* A time taken modulo the width of a long is at most the time, and differs
\* from it only when that is half the width or more.
LEMMA SignedTime ==
    ASSUME NEW n \in Nat
    PROVE  /\ Fb!Signed(n) \in Int /\ Fb!Signed(n) <= n
           /\ Fb!Signed(n) <= 0 => n = 0 \/ 2 * n >= Fb!Wrap
  BY DEF Fb!Signed, Fb!Wrap

\* While gui_task sleeps, its sleep ends a frame after the last flip at the
\* earliest.
Paced ==
    /\ now \in Nat /\ last \in Nat /\ until \in Nat /\ last <= now
    /\ gui = "asleep" /\ last >= Fb!Second => until >= last + Fb!Frame

LEMMA PacedInit == Fb!Init => Paced
  BY DEF Fb!Init, Paced, Fb!Second

LEMMA PanPaces ==
    ASSUME Paced, Fb!Pan
    PROVE  Paced'
<1>1. now - last \in Nat /\ now - last > 0
  BY DEF Paced, Fb!Pan
<1>2. /\ Fb!Elapsed \in Int /\ Fb!Elapsed <= now - last
      /\ Fb!Elapsed <= 0 => 2 * (now - last) >= Fb!Wrap
  BY <1>1, SignedTime DEF Fb!Elapsed
<1>3. Fb!Rest \in Nat
  BY <1>2 DEF Fb!Rest, Fb!Frame
<1>4. last >= Fb!Second => now + Fb!Rest >= last + Fb!Frame
  <2>1. CASE 0 < Fb!Elapsed /\ Fb!Elapsed < Fb!Frame
    BY <1>1, <1>2, <2>1 DEF Fb!Rest, Fb!Frame, Paced
  <2>2. CASE Fb!Elapsed >= Fb!Frame
    BY <1>1, <1>2, <1>3, <2>2 DEF Fb!Frame, Paced
  <2>3. CASE Fb!Elapsed <= 0
    BY <1>1, <1>2, <1>3, <2>3 DEF Fb!Frame, Fb!Wrap, Paced
  <2>4. QED
    BY <1>2, <2>1, <2>2, <2>3 DEF Fb!Frame
<1>5. QED
  BY <1>3, <1>4 DEF Paced, Fb!Pan

LEMMA PacedNext == Paced /\ [Fb!Next]_Fb!vars => Paced'
<1> SUFFICES ASSUME Paced, [Fb!Next]_Fb!vars PROVE Paced'
  OBVIOUS
<1>1. CASE Fb!Tick
  BY <1>1 DEF Fb!Tick, Paced
<1>2. CASE Fb!Pan
  BY <1>2, PanPaces
<1>3. CASE Fb!Flip
  BY <1>3 DEF Fb!Flip, Paced
<1>4. CASE UNCHANGED Fb!vars
  BY <1>4 DEF Fb!vars, Paced
<1>5. QED
  BY <1>1, <1>2, <1>3, <1>4 DEF Fb!Next

\* Flips are paced to 60 a second whatever the clock does between them: an
\* elapsed time that overflows never lets two flips come closer.
THEOREM FlipsAreAFrameApart == Fb!Spec => Fb!AFrameApart
<1>1. Paced /\ [Fb!Next]_Fb!vars
      => [last' # last /\ last >= Fb!Second => last' - last >= Fb!Frame]_Fb!vars
  BY DEF Paced, Fb!Next, Fb!Tick, Fb!Pan, Fb!Flip, Fb!vars, Fb!Frame
<1>2. QED
  BY <1>1, PacedInit, PacedNext, PTL DEF Fb!Spec, Fb!AFrameApart

\* The pacing costs less than a frame: after a pause of any length the next
\* flip is not held back by a second or more.
THEOREM FlipsAreNeverLate == Fb!Spec => Fb!NeverLate
<1>1. Paced /\ [Fb!Next]_Fb!vars => [Fb!Pan => until' - now < Fb!Frame]_Fb!vars
  <2> SUFFICES ASSUME Paced, Fb!Pan PROVE until' - now < Fb!Frame
    OBVIOUS
  <2>1. Fb!Elapsed \in Int
    BY SignedTime DEF Fb!Elapsed, Paced
  <2>2. QED
    BY <2>1 DEF Paced, Fb!Pan, Fb!Rest, Fb!Frame
<1>2. QED
  BY <1>1, PacedInit, PacedNext, PTL DEF Fb!Spec, Fb!NeverLate
=============================================================================
