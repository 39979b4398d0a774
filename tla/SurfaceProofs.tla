--------------------------- MODULE SurfaceProofs ----------------------------
(***************************************************************************)
(* Proofs that the engine follows the surface, for every choice of         *)
(* controls, values and FIFO length and every pattern of lost events: a    *)
(* knob's key has the knob's value, a fader's tempo heals after lost       *)
(* halves, and the browse cursor moves by what was reported.               *)
(***************************************************************************)
EXTENDS Surface, SequenceTheorems, TLAPS

-----------------------------------------------------------------------------
(* The controls.                                                           *)

High(d) == <<Channel(d), HI>>
Low(d)  == <<Channel(d), LO>>


LEMMA Constants ==
    /\ Moved \subseteq Controls /\ Slid \subseteq Decks /\ Values \subseteq 0..127
    /\ Positions \subseteq Places /\ Turns \subseteq -64..63
    /\ Reversed \in BOOLEAN /\ Scale \in Nat \ {0} /\ QueueLen \in Nat \ {0}
    /\ Rounds \in Nat /\ Repeats \in Nat /\ MaxReports \in Nat
  BY SurfaceAssumption DEF Places

\* An entry of the map, and the CCs there are.
LEMMA EntryShape ==
    ASSUME NEW e \in AbsMap
    PROVE  /\ e = <<e[1], e[2], e[3], e[4]>>
           /\ e[1] \in 0..15 /\ e[4] \in 1..2
           /\ e[2] \in {3, 4, 6, 8, 11, 12, 13, 14, 32, 34}
  BY DEF AbsMap

\* Two entries of one key are one entry: no control writes another's key.
LEMMA KeyIsOwn ==
    ASSUME NEW e \in AbsMap, NEW f \in AbsMap, Key(e) = Key(f)
    PROVE  Control(e) = Control(f)
<1>1. e[3] = f[3] /\ e[4] = f[4]
  BY DEF Key
<1>2. e[1] = f[1] /\ e[2] = f[2]
  BY <1>1 DEF AbsMap
<1>3. QED
  BY <1>2 DEF Control

\* The controls, the browse knob and the pitch faders are told apart.
LEMMA NamesDiffer ==
    /\ Browse \notin Controls
    /\ \A d \in Decks : /\ High(d) \notin Controls /\ Low(d) \notin Controls
                        /\ High(d) # Browse /\ Low(d) # Browse
                        /\ High(d) \in (2..3) \X {HI, LO}
                        /\ Low(d) \in (2..3) \X {HI, LO}
    /\ \A d, x \in Decks : /\ High(d) # Low(x)
                           /\ High(d) = High(x) => d = x
                           /\ Low(d) = Low(x) => d = x
<1>1. ASSUME NEW c \in Controls PROVE c[2] \notin {5, HI, LO}
  <2>1. PICK e \in AbsMap : c = Control(e)
    BY DEF Controls
  <2>2. c[2] = e[2]
    BY <2>1 DEF Control
  <2>3. QED
    BY <2>2, EntryShape DEF HI, LO
<1>2. Browse[2] = 5
  BY DEF Browse
<1>3. \A d : High(d)[2] = HI /\ Low(d)[2] = LO /\ High(d)[1] = d + 1 /\ Low(d)[1] = d + 1
  BY DEF High, Low, Channel
<1>4. HI = 31 /\ LO = 75 /\ Decks = 1..2
  BY DEF HI, LO, Decks
<1>5. \A d \in Decks : /\ High(d) \in (2..3) \X {HI, LO}
                       /\ Low(d) \in (2..3) \X {HI, LO}
  BY <1>4 DEF High, Low, Channel
<1>6. QED
  BY <1>1, <1>2, <1>3, <1>4, <1>5

-----------------------------------------------------------------------------
(* Conversions.                                                            *)

LEMMA Cc10Type ==
    ASSUME NEW v \in 0..127
    PROVE  Cc10(v) \in Tens /\ Cc10(v) # -1
  BY DEF Cc10, Tens

\* The two halves of a position, and the position of two halves.
HighOf(p) == p \div 128
LowOf(p)  == p % 128

LEMMA Halves ==
    ASSUME NEW p \in Places
    PROVE  /\ HighOf(p) \in 0..127 /\ LowOf(p) \in 0..127
           /\ HighOf(p) * 128 + LowOf(p) = p
<1>1. /\ p \in Int /\ p >= 0 /\ p <= 16383
  BY DEF Places
<1>2. /\ (p \div 128) * 128 + (p % 128) = p
      /\ p % 128 \in 0..127 /\ p \div 128 \in Int
  BY <1>1
<1>3. QED
  BY <1>1, <1>2 DEF HighOf, LowOf

LEMMA Joined ==
    ASSUME NEW h \in 0..127, NEW l \in 0..127, NEW p, p = h * 128 + l
    PROVE  p \in Places /\ HighOf(p) = h /\ LowOf(p) = l
<1>1. p \in Places
  BY DEF Places
<1>2. /\ HighOf(p) \in 0..127 /\ LowOf(p) \in 0..127
      /\ HighOf(p) * 128 + LowOf(p) = p
  BY <1>1, Halves
<1>3. PICK a, b : a = HighOf(p) /\ b = LowOf(p)
  OBVIOUS
<1>4. a \in 0..127 /\ b \in 0..127 /\ a * 128 + b = p
  BY <1>2, <1>3, Zenon
<1>5. a = h /\ b = l
  BY <1>4
<1>6. QED
  BY <1>1, <1>3, <1>5, Zenon

\* A half replaces its seven bits and leaves the others.
LEMMA StoreHalf ==
    ASSUME NEW s \in States, NEW v \in 0..127, NEW hi \in BOOLEAN
    PROVE  /\ Store(s, hi, v) \in States
           /\ hi => /\ Store(s, hi, v).have_hi
                    /\ HighOf(Store(s, hi, v).pos) = v
           /\ ~hi => /\ Store(s, hi, v).have_hi = s.have_hi
                     /\ HighOf(Store(s, hi, v).pos) = HighOf(s.pos)
                     /\ LowOf(Store(s, hi, v).pos) = v
                     /\ s.have_hi => Store(s, hi, v).ready
<1> DEFINE t1 == [s EXCEPT !.pos = IF hi THEN v * 128 + (s.pos % 128)
                                         ELSE (s.pos - (s.pos % 128)) + v,
                           !.have_hi = s.have_hi \/ hi,
                           !.have_lo = s.have_lo \/ ~hi]
<1> DEFINE t == Store(s, hi, v)
<1>1. /\ s.pos \in Places /\ s.have_hi \in BOOLEAN /\ s.have_lo \in BOOLEAN
      /\ s.ready \in BOOLEAN
  BY DEF States
<1>2. PICK q \in Places : q = s.pos
  BY <1>1
<1>3. q \in Int
  BY DEF Places
<1>4. HighOf(q) \in 0..127 /\ LowOf(q) \in 0..127 /\ HighOf(q) * 128 + LowOf(q) = q
  BY Halves
<1>5. PICK r : r = IF hi THEN v * 128 + LowOf(q) ELSE (q - LowOf(q)) + v
  OBVIOUS
<1>6. hi => r \in Places /\ HighOf(r) = v
  BY <1>4, <1>5, Joined
<1>7. ~hi => r \in Places /\ HighOf(r) = HighOf(q) /\ LowOf(r) = v
  <2>1. ~hi => r = HighOf(q) * 128 + v
    BY <1>3, <1>4, <1>5
  <2>2. QED
    BY <1>4, <2>1, Joined
<1>8. PICK x \in BOOLEAN : x = (s.have_hi \/ hi)
  OBVIOUS
<1>9. PICK y \in BOOLEAN : y = (s.have_lo \/ ~hi)
  OBVIOUS
<1>10. t1 = [s EXCEPT !.pos = r, !.have_hi = x, !.have_lo = y]
  BY <1>2, <1>5, <1>8, <1>9, Zenon DEF LowOf
<1>11. t = [t1 EXCEPT !.ready = s.ready \/ (t1.have_hi /\ t1.have_lo)]
  BY DEF Store
<1> HIDE DEF t, t1
<1>12. t1 = [pos |-> r, have_hi |-> x, have_lo |-> y, ready |-> s.ready]
  BY <1>10 DEF States
<1>13. PICK z \in BOOLEAN : z = (s.ready \/ (x /\ y))
  BY <1>1
<1>14. t = [pos |-> r, have_hi |-> x, have_lo |-> y, ready |-> z]
  <2>1. t1.have_hi = x /\ t1.have_lo = y
    BY <1>12
  <2>2. t = [t1 EXCEPT !.ready = z]
    BY <1>11, <1>13, <2>1, Zenon
  <2>3. QED
    BY <1>12, <2>2
<1>15. /\ t \in States /\ t.pos = r /\ t.have_hi = x /\ t.ready = z
  BY <1>6, <1>7, <1>14 DEF States
<1>16. (hi => x) /\ (~hi => x = s.have_hi /\ (s.have_hi => z))
  BY <1>1, <1>8, <1>9, <1>13
<1>17. QED
  BY <1>2, <1>6, <1>7, <1>15, <1>16 DEF t

\* A tempo is in the range of the engine's two settings.
LEMMA TempoType ==
    ASSUME NEW p \in Places
    PROVE  Tempo(p) \in Settings
<1>1. Norm(p) \in -8192..8192
  BY Constants DEF Norm, Places
<1>2. V10(Norm(p)) \in Tens \ {-1}
  <2> DEFINE n == Norm(p)
  <2>1. n \in -8192..8192
    BY <1>1
  <2> HIDE DEF n
  <2>2. ((n + 8192) * 1023) \div 16384 \in 0..1023
    BY <2>1
  <2>3. QED
    BY <2>2 DEF V10, n, Tens
<1>3. QED
  BY <1>1, <1>2 DEF Tempo, Settings

\* A turn of the browse knob survives its seven bits, and is clamped to what
\* it is worth.
LEMMA TurnSurvives ==
    ASSUME NEW n \in Turns
    PROVE  /\ n % 128 \in 0..127 /\ Clamp(Signed(n % 128) * Scale) = Worth(n)
           /\ Worth(n) \in Int
<1>1. n \in -64..63 /\ Scale \in Nat \ {0}
  BY Constants
<1>2. n % 128 \in 0..127 /\ Signed(n % 128) = n
  BY <1>1 DEF Signed
<1>3. PICK t : t = n * Scale
  OBVIOUS
<1>4. t \in Int /\ (n > 0 => t > 0) /\ (n <= 0 => t <= 0)
  <2>1. t \in Int
    BY <1>1, <1>3
  <2>2. CASE n > 0
    <3>1. n * Scale >= 1 * Scale
      BY <1>1, <2>2
    <3>2. QED
      BY <1>1, <1>3, <2>1, <2>2, <3>1
  <2>3. CASE n <= 0
    <3>1. n * Scale <= 0 * Scale
      BY <1>1, <2>3
    <3>2. QED
      BY <1>1, <1>3, <2>1, <2>3, <3>1
  <2>4. QED
    BY <1>1, <2>1, <2>2, <2>3
<1>5. Clamp(t) = IF t \in -16..16 THEN t ELSE IF n > 0 THEN 16 ELSE -16
  BY <1>1, <1>4 DEF Clamp
<1>6. Worth(n) = Clamp(t) /\ Clamp(t) \in Int
  BY <1>3, <1>4, <1>5 DEF Worth, Clamp
<1>7. QED
  BY <1>2, <1>3, <1>6

-----------------------------------------------------------------------------
(* Types.                                                                  *)

LEMMA TypesInit == Init => TypeOK
<1> SUFFICES ASSUME Init PROVE TypeOK
  OBVIOUS
<1>1. queue \in Seq(Events)
  BY DEF Init
<1>2. pitch \in [Decks -> States]
  BY DEF Init, States, Places
<1>3. -1 \in Tens
  BY DEF Tens
<1>4. /\ value \in [Keys -> Tens] /\ last \in [Controls -> Tens]
      /\ tempo \in [Decks -> {Unset} \cup Settings]
  BY <1>3 DEF Init
<1>5. /\ km \in BOOLEAN /\ bfx \in {"default", "master"} /\ stage \in 0..6
      /\ pc \in {"wait", "prepare", "setup", "loop", "gone", "failed"}
      /\ (pc = "loop" <=> stage = 6)
  <2>1. km = FALSE /\ bfx = "default" /\ stage = 0 /\ pc = "wait"
    BY DEF Init
  <2>2. pc # "loop" /\ stage # 6
    BY <2>1
  <2>3. km \in BOOLEAN /\ bfx \in {"default", "master"} /\ (pc = "loop" <=> stage = 6)
    BY <2>1, <2>2, Zenon
  <2>4. stage \in 0..6 /\ pc \in {"wait", "prepare", "setup", "loop", "gone", "failed"}
    BY <2>1
  <2>5. QED
    BY <2>3, <2>4, Zenon
<1>6. /\ knob \in [Moved -> Values] /\ fader \in [Slid -> Positions]
      /\ due \in [Slid -> BOOLEAN] /\ reports \in 0..MaxReports
      /\ waited \in 0..Rounds /\ enforced \in 0..Repeats
  BY Constants DEF Init
<1>7. QED
  BY <1>1, <1>2, <1>4, <1>5, <1>6, Zenon DEF TypeOK

\* What the surface reports enters the FIFO whole or not at all.
LEMMA EmitTyped ==
    ASSUME TypeOK, NEW c \in Names, NEW v \in 0..127, NEW name, NEW ok,
           Emit(c, v, name, ok)
    PROVE  /\ queue' \in Seq(Events)
           /\ queue' = queue \/ queue' = Append(queue, <<c, v>>)
<1>1. <<c, v>> \in Events /\ queue \in Seq(Events)
  BY DEF Events, TypeOK
<1>2. queue' = queue \/ queue' = Append(queue, <<c, v>>)
  BY DEF Emit
<1>3. QED
  BY <1>1, <1>2

LEMMA NamesOfFader ==
    ASSUME NEW d \in Decks
    PROVE  High(d) \in Names /\ Low(d) \in Names
  BY NamesDiffer DEF Names

\* What is read was reported.
LEMMA HeadTyped ==
    ASSUME TypeOK, queue # <<>>
    PROVE  /\ Head(queue) = queue[1] /\ queue[1][1] \in Names
           /\ queue[1][2] \in 0..127 /\ Tail(queue) \in Seq(Events)
<1>1. queue \in Seq(Events) /\ queue # <<>>
  BY DEF TypeOK
<1>2. Head(queue) = queue[1] /\ Head(queue) \in Events /\ Tail(queue) \in Seq(Events)
  BY <1>1
<1>3. QED
  BY <1>2 DEF Events

LEMMA TypesNext ==
    ASSUME TypeOK, [Next]_vars
    PROVE  TypeOK'
<1> USE Constants
<1>1. ASSUME NEW c \in Moved, NEW v \in Values, TurnKnob(c, v)
      PROVE  TypeOK'
  <2>1. c \in Names /\ v \in 0..127
    BY DEF Names
  <2>2. queue' \in Seq(Events)
    BY <1>1, <2>1, EmitTyped DEF TurnKnob
  <2>3. knob' \in [Moved -> Values] /\ reports' \in 0..MaxReports
    BY <1>1 DEF TurnKnob, TypeOK
  <2>4. QED
    BY <1>1, <2>2, <2>3 DEF TurnKnob, TypeOK, engine, setup
<1>2. ASSUME NEW d \in Slid, NEW p \in Positions, MoveFader(d, p)
      PROVE  TypeOK'
  <2>1. High(d) \in Names /\ HighOf(p) \in 0..127
    BY NamesOfFader, Halves
  <2>2. Emit(High(d), HighOf(p), Low(d), TRUE)
    BY <1>2 DEF MoveFader, High, Low, HighOf
  <2>3. queue' \in Seq(Events)
    BY <2>1, <2>2, EmitTyped
  <2>4. fader' \in [Slid -> Positions] /\ reports' \in 0..MaxReports
        /\ due' \in [Slid -> BOOLEAN]
    BY <1>2 DEF MoveFader, TypeOK
  <2>5. QED
    BY <1>2, <2>3, <2>4 DEF MoveFader, TypeOK, engine, setup
<1>3. ASSUME NEW d \in Slid, LowHalf(d)
      PROVE  TypeOK'
  <2>1. Low(d) \in Names /\ LowOf(fader[d]) \in 0..127
    <3>1. fader[d] \in Places
      BY DEF TypeOK
    <3>2. QED
      BY <3>1, NamesOfFader, Halves
  <2>2. Emit(Low(d), LowOf(fader[d]), Low(d), Low(d) \in heard)
    BY <1>3 DEF LowHalf, Low, LowOf
  <2>3. queue' \in Seq(Events)
    BY <2>1, <2>2, EmitTyped
  <2>4. due' \in [Slid -> BOOLEAN]
    BY <1>3 DEF LowHalf, TypeOK
  <2>5. QED
    BY <1>3, <2>3, <2>4 DEF LowHalf, TypeOK, engine, setup
<1>4. ASSUME NEW n \in Turns, TurnBrowse(n)
      PROVE  TypeOK'
  <2>1. Browse \in Names /\ n % 128 \in 0..127
    BY TurnSurvives DEF Names
  <2>2. queue' \in Seq(Events)
    BY <1>4, <2>1, EmitTyped DEF TurnBrowse
  <2>3. reports' \in 0..MaxReports
    BY <1>4 DEF TurnBrowse, TypeOK
  <2>4. QED
    BY <1>4, <2>2, <2>3 DEF TurnBrowse, TypeOK, engine, setup
<1>5. CASE KeyManager
  BY <1>5 DEF KeyManager, TypeOK, surface, engine
<1>6. CASE ResetBfx
  BY <1>6 DEF ResetBfx, TypeOK, surface, engine
<1>7. CASE Wait
  BY <1>7 DEF Wait, TypeOK, surface, engine
<1>8. CASE Prepare
  <2>1. 512 \in Tens
    BY DEF Tens
  <2>2. value' \in [Keys -> Tens]
    BY <1>8, <2>1 DEF Prepare, TypeOK
  <2>3. QED
    BY <1>8, <2>2 DEF Prepare, TypeOK, surface
<1>9. CASE SeqSetup
  BY <1>9 DEF SeqSetup, TypeOK, surface, engine
<1>10. CASE Enforce
  BY <1>10 DEF Enforce, TypeOK, surface, engine
<1>11. CASE ReadEvent
  <2>1. PICK c \in Names, v \in 0..127 : c = queue[1][1] /\ v = queue[1][2]
    BY <1>11, HeadTyped DEF ReadEvent
  <2>2. HandleEvent(c, v) /\ queue' \in Seq(Events)
    BY <1>11, <2>1, HeadTyped DEF ReadEvent
  <2>3. /\ value' \in [Keys -> Tens] /\ last' \in [Controls -> Tens]
        /\ tempo' \in [Decks -> {Unset} \cup Settings]
        /\ pitch' \in [Decks -> States]
    <3>1. CASE HandleKnobPos(v)
      BY <3>1 DEF HandleKnobPos, TypeOK
    <3>2. ASSUME NEW d \in Decks, NEW hi \in BOOLEAN, HandlePitch(d, hi, v)
          PROVE  <2>3
      <4>1. PICK s : s = Store(pitch[d], hi, v)
        OBVIOUS
      <4>2. s \in States
        BY <4>1, StoreHalf DEF TypeOK
      <4>3. Tempo(s.pos) \in Settings
        BY <4>2, TempoType DEF States
      <4>4. pitch' = [pitch EXCEPT ![d] = s]
            /\ (tempo' = [tempo EXCEPT ![d] = Tempo(s.pos)] \/ tempo' = tempo)
            /\ UNCHANGED <<value, last>>
        BY <3>2, <4>1 DEF HandlePitch
      <4>5. QED
        BY <4>2, <4>3, <4>4 DEF TypeOK
    <3>3. CASE HandleCcAbs(c, v)
      <4>1. PICK w \in Tens : w = Cc10(v)
        BY Cc10Type
      <4>2. value' \in [Keys -> Tens]
        BY <3>3, <4>1 DEF HandleCcAbs, TypeOK
      <4>3. last' \in [Controls -> Tens]
        BY <3>3, <4>1 DEF HandleCcAbs, TypeOK
      <4>4. QED
        BY <3>3, <4>2, <4>3 DEF HandleCcAbs, TypeOK
    <3>4. QED
      BY <2>2, <3>1, <3>2, <3>3 DEF HandleEvent
  <2>4. QED
    BY <1>11, <2>2, <2>3 DEF ReadEvent, TypeOK, setup
<1>12. CASE UNCHANGED vars
  BY <1>12 DEF vars, surface, engine, setup, TypeOK
<1>13. QED
  BY <1>1, <1>2, <1>3, <1>4, <1>5, <1>6, <1>7, <1>8, <1>9, <1>10, <1>11, <1>12
     DEF Next, MidiThread

-----------------------------------------------------------------------------
(* The FIFO.  The latest event of a name decides what its reader will      *)
(* have been told when the FIFO is empty of that name.                     *)

Has(q, c) == \E i \in 1..Len(q) : q[i][1] = c
NoneAfter(q, c, i) == \A j \in i+1..Len(q) : q[j][1] # c
IsLatest(q, c, i) == q[i][1] = c /\ NoneAfter(q, c, i)

LEMMA QueuedMeansHas ==
    ASSUME queue \in Seq(Events), NEW c
    PROVE  Queued(c) <=> Has(queue, c)
  BY DEF Queued, Has

\* A name is in the FIFO after one more event.
LEMMA Appended ==
    ASSUME NEW q \in Seq(Events), NEW x \in Events, NEW r, r = Append(q, x)
    PROVE  /\ r \in Seq(Events)
           /\ \A c : Has(r, c) <=> Has(q, c) \/ x[1] = c
<1>1. /\ r \in Seq(Events) /\ Len(r) = Len(q) + 1 /\ Len(q) \in Nat
      /\ \A i \in 1..Len(q) : r[i] = q[i]
      /\ r[Len(q) + 1] = x
  OBVIOUS
<1>2. PICK n \in Nat : n = Len(q)
  BY <1>1
<1>3. /\ Len(r) = n + 1 /\ r[n + 1] = x
      /\ \A i \in 1..n : r[i] = q[i]
  BY <1>1, <1>2
<1>4. ASSUME NEW c PROVE Has(r, c) <=> Has(q, c) \/ x[1] = c
  <2>1. Has(r, c) => Has(q, c) \/ x[1] = c
    BY <1>2, <1>3 DEF Has
  <2>2. Has(q, c) => Has(r, c)
    <3>1. SUFFICES ASSUME NEW i \in 1..n, q[i][1] = c PROVE Has(r, c)
      BY <1>2 DEF Has
    <3>2. i \in 1..Len(r) /\ r[i][1] = c
      BY <1>3, <3>1
    <3>3. QED
      BY <3>2 DEF Has
  <2>3. x[1] = c => Has(r, c)
    <3>1. n + 1 \in 1..Len(r) /\ r[n + 1] = x
      BY <1>3
    <3>2. QED
      BY <3>1 DEF Has
  <2>4. QED
    BY <2>1, <2>2, <2>3
<1>5. QED
  BY <1>1, <1>4

\* The latest event of a name after one more, if the new one has that name
\* and if it has another.
LEMMA NewLatest ==
    ASSUME NEW q \in Seq(Events), NEW x \in Events, NEW r, r = Append(q, x),
           NEW i \in 1..Len(r), NEW c, IsLatest(r, c, i), x[1] = c
    PROVE  r[i] = x /\ \A b : NoneAfter(r, b, i)
<1>1. /\ Len(r) = Len(q) + 1 /\ Len(q) \in Nat /\ r[Len(q) + 1] = x
  OBVIOUS
<1>2. PICK n \in Nat : n = Len(q)
  BY <1>1
<1>3. i = n + 1 /\ Len(r) = n + 1
  BY <1>1, <1>2 DEF IsLatest, NoneAfter
<1>4. QED
  BY <1>1, <1>2, <1>3 DEF NoneAfter

LEMMA OldLatest ==
    ASSUME NEW q \in Seq(Events), NEW x \in Events, NEW r, r = Append(q, x),
           NEW i \in 1..Len(r), NEW c, IsLatest(r, c, i), x[1] # c
    PROVE  /\ i \in 1..Len(q) /\ r[i] = q[i] /\ IsLatest(q, c, i)
           /\ \A b : b # x[1] /\ NoneAfter(q, b, i) => NoneAfter(r, b, i)
<1>1. /\ Len(r) = Len(q) + 1 /\ Len(q) \in Nat
      /\ \A k \in 1..Len(q) : r[k] = q[k]
      /\ r[Len(q) + 1] = x
  OBVIOUS
<1>2. PICK n \in Nat : n = Len(q)
  BY <1>1
<1>3. /\ Len(r) = n + 1 /\ r[n + 1] = x
      /\ \A k \in 1..n : r[k] = q[k]
  BY <1>1, <1>2
<1>4. i \in 1..n+1 /\ r[i][1] = c /\ \A j \in i+1..n+1 : r[j][1] # c
  BY <1>3 DEF IsLatest, NoneAfter
<1>5. i \in 1..n /\ r[i] = q[i]
  BY <1>3, <1>4
<1>6. IsLatest(q, c, i)
  BY <1>2, <1>3, <1>4, <1>5 DEF IsLatest, NoneAfter
<1>7. ASSUME NEW b, b # x[1], NoneAfter(q, b, i) PROVE NoneAfter(r, b, i)
  BY <1>2, <1>3, <1>5, <1>7 DEF NoneAfter
<1>8. QED
  BY <1>2, <1>5, <1>6, <1>7

\* The head is the latest of its name when none follows; the others keep
\* their order.
LEMMA Removed ==
    ASSUME NEW q \in Seq(Events), q # <<>>, NEW r, r = Tail(q)
    PROVE  /\ r \in Seq(Events)
           /\ \A c : Has(q, c) <=> Has(r, c) \/ q[1][1] = c
           /\ \A c : ~Has(r, c) => NoneAfter(q, c, 1)
           /\ \A c : \A i \in 1..Len(r) : IsLatest(r, c, i) =>
                /\ i + 1 \in 1..Len(q) /\ r[i] = q[i + 1] /\ IsLatest(q, c, i + 1)
                /\ \A b : NoneAfter(q, b, i + 1) => NoneAfter(r, b, i)
<1>1. /\ r \in Seq(Events) /\ Len(r) = Len(q) - 1 /\ Len(q) \in Nat \ {0}
      /\ \A i \in 1..Len(r) : r[i] = q[i + 1]
  OBVIOUS
<1>2. PICK n \in Nat : n = Len(r)
  <2>1. Len(r) \in Nat
    BY <1>1
  <2>2. QED
    BY <2>1
<1>3. Len(q) = n + 1 /\ \A i \in 1..n : r[i] = q[i + 1]
  BY <1>1, <1>2
<1>4. ASSUME NEW c PROVE Has(q, c) <=> Has(r, c) \/ q[1][1] = c
  <2>1. SUFFICES (\E i \in 1..n+1 : q[i][1] = c) <=> (\E i \in 1..n : r[i][1] = c) \/ q[1][1] = c
    BY <1>2, <1>3 DEF Has
  <2>2. ASSUME NEW i \in 1..n+1, q[i][1] = c, i # 1 PROVE \E k \in 1..n : r[k][1] = c
    <3>1. i - 1 \in 1..n /\ r[i - 1] = q[i]
      BY <1>3, <2>2
    <3>2. QED
      BY <2>2, <3>1
  <2>3. ASSUME NEW i \in 1..n, r[i][1] = c PROVE \E k \in 1..n+1 : q[k][1] = c
    <3>1. i + 1 \in 1..n+1 /\ r[i] = q[i + 1]
      BY <1>3
    <3>2. QED
      BY <2>3, <3>1
  <2>4. 1 \in 1..n+1
    OBVIOUS
  <2>5. QED
    BY <2>2, <2>3, <2>4
<1>5. ASSUME NEW c, ~Has(r, c) PROVE NoneAfter(q, c, 1)
  <2>1. ASSUME NEW j \in 2..n+1 PROVE q[j][1] # c
    <3>1. j - 1 \in 1..n /\ r[j - 1] = q[j]
      BY <1>3
    <3>2. QED
      BY <1>2, <1>5, <3>1 DEF Has
  <2>2. QED
    BY <1>3, <2>1 DEF NoneAfter
<1>6. ASSUME NEW i \in 1..n, NEW b PROVE NoneAfter(q, b, i + 1) <=> NoneAfter(r, b, i)
  <2>1. SUFFICES (\A j \in i+1+1..n+1 : q[j][1] # b) <=> (\A j \in i+1..n : r[j][1] # b)
    BY <1>2, <1>3 DEF NoneAfter
  <2>2. ASSUME NEW j \in i+1+1..n+1 PROVE j - 1 \in i+1..n /\ r[j - 1] = q[j]
    BY <1>3
  <2>3. ASSUME NEW j \in i+1..n PROVE j + 1 \in i+1+1..n+1 /\ r[j] = q[j + 1]
    BY <1>3
  <2>4. QED
    BY <2>2, <2>3
<1>7. ASSUME NEW c, NEW i \in 1..Len(r), IsLatest(r, c, i)
      PROVE  /\ i + 1 \in 1..Len(q) /\ r[i] = q[i + 1] /\ IsLatest(q, c, i + 1)
             /\ \A b : NoneAfter(q, b, i + 1) => NoneAfter(r, b, i)
  <2>1. i + 1 \in 1..Len(q) /\ r[i] = q[i + 1] /\ i \in 1..n
    BY <1>2, <1>3
  <2>2. QED
    BY <1>6, <1>7, <2>1 DEF IsLatest
<1>8. QED
  BY <1>1, <1>4, <1>5, <1>7

-----------------------------------------------------------------------------
(* The knobs.  A control's latest event that is still in the FIFO, or else *)
(* last, has the control's position; what is in last is what the engine    *)
(* has; and nothing is in last until the engine was prepared.              *)

KnobPending ==
    \A c \in Moved \cap heard :
        /\ \A i \in 1..Len(queue) : IsLatest(queue, c, i) => queue[i][2] = knob[c]
        /\ ~Has(queue, c) => last[c] = Cc10(knob[c])
KnobTold == \A e \in AbsMap : last[Control(e)] # -1 => value[Key(e)] = last[Control(e)]
KnobFresh == pc \in {"wait", "prepare"} => \A c \in Controls : last[c] = -1
KnobInv == KnobPending /\ KnobTold /\ KnobFresh

LEMMA KnobInit == Init => KnobInv
<1> SUFFICES ASSUME Init PROVE KnobInv
  OBVIOUS
<1>1. heard = {} /\ \A c \in Controls : last[c] = -1
  BY DEF Init
<1>2. \A e \in AbsMap : Control(e) \in Controls
  BY DEF Controls
<1>3. QED
  BY <1>1, <1>2 DEF KnobInv, KnobPending, KnobTold, KnobFresh

LEMMA KnobImplies == TypeOK /\ KnobInv => KnobFollows
<1> SUFFICES ASSUME TypeOK, KnobInv, NEW e \in AbsMap,
                    Control(e) \in Moved \cap heard, ~Queued(Control(e))
             PROVE  value[Key(e)] = Cc10(knob[Control(e)])
  BY DEF KnobFollows
<1>1. ~Has(queue, Control(e))
  BY QueuedMeansHas DEF TypeOK
<1>2. last[Control(e)] = Cc10(knob[Control(e)])
  BY <1>1 DEF KnobInv, KnobPending
<1>3. knob[Control(e)] \in 0..127
  BY Constants DEF TypeOK
<1>4. QED
  BY <1>2, <1>3, Cc10Type DEF KnobInv, KnobTold

\* A report of something else.
LEMMA KnobElsewhere ==
    ASSUME TypeOK, KnobPending, NEW x \in Names \ Controls, NEW v \in 0..127,
           NEW name \in Names \ Controls, NEW ok, Emit(x, v, name, ok),
           UNCHANGED <<knob, last>>
    PROVE  KnobPending'
<1> SUFFICES ASSUME NEW c \in Moved, c \in heard'
             PROVE  /\ \A i \in 1..Len(queue') : IsLatest(queue', c, i) => queue'[i][2] = knob[c]
                    /\ ~Has(queue', c) => last[c] = Cc10(knob[c])
  BY DEF KnobPending
<1>1. c \in Controls /\ c # x /\ c # name
  BY Constants
<1>2. c \in heard
  BY <1>1 DEF Emit
<1>3. CASE queue' = queue
  BY <1>2, <1>3 DEF KnobPending
<1>4. CASE queue' = Append(queue, <<x, v>>)
  <2>1. queue \in Seq(Events) /\ <<x, v>> \in Events /\ <<x, v>>[1] = x
    BY DEF TypeOK, Events
  <2>2. /\ Has(queue', c) <=> Has(queue, c)
        /\ \A i \in 1..Len(queue') : IsLatest(queue', c, i) =>
             i \in 1..Len(queue) /\ queue'[i] = queue[i] /\ IsLatest(queue, c, i)
    <3>1. PICK r, y : r = queue' /\ y = <<x, v>>
      OBVIOUS
    <3>2. queue \in Seq(Events) /\ y \in Events /\ y[1] = x /\ r = Append(queue, y)
      BY <1>4, <2>1, <3>1
    <3>3. Has(r, c) <=> Has(queue, c) \/ y[1] = c
      BY <3>2, Appended
    <3>4. ASSUME NEW i \in 1..Len(r), IsLatest(r, c, i), y[1] # c
          PROVE  i \in 1..Len(queue) /\ r[i] = queue[i] /\ IsLatest(queue, c, i)
      BY <3>2, <3>4, OldLatest
    <3>5. QED
      BY <1>1, <3>1, <3>2, <3>3, <3>4
  <2>3. QED
    BY <1>2, <2>2 DEF KnobPending
<1>5. QED
  BY <1>3, <1>4, EmitTyped

LEMMA KnobTurns ==
    ASSUME TypeOK, KnobPending, NEW b \in Moved, NEW v \in Values, TurnKnob(b, v)
    PROVE  KnobPending'
<1> SUFFICES ASSUME NEW c \in Moved, c \in heard'
             PROVE  /\ \A i \in 1..Len(queue') : IsLatest(queue', c, i) => queue'[i][2] = knob'[c]
                    /\ ~Has(queue', c) => last'[c] = Cc10(knob'[c])
  BY DEF KnobPending
<1>1. /\ Emit(b, v, b, TRUE) /\ last' = last
      /\ knob' = [knob EXCEPT ![b] = v] /\ b \in Names /\ v \in 0..127
  BY Constants DEF TurnKnob, Names
<1>2. queue \in Seq(Events) /\ <<b, v>> \in Events /\ <<b, v>>[1] = b /\ <<b, v>>[2] = v
  BY <1>1 DEF TypeOK, Events
<1>3. /\ knob'[b] = v
      /\ c # b => c \in heard /\ knob'[c] = knob[c]
      /\ c = b => queue' = Append(queue, <<b, v>>)
  BY <1>1 DEF TypeOK, Emit
<1>4. CASE queue' = queue
  BY <1>1, <1>3, <1>4, <1>2, Appended DEF KnobPending
<1>5. CASE queue' = Append(queue, <<b, v>>)
  <2>1. /\ Has(queue', c) <=> Has(queue, c) \/ b = c
        /\ \A i \in 1..Len(queue') : IsLatest(queue', c, i) =>
             IF b = c THEN queue'[i] = <<b, v>>
             ELSE i \in 1..Len(queue) /\ queue'[i] = queue[i] /\ IsLatest(queue, c, i)
    <3>1. PICK r, y : r = queue' /\ y = <<b, v>>
      OBVIOUS
    <3>2. queue \in Seq(Events) /\ y \in Events /\ y[1] = b /\ r = Append(queue, y)
      BY <1>2, <1>5, <3>1
    <3>3. Has(r, c) <=> Has(queue, c) \/ y[1] = c
      BY <3>2, Appended
    <3>4. ASSUME NEW i \in 1..Len(r), IsLatest(r, c, i), y[1] # c
          PROVE  i \in 1..Len(queue) /\ r[i] = queue[i] /\ IsLatest(queue, c, i)
      BY <3>2, <3>4, OldLatest
    <3>5. ASSUME NEW i \in 1..Len(r), IsLatest(r, c, i), y[1] = c
          PROVE  r[i] = y
      BY <3>2, <3>5, NewLatest
    <3>6. QED
      BY <3>1, <3>2, <3>3, <3>4, <3>5
  <2>2. CASE c = b
    BY <1>2, <1>3, <2>1, <2>2
  <2>3. CASE c # b
    BY <1>1, <1>3, <2>1, <2>3 DEF KnobPending
  <2>4. QED
    BY <2>2, <2>3
<1>6. QED
  BY <1>1, <1>4, <1>5, EmitTyped

\* What an event does to last.
LEMMA KnobHandled ==
    ASSUME TypeOK, KnobInv, NEW x \in Names, NEW v \in 0..127, HandleEvent(x, v)
    PROVE  /\ KnobTold'
           /\ \A c \in Controls : last'[c] = IF c = x THEN Cc10(v) ELSE last[c]
<1>0. \A e \in AbsMap : Control(e) \in Controls /\ Key(e) \in Keys
  BY DEF Controls, Keys
<1>1. CASE x = Browse /\ HandleKnobPos(v)
  BY <1>1, NamesDiffer DEF HandleKnobPos, KnobInv, KnobTold
<1>2. ASSUME NEW d \in Decks, NEW hi \in BOOLEAN, HandlePitch(d, hi, v),
             x = <<Channel(d), IF hi THEN HI ELSE LO>>
      PROVE  UNCHANGED <<value, last>> /\ x \notin Controls
  <2>1. x \notin Controls
    BY <1>2, NamesDiffer DEF High, Low
  <2>2. UNCHANGED <<value, last>>
    BY <1>2 DEF HandlePitch
  <2>3. QED
    BY <2>1, <2>2
<1>3. CASE x \in Controls /\ HandleCcAbs(x, v)
  <2>1. PICK w : w = Cc10(v) /\ w # -1
    BY Cc10Type
  <2>2. PICK e0 \in AbsMap : Control(e0) = x
    BY <1>3 DEF Controls
  <2>3. {Control(e) : e \in Entries(x)} = {x}
    BY <2>2 DEF Entries
  <2>4. last' = [b \in Controls |-> IF b = x THEN w ELSE last[b]]
    BY <1>3, <2>1, <2>3 DEF HandleCcAbs
  <2>5. PICK news : /\ news = {Key(e) : e \in {e \in Entries(x) : last[Control(e)] # w}}
                    /\ value' = [k \in Keys |-> IF k \in news THEN w ELSE value[k]]
    BY <1>3, <2>1 DEF HandleCcAbs
  <2>6. ASSUME NEW e \in AbsMap, last'[Control(e)] # -1
        PROVE  value'[Key(e)] = last'[Control(e)]
    <3>1. value'[Key(e)] = IF Key(e) \in news THEN w ELSE value[Key(e)]
      BY <1>0, <2>5
    <3>2. last'[Control(e)] = IF Control(e) = x THEN w ELSE last[Control(e)]
      BY <1>0, <2>4
    <3>3. Key(e) \in news => Control(e) = x
      <4>1. ASSUME NEW f \in AbsMap, Control(f) = x, Key(f) = Key(e) PROVE Control(e) = x
        BY <4>1, KeyIsOwn
      <4>2. QED
        BY <2>5, <4>1 DEF Entries
    <3>4. Control(e) = x /\ last[Control(e)] # w => Key(e) \in news
      BY <2>5 DEF Entries
    <3>5. CASE Control(e) = x
      <4>1. CASE last[Control(e)] # w
        BY <3>1, <3>2, <3>4, <3>5, <4>1
      <4>2. CASE last[Control(e)] = w
        BY <2>1, <3>1, <3>2, <3>5, <4>2 DEF KnobInv, KnobTold
      <4>3. QED
        BY <4>1, <4>2
    <3>6. CASE Control(e) # x
      BY <2>6, <3>1, <3>2, <3>3, <3>6 DEF KnobInv, KnobTold
    <3>7. QED
      BY <3>5, <3>6
  <2>7. QED
    BY <2>1, <2>4, <2>6 DEF KnobTold
<1>4. CASE UNCHANGED <<value, last>> /\ x \notin Controls
  BY <1>4 DEF KnobInv, KnobTold
<1>5. QED
  BY <1>1, <1>2, <1>3, <1>4 DEF HandleEvent

LEMMA KnobReads ==
    ASSUME TypeOK, KnobInv, ReadEvent
    PROVE  KnobInv'
<1>1. PICK x \in Names, v \in 0..127 : x = queue[1][1] /\ v = queue[1][2]
  BY HeadTyped DEF ReadEvent
<1>2. HandleEvent(x, v)
  BY <1>1, HeadTyped DEF ReadEvent
<1>3. KnobTold' /\ \A c \in Controls : last'[c] = IF c = x THEN Cc10(v) ELSE last[c]
  BY <1>2, KnobHandled
<1>4. KnobFresh'
  BY DEF ReadEvent, setup, KnobFresh
<1>5. /\ queue \in Seq(Events) /\ queue # <<>> /\ queue' = Tail(queue)
      /\ knob' = knob /\ heard' = heard
  BY DEF ReadEvent, TypeOK
<1>6. ASSUME NEW c \in Moved, c \in heard'
      PROVE  /\ \A i \in 1..Len(queue') : IsLatest(queue', c, i) => queue'[i][2] = knob'[c]
             /\ ~Has(queue', c) => last'[c] = Cc10(knob'[c])
  <2>1. c \in Controls /\ c \in Moved \cap heard
    BY <1>5, <1>6, Constants
  <2>2. /\ Has(queue, c) <=> Has(queue', c) \/ queue[1][1] = c
        /\ ~Has(queue', c) => NoneAfter(queue, c, 1)
        /\ \A i \in 1..Len(queue') : IsLatest(queue', c, i) =>
             i + 1 \in 1..Len(queue) /\ queue'[i] = queue[i + 1] /\ IsLatest(queue, c, i + 1)
    BY <1>5, Removed
  <2>3. /\ \A i \in 1..Len(queue) : IsLatest(queue, c, i) => queue[i][2] = knob[c]
        /\ ~Has(queue, c) => last[c] = Cc10(knob[c])
    BY <2>1 DEF KnobInv, KnobPending
  <2>4. ASSUME ~Has(queue', c) PROVE last'[c] = Cc10(knob[c])
    <3>1. CASE c = x
      <4>1. IsLatest(queue, c, 1) /\ 1 \in 1..Len(queue)
        BY <1>1, <1>5, <2>2, <2>4, <3>1 DEF IsLatest
      <4>2. v = knob[c]
        BY <1>1, <2>3, <4>1
      <4>3. QED
        BY <1>3, <2>1, <3>1, <4>2
    <3>2. CASE c # x
      BY <1>1, <1>3, <2>1, <2>2, <2>3, <2>4, <3>2
    <3>3. QED
      BY <3>1, <3>2
  <2>5. QED
    BY <1>5, <2>2, <2>3, <2>4
<1>7. KnobPending'
  BY <1>6 DEF KnobPending
<1>8. QED
  BY <1>3, <1>4, <1>7 DEF KnobInv

LEMMA KnobNext ==
    ASSUME TypeOK, KnobInv, [Next]_vars
    PROVE  KnobInv'
<1>1. ASSUME NEW x \in Names \ Controls, NEW v \in 0..127,
             NEW name \in Names \ Controls, NEW ok, Emit(x, v, name, ok),
             UNCHANGED <<knob, last, value, pc>>
      PROVE  KnobInv'
  <2>1. KnobPending'
    BY <1>1, KnobElsewhere DEF KnobInv
  <2>2. KnobTold' /\ KnobFresh'
    BY <1>1 DEF KnobInv, KnobTold, KnobFresh
  <2>3. QED
    BY <2>1, <2>2 DEF KnobInv
<1>2. ASSUME NEW c \in Moved, NEW v \in Values, TurnKnob(c, v)
      PROVE  KnobInv'
  <2>1. KnobPending'
    BY <1>2, KnobTurns DEF KnobInv
  <2>2. KnobTold' /\ KnobFresh'
    BY <1>2 DEF TurnKnob, engine, setup, KnobInv, KnobTold, KnobFresh
  <2>3. QED
    BY <2>1, <2>2 DEF KnobInv
<1>3. ASSUME NEW d \in Slid, NEW p \in Positions, MoveFader(d, p)
      PROVE  KnobInv'
  <2>1. d \in Decks /\ p \in Places
    BY Constants
  <2>2. /\ High(d) \in Names \ Controls /\ Low(d) \in Names \ Controls
        /\ HighOf(p) \in 0..127
    BY <2>1, NamesDiffer, NamesOfFader, Halves
  <2>3. Emit(High(d), HighOf(p), Low(d), TRUE)
    BY <1>3 DEF MoveFader, High, Low, HighOf
  <2>4. QED
    BY <1>1, <1>3, <2>2, <2>3 DEF MoveFader, engine, setup
<1>4. ASSUME NEW d \in Slid, LowHalf(d)
      PROVE  KnobInv'
  <2>1. d \in Decks /\ fader[d] \in Places
    BY Constants DEF TypeOK
  <2>2. Low(d) \in Names \ Controls /\ LowOf(fader[d]) \in 0..127
    BY <2>1, NamesDiffer, NamesOfFader, Halves
  <2>3. Emit(Low(d), LowOf(fader[d]), Low(d), Low(d) \in heard)
    BY <1>4 DEF LowHalf, Low, LowOf
  <2>4. QED
    BY <1>1, <1>4, <2>2, <2>3 DEF LowHalf, engine, setup
<1>5. ASSUME NEW n \in Turns, TurnBrowse(n)
      PROVE  KnobInv'
  <2>1. Browse \in Names \ Controls /\ n % 128 \in 0..127
    BY TurnSurvives, NamesDiffer DEF Names
  <2>2. QED
    BY <1>1, <1>5, <2>1 DEF TurnBrowse, engine, setup
<1>6. CASE Prepare
  <2>1. KnobPending' /\ KnobFresh'
    BY <1>6 DEF Prepare, surface, KnobInv, KnobPending, KnobFresh
  <2>2. \A e \in AbsMap : Control(e) \in Controls
    BY DEF Controls
  <2>3. KnobTold'
    BY <1>6, <2>2 DEF Prepare, KnobInv, KnobFresh, KnobTold
  <2>4. QED
    BY <2>1, <2>3 DEF KnobInv
<1>7. ASSUME UNCHANGED <<surface, engine, last>>,
             pc' = pc \/ pc' \notin {"wait", "prepare"} \/ pc = "wait"
      PROVE  KnobInv'
  BY <1>7 DEF surface, engine, KnobInv, KnobPending, KnobTold, KnobFresh
<1>8. CASE KeyManager \/ ResetBfx \/ Wait \/ SeqSetup \/ Enforce \/ UNCHANGED vars
  BY <1>7, <1>8 DEF KeyManager, ResetBfx, Wait, SeqSetup, Enforce, vars, setup
<1>9. CASE ReadEvent
  BY <1>9, KnobReads
<1>10. QED
  BY <1>2, <1>3, <1>4, <1>5, <1>6, <1>8, <1>9 DEF Next, MidiThread

-----------------------------------------------------------------------------
(* The faders.  When the latest report of a fader is whole so far, its high *)
(* half is in the FIFO or in pitch; when both halves are out, the low half *)
(* is in the FIFO behind every high half, or the tempo is set.             *)

HighOK(d) ==
    /\ \A i \in 1..Len(queue) : IsLatest(queue, High(d), i)
         => queue[i][2] = HighOf(fader[d])
    /\ ~Has(queue, High(d))
         => pitch[d].have_hi /\ HighOf(pitch[d].pos) = HighOf(fader[d])
LowOK(d) ==
    /\ \A i \in 1..Len(queue) : IsLatest(queue, Low(d), i)
         => queue[i][2] = LowOf(fader[d]) /\ NoneAfter(queue, High(d), i)
    /\ ~Has(queue, Low(d)) => tempo[d] = Tempo(fader[d])
FaderOK(d) == Low(d) \in heard => HighOK(d) /\ (~due[d] => LowOK(d))
FaderInv == \A d \in Slid : FaderOK(d)

LEMMA FaderInit == Init => FaderInv
  BY DEF Init, FaderInv, FaderOK

LEMMA FaderImplies == TypeOK /\ FaderInv => TempoHeals
<1> SUFFICES ASSUME TypeOK, FaderInv, NEW d \in Slid,
                    Low(d) \in heard, ~due[d], ~Queued(Low(d))
             PROVE  tempo[d] = Tempo(fader[d])
  BY DEF TempoHeals, Low
<1>1. ~Has(queue, Low(d))
  BY QueuedMeansHas DEF TypeOK
<1>2. QED
  BY <1>1 DEF FaderInv, FaderOK, LowOK

\* A report of something else.
LEMMA FaderElsewhere ==
    ASSUME TypeOK, NEW d \in Slid, FaderOK(d),
           NEW x \in Names, NEW v \in 0..127, NEW name, NEW ok, Emit(x, v, name, ok),
           x # High(d), x # Low(d), name # Low(d),
           fader'[d] = fader[d], due'[d] = due[d], UNCHANGED <<pitch, tempo>>
    PROVE  FaderOK(d)'
<1>1. Low(d) \in heard' => Low(d) \in heard
  BY DEF Emit
<1>2. PICK y : y = <<x, v>>
  OBVIOUS
<1>3. queue \in Seq(Events) /\ y \in Events /\ y[1] = x
  BY <1>2 DEF TypeOK, Events
<1>4. CASE queue' = queue
  BY <1>1, <1>4 DEF FaderOK, HighOK, LowOK
<1>5. CASE queue' = Append(queue, y)
  <2>1. ASSUME NEW c, c # x
        PROVE  /\ Has(queue', c) <=> Has(queue, c)
               /\ \A i \in 1..Len(queue') : IsLatest(queue', c, i) =>
                    /\ i \in 1..Len(queue) /\ queue'[i] = queue[i] /\ IsLatest(queue, c, i)
                    /\ \A b : b # x /\ NoneAfter(queue, b, i) => NoneAfter(queue', b, i)
    <3>1. PICK r : r = queue'
      OBVIOUS
    <3>2. Has(r, c) <=> Has(queue, c)
      BY <1>3, <1>5, <2>1, <3>1, Appended
    <3>3. ASSUME NEW i \in 1..Len(r), IsLatest(r, c, i)
          PROVE  /\ i \in 1..Len(queue) /\ r[i] = queue[i] /\ IsLatest(queue, c, i)
                 /\ \A b : b # x /\ NoneAfter(queue, b, i) => NoneAfter(r, b, i)
      BY <1>3, <1>5, <2>1, <3>1, <3>3, OldLatest
    <3>4. QED
      BY <3>1, <3>2, <3>3
  <2>2. HighOK(d) => HighOK(d)'
    BY <2>1 DEF HighOK
  <2>3. LowOK(d) => LowOK(d)'
    BY <2>1 DEF LowOK
  <2>4. QED
    BY <1>1, <2>2, <2>3 DEF FaderOK
<1>6. QED
  BY <1>2, <1>4, <1>5, EmitTyped

\* The high half of a report; the low half is due.
LEMMA FaderMoves ==
    ASSUME TypeOK, NEW d \in Slid, NEW p \in Positions, MoveFader(d, p)
    PROVE  FaderOK(d)'
<1>1. High(d) # Low(d) /\ High(d) \in Names /\ p \in Places /\ HighOf(p) \in 0..127
  BY NamesDiffer, NamesOfFader, Constants, Halves
<1>2. PICK y : y = <<High(d), HighOf(p)>>
  OBVIOUS
<1>3. queue \in Seq(Events) /\ y \in Events /\ y[1] = High(d) /\ y[2] = HighOf(p)
  BY <1>1, <1>2 DEF TypeOK, Events
<1>4. due'[d] /\ fader'[d] = p
  BY DEF MoveFader, TypeOK
<1>5. Low(d) \in heard' => queue' = Append(queue, y)
  BY <1>2 DEF MoveFader, Emit, High, Low, HighOf
<1>6. ASSUME queue' = Append(queue, y) PROVE HighOK(d)'
  <2>1. PICK r : r = queue'
    OBVIOUS
  <2>2. Has(r, High(d))
    BY <1>3, <1>6, <2>1, Appended
  <2>3. ASSUME NEW i \in 1..Len(r), IsLatest(r, High(d), i) PROVE r[i] = y
    <3>1. PICK c : c = y[1]
      OBVIOUS
    <3>2. queue \in Seq(Events) /\ y \in Events /\ r = Append(queue, y) /\ IsLatest(r, c, i)
      BY <1>3, <1>6, <2>1, <2>3, <3>1
    <3>3. r[i] = y /\ \A b : NoneAfter(r, b, i)
      BY <3>1, <3>2, NewLatest
    <3>4. QED
      BY <3>3
  <2>4. QED
    BY <1>3, <1>4, <2>1, <2>2, <2>3 DEF HighOK
<1>7. QED
  BY <1>4, <1>5, <1>6 DEF FaderOK

\* The low half follows the high half.
LEMMA FaderEnds ==
    ASSUME TypeOK, NEW d \in Slid, FaderOK(d), LowHalf(d)
    PROVE  FaderOK(d)'
<1>1. /\ High(d) # Low(d) /\ Low(d) \in Names /\ fader[d] \in Places
      /\ LowOf(fader[d]) \in 0..127
  BY NamesDiffer, NamesOfFader, Constants, Halves DEF TypeOK
<1>2. PICK y : y = <<Low(d), LowOf(fader[d])>>
  OBVIOUS
<1>3. queue \in Seq(Events) /\ y \in Events /\ y[1] = Low(d) /\ y[2] = LowOf(fader[d])
  BY <1>1, <1>2 DEF TypeOK, Events
<1>4. UNCHANGED <<fader, pitch, tempo>>
  BY DEF LowHalf, engine
<1>5. Low(d) \in heard' => queue' = Append(queue, y) /\ Low(d) \in heard
  BY <1>2 DEF LowHalf, Emit, Low, LowOf
<1>6. ASSUME queue' = Append(queue, y), HighOK(d) PROVE HighOK(d)' /\ LowOK(d)'
  <2>1. PICK r : r = queue'
    OBVIOUS
  <2>2. Has(r, Low(d)) /\ (Has(r, High(d)) <=> Has(queue, High(d)))
    BY <1>1, <1>3, <1>6, <2>1, Appended
  <2>3. ASSUME NEW i \in 1..Len(r), IsLatest(r, Low(d), i)
        PROVE  r[i] = y /\ NoneAfter(r, High(d), i)
    <3>1. PICK c : c = y[1]
      OBVIOUS
    <3>2. queue \in Seq(Events) /\ y \in Events /\ r = Append(queue, y) /\ IsLatest(r, c, i)
      BY <1>3, <1>6, <2>1, <2>3, <3>1
    <3>3. r[i] = y /\ \A b : NoneAfter(r, b, i)
      BY <3>1, <3>2, NewLatest
    <3>4. QED
      BY <3>3
  <2>4. ASSUME NEW i \in 1..Len(r), IsLatest(r, High(d), i)
        PROVE  i \in 1..Len(queue) /\ r[i] = queue[i] /\ IsLatest(queue, High(d), i)
    BY <1>1, <1>3, <1>6, <2>1, <2>4, OldLatest
  <2>5. HighOK(d)'
    BY <1>4, <1>6, <2>1, <2>2, <2>4 DEF HighOK
  <2>6. LowOK(d)'
    BY <1>3, <1>4, <2>1, <2>2, <2>3 DEF LowOK
  <2>7. QED
    BY <2>5, <2>6
<1>7. QED
  BY <1>5, <1>6 DEF FaderOK

\* What an event does to a deck's pitch and tempo.
LEMMA PitchHandled ==
    ASSUME TypeOK, NEW d \in Decks, NEW x \in Names, NEW v \in 0..127, HandleEvent(x, v)
    PROVE  \/ /\ x # High(d) /\ x # Low(d)
              /\ pitch'[d] = pitch[d] /\ tempo'[d] = tempo[d]
           \/ x = High(d) /\ pitch'[d] = Store(pitch[d], TRUE, v) /\ tempo'[d] = tempo[d]
           \/ /\ x = Low(d) /\ pitch'[d] = Store(pitch[d], FALSE, v)
              /\ pitch'[d].ready => tempo'[d] = Tempo(pitch'[d].pos)
<1>1. CASE x = Browse /\ HandleKnobPos(v)
  BY <1>1, NamesDiffer DEF HandleKnobPos
<1>2. CASE x \in Controls /\ HandleCcAbs(x, v)
  BY <1>2, NamesDiffer DEF HandleCcAbs
<1>3. ASSUME NEW b \in Decks, NEW hi \in BOOLEAN, HandlePitch(b, hi, v),
             x = IF hi THEN High(b) ELSE Low(b)
      PROVE  \/ /\ x # High(d) /\ x # Low(d)
                /\ pitch'[d] = pitch[d] /\ tempo'[d] = tempo[d]
             \/ x = High(d) /\ pitch'[d] = Store(pitch[d], TRUE, v) /\ tempo'[d] = tempo[d]
             \/ /\ x = Low(d) /\ pitch'[d] = Store(pitch[d], FALSE, v)
                /\ pitch'[d].ready => tempo'[d] = Tempo(pitch'[d].pos)
  <2>1. PICK s : s = Store(pitch[b], hi, v)
    OBVIOUS
  <2>2. /\ pitch' = [pitch EXCEPT ![b] = s]
        /\ tempo' = IF s.ready /\ ~hi THEN [tempo EXCEPT ![b] = Tempo(s.pos)] ELSE tempo
    BY <1>3, <2>1 DEF HandlePitch
  <2>3. CASE b # d
    <3>1. pitch'[d] = pitch[d] /\ tempo'[d] = tempo[d]
      BY <2>2, <2>3 DEF TypeOK
    <3>2. x # High(d) /\ x # Low(d)
      BY <1>3, <2>3, NamesDiffer
    <3>3. QED
      BY <3>1, <3>2
  <2>4. CASE b = d /\ hi
    BY <1>3, <2>1, <2>2, <2>4 DEF TypeOK
  <2>5. CASE b = d /\ ~hi
    <3>1. pitch'[d] = s /\ x = Low(d) /\ hi = FALSE
      BY <1>3, <2>2, <2>5 DEF TypeOK
    <3>2. s.ready => tempo'[d] = Tempo(s.pos)
      BY <2>2, <2>5 DEF TypeOK
    <3>3. QED
      BY <2>1, <2>5, <3>1, <3>2
  <2>6. QED
    BY <2>3, <2>4, <2>5
<1>4. QED
  BY <1>1, <1>2, <1>3 DEF HandleEvent, High, Low

\* An event of the fader is read: the latest high half is kept, and the latest
\* low half finds it there.
LEMMA FaderReads ==
    ASSUME TypeOK, NEW d \in Slid, FaderOK(d), ReadEvent
    PROVE  FaderOK(d)'
<1>1. PICK x \in Names, v \in 0..127 : x = queue[1][1] /\ v = queue[1][2]
  BY HeadTyped DEF ReadEvent
<1>2. HandleEvent(x, v)
  BY <1>1, HeadTyped DEF ReadEvent
<1>3. /\ queue \in Seq(Events) /\ queue # <<>> /\ queue' = Tail(queue)
      /\ UNCHANGED <<fader, due, heard>>
  BY DEF ReadEvent, TypeOK
<1>4. /\ d \in Decks /\ fader[d] \in Places /\ High(d) # Low(d)
      /\ pitch[d] \in States
  BY Constants, NamesDiffer DEF TypeOK
<1>5. 1 \in 1..Len(queue)
  BY <1>3
<1>6. ASSUME NEW c
      PROVE  /\ Has(queue, c) <=> Has(queue', c) \/ queue[1][1] = c
             /\ ~Has(queue', c) => NoneAfter(queue, c, 1)
             /\ \A i \in 1..Len(queue') : IsLatest(queue', c, i) =>
                  /\ i + 1 \in 1..Len(queue) /\ queue'[i] = queue[i + 1]
                  /\ IsLatest(queue, c, i + 1)
                  /\ \A b : NoneAfter(queue, b, i + 1) => NoneAfter(queue', b, i)
  BY <1>3, Removed
<1>7. /\ x = High(d) => HighOf(pitch'[d].pos) = v /\ pitch'[d].have_hi
      /\ x = Low(d) => /\ pitch'[d].have_hi = pitch[d].have_hi
                       /\ HighOf(pitch'[d].pos) = HighOf(pitch[d].pos)
                       /\ LowOf(pitch'[d].pos) = v
                       /\ pitch[d].have_hi => tempo'[d] = Tempo(pitch'[d].pos)
      /\ x # Low(d) => tempo'[d] = tempo[d]
      /\ x # Low(d) /\ x # High(d) => pitch'[d] = pitch[d]
      /\ pitch'[d] \in States
  <2>1. ASSUME NEW hi \in BOOLEAN
        PROVE  /\ Store(pitch[d], hi, v) \in States
               /\ hi => /\ Store(pitch[d], hi, v).have_hi
                        /\ HighOf(Store(pitch[d], hi, v).pos) = v
               /\ ~hi => /\ Store(pitch[d], hi, v).have_hi = pitch[d].have_hi
                         /\ HighOf(Store(pitch[d], hi, v).pos) = HighOf(pitch[d].pos)
                         /\ LowOf(Store(pitch[d], hi, v).pos) = v
                         /\ pitch[d].have_hi => Store(pitch[d], hi, v).ready
    BY <1>4, StoreHalf
  <2>2. CASE x = High(d)
    <3>1. pitch'[d] = Store(pitch[d], TRUE, v) /\ tempo'[d] = tempo[d] /\ x # Low(d)
      BY <1>2, <1>4, <2>2, PitchHandled
    <3>2. QED
      BY <2>1, <2>2, <3>1
  <2>3. CASE x = Low(d)
    <3>1. /\ pitch'[d] = Store(pitch[d], FALSE, v) /\ x # High(d)
          /\ pitch'[d].ready => tempo'[d] = Tempo(pitch'[d].pos)
      BY <1>2, <1>4, <2>3, PitchHandled
    <3>2. QED
      BY <2>1, <2>3, <3>1
  <2>4. CASE x # High(d) /\ x # Low(d)
    BY <1>2, <1>4, <2>4, PitchHandled
  <2>5. QED
    BY <2>2, <2>3, <2>4
<1>8. ASSUME HighOK(d) PROVE HighOK(d)'
  <2>1. ASSUME ~Has(queue', High(d))
        PROVE  pitch'[d].have_hi /\ HighOf(pitch'[d].pos) = HighOf(fader[d])
    <3>1. CASE x = High(d)
      <4>1. IsLatest(queue, High(d), 1)
        BY <1>1, <1>6, <2>1, <3>1 DEF IsLatest
      <4>2. v = HighOf(fader[d])
        BY <1>1, <1>5, <1>8, <4>1 DEF HighOK
      <4>3. QED
        BY <1>7, <3>1, <4>2
    <3>2. CASE x # High(d)
      <4>1. ~Has(queue, High(d))
        BY <1>1, <1>6, <2>1, <3>2
      <4>2. pitch[d].have_hi /\ HighOf(pitch[d].pos) = HighOf(fader[d])
        BY <1>8, <4>1 DEF HighOK
      <4>3. QED
        BY <1>7, <3>2, <4>2
    <3>3. QED
      BY <3>1, <3>2
  <2>2. ASSUME NEW i \in 1..Len(queue'), IsLatest(queue', High(d), i)
        PROVE  queue'[i][2] = HighOf(fader[d])
    BY <1>6, <1>8, <2>2 DEF HighOK
  <2>3. QED
    BY <1>3, <2>1, <2>2 DEF HighOK
<1>9. ASSUME HighOK(d), LowOK(d) PROVE LowOK(d)'
  <2>1. ASSUME ~Has(queue', Low(d))
        PROVE  tempo'[d] = Tempo(fader[d])
    <3>1. CASE x = Low(d)
      <4>1. IsLatest(queue, Low(d), 1)
        BY <1>1, <1>6, <2>1, <3>1 DEF IsLatest
      <4>2. v = LowOf(fader[d]) /\ NoneAfter(queue, High(d), 1)
        BY <1>1, <1>5, <1>9, <4>1 DEF LowOK
      <4>3. ~Has(queue, High(d))
        <5>1. queue[1][1] # High(d)
          BY <1>1, <1>4, <3>1
        <5>2. SUFFICES ASSUME NEW i \in 1..Len(queue), queue[i][1] = High(d) PROVE FALSE
          BY DEF Has
        <5>3. i = 1
          BY <1>3, <4>2, <5>2 DEF NoneAfter
        <5>4. QED
          BY <5>1, <5>2, <5>3
      <4>4. pitch[d].have_hi /\ HighOf(pitch[d].pos) = HighOf(fader[d])
        BY <1>9, <4>3 DEF HighOK
      <4>5. PICK p \in Places : p = pitch'[d].pos
        BY <1>7 DEF States
      <4>6. /\ HighOf(p) = HighOf(fader[d]) /\ LowOf(p) = LowOf(fader[d])
            /\ tempo'[d] = Tempo(p)
        BY <1>7, <3>1, <4>2, <4>4, <4>5
      <4>7. p = HighOf(p) * 128 + LowOf(p) /\ fader[d] = HighOf(p) * 128 + LowOf(p)
        BY <1>4, <4>6, Halves
      <4>8. QED
        BY <4>6, <4>7
    <3>2. CASE x # Low(d)
      BY <1>1, <1>6, <1>7, <1>9, <2>1, <3>2 DEF LowOK
    <3>3. QED
      BY <3>1, <3>2
  <2>2. ASSUME NEW i \in 1..Len(queue'), IsLatest(queue', Low(d), i)
        PROVE  queue'[i][2] = LowOf(fader[d]) /\ NoneAfter(queue', High(d), i)
    BY <1>6, <1>9, <2>2 DEF LowOK
  <2>3. QED
    BY <1>3, <2>1, <2>2 DEF LowOK
<1>10. QED
  BY <1>3, <1>8, <1>9 DEF FaderOK

LEMMA FaderNext ==
    ASSUME TypeOK, FaderInv, [Next]_vars
    PROVE  FaderInv'
<1> SUFFICES ASSUME NEW d \in Slid PROVE FaderOK(d)'
  BY DEF FaderInv
<1>0. FaderOK(d) /\ d \in Decks /\ High(d) # Low(d)
  BY Constants, NamesDiffer DEF FaderInv
<1>1. ASSUME NEW c \in Moved, NEW v \in Values, TurnKnob(c, v)
      PROVE  FaderOK(d)'
  <2>1. c \in Names /\ c # High(d) /\ c # Low(d) /\ v \in 0..127
    BY <1>0, Constants, NamesDiffer DEF Names
  <2>2. QED
    BY <1>0, <1>1, <2>1, FaderElsewhere DEF TurnKnob, engine
<1>2. ASSUME NEW b \in Slid, NEW p \in Positions, MoveFader(b, p)
      PROVE  FaderOK(d)'
  <2>1. CASE b = d
    BY <1>2, <2>1, FaderMoves
  <2>2. CASE b # d
    <3>1. b \in Decks /\ p \in Places
      BY Constants
    <3>2. /\ High(b) \in Names /\ HighOf(p) \in 0..127
          /\ High(b) # High(d) /\ High(b) # Low(d) /\ Low(b) # Low(d)
      BY <1>0, <2>2, <3>1, NamesDiffer, NamesOfFader, Halves
    <3>3. Emit(High(b), HighOf(p), Low(b), TRUE)
      BY <1>2 DEF MoveFader, High, Low, HighOf
    <3>4. fader'[d] = fader[d] /\ due'[d] = due[d] /\ UNCHANGED <<pitch, tempo>>
      BY <1>2, <2>2 DEF MoveFader, engine, TypeOK
    <3>5. QED
      BY <1>0, <3>2, <3>3, <3>4, FaderElsewhere
  <2>3. QED
    BY <2>1, <2>2
<1>3. ASSUME NEW b \in Slid, LowHalf(b)
      PROVE  FaderOK(d)'
  <2>1. CASE b = d
    BY <1>0, <1>3, <2>1, FaderEnds
  <2>2. CASE b # d
    <3>1. b \in Decks /\ fader[b] \in Places
      BY Constants DEF TypeOK
    <3>2. /\ Low(b) \in Names /\ LowOf(fader[b]) \in 0..127
          /\ Low(b) # High(d) /\ Low(b) # Low(d)
      BY <1>0, <2>2, <3>1, NamesDiffer, NamesOfFader, Halves
    <3>3. Emit(Low(b), LowOf(fader[b]), Low(b), Low(b) \in heard)
      BY <1>3 DEF LowHalf, Low, LowOf
    <3>4. fader'[d] = fader[d] /\ due'[d] = due[d] /\ UNCHANGED <<pitch, tempo>>
      BY <1>3, <2>2 DEF LowHalf, engine, TypeOK
    <3>5. QED
      BY <1>0, <3>2, <3>3, <3>4, FaderElsewhere
  <2>3. QED
    BY <2>1, <2>2
<1>4. ASSUME NEW n \in Turns, TurnBrowse(n)
      PROVE  FaderOK(d)'
  <2>1. Browse \in Names /\ Browse # High(d) /\ Browse # Low(d) /\ n % 128 \in 0..127
    BY <1>0, TurnSurvives, NamesDiffer DEF Names
  <2>2. QED
    BY <1>0, <1>4, <2>1, FaderElsewhere DEF TurnBrowse, engine
<1>5. CASE KeyManager \/ ResetBfx \/ Wait \/ Prepare \/ SeqSetup \/ Enforce \/ UNCHANGED vars
  <2>1. UNCHANGED <<surface, tempo, pitch>>
    BY <1>5 DEF KeyManager, ResetBfx, Wait, Prepare, SeqSetup, Enforce, vars, engine
  <2>2. QED
    BY <1>0, <2>1 DEF surface, FaderOK, HighOK, LowOK
<1>6. CASE ReadEvent
  BY <1>0, <1>6, FaderReads
<1>7. QED
  BY <1>1, <1>2, <1>3, <1>4, <1>5, <1>6 DEF Next, MidiThread

-----------------------------------------------------------------------------
(* The browse knob.  A ledger of the FIFO: f[i] is where the selector will *)
(* be once the first i events were handled.  It starts at the cursor, ends *)
(* at what the knob was turned, and moves at a browse event only.          *)

Cost(x) == IF x[1] = Browse THEN Clamp(Signed(x[2]) * Scale) ELSE 0
Ledger(f, q, a, z) ==
    /\ f \in [0..Len(q) -> Int] /\ f[0] = a /\ f[Len(q)] = z
    /\ \A i \in 1..Len(q) : f[i] = f[i - 1] + Cost(q[i])
    /\ \A i, j \in 0..Len(q) : i <= j /\ (\A k \in i+1..j : q[k][1] # Browse) => f[j] = f[i]
BrowseInv == cursor \in Int /\ turned \in Int /\ \E f : Ledger(f, queue, cursor, turned)

LEMMA BrowseInit == Init => BrowseInv
<1> SUFFICES ASSUME Init PROVE BrowseInv
  OBVIOUS
<1>1. cursor = 0 /\ turned = 0 /\ queue = <<>> /\ Len(queue) = 0
  BY DEF Init
<1>2. PICK f : f = [i \in 0..0 |-> 0]
  OBVIOUS
<1>3. Ledger(f, queue, 0, 0)
  BY <1>1, <1>2 DEF Ledger
<1>4. QED
  BY <1>1, <1>3 DEF BrowseInv

LEMMA BrowseImplies == TypeOK /\ BrowseInv => BrowseFollows
<1> SUFFICES ASSUME TypeOK, BrowseInv, ~Queued(Browse)
             PROVE  cursor = turned
  BY DEF BrowseFollows
<1>1. PICK f : Ledger(f, queue, cursor, turned)
  BY DEF BrowseInv
<1>2. PICK n \in Nat : n = Len(queue)
  BY DEF TypeOK
<1>3. \A k \in 1..n : queue[k][1] # Browse
  BY <1>2, QueuedMeansHas DEF TypeOK, Has
<1>4. f[n] = f[0]
  BY <1>1, <1>2, <1>3 DEF Ledger
<1>5. QED
  BY <1>1, <1>2, <1>4 DEF Ledger

\* An event that enters the FIFO extends the ledger, one that is read leaves it.
LEMMA LedgerAppends ==
    ASSUME NEW q \in Seq(Events), NEW x \in Events, NEW r, r = Append(q, x),
           NEW f, NEW a \in Int, NEW z \in Int, NEW c \in Int, c = Cost(x),
           Ledger(f, q, a, z)
    PROVE  \E g : Ledger(g, r, a, z + c)
<1>1. /\ Len(r) = Len(q) + 1 /\ Len(q) \in Nat
      /\ \A k \in 1..Len(q) : r[k] = q[k]
      /\ r[Len(q) + 1] = x
  OBVIOUS
<1>2. PICK n \in Nat : n = Len(q)
  BY <1>1
<1>3. /\ Len(r) = n + 1 /\ r[n + 1] = x
      /\ \A k \in 1..n : r[k] = q[k]
  BY <1>1, <1>2
<1>4. /\ f \in [0..n -> Int] /\ f[0] = a /\ f[n] = z
      /\ \A i \in 1..n : f[i] = f[i - 1] + Cost(q[i])
      /\ \A i, j \in 0..n : i <= j /\ (\A k \in i+1..j : q[k][1] # Browse) => f[j] = f[i]
  BY <1>2 DEF Ledger
<1>5. PICK g : g = [i \in 0..n+1 |-> IF i = n + 1 THEN z + c ELSE f[i]]
  OBVIOUS
<1>6. /\ g \in [0..n+1 -> Int] /\ g[0] = a /\ g[n + 1] = z + c
      /\ \A i \in 0..n : g[i] = f[i]
  BY <1>4, <1>5
<1>7. ASSUME NEW i \in 1..n+1 PROVE g[i] = g[i - 1] + Cost(r[i])
  <2>1. CASE i = n + 1
    BY <1>3, <1>4, <1>6, <2>1
  <2>2. CASE i \in 1..n
    BY <1>3, <1>4, <1>6, <2>2
  <2>3. i = n + 1 \/ i \in 1..n
    OBVIOUS
  <2>4. QED
    BY <2>1, <2>2, <2>3, Zenon
<1>8. ASSUME NEW i \in 0..n+1, NEW j \in 0..n+1, i <= j,
             \A k \in i+1..j : r[k][1] # Browse
      PROVE  g[j] = g[i]
  <2>1. CASE i = n + 1
    BY <1>8, <2>1
  <2>2. CASE i \in 0..n /\ j \in 0..n
    <3>1. \A k \in i+1..j : q[k][1] # Browse
      BY <1>3, <1>8, <2>2
    <3>2. f[j] = f[i]
      BY <1>4, <1>8, <2>2, <3>1
    <3>3. QED
      BY <1>6, <2>2, <3>2
  <2>3. CASE i \in 0..n /\ j = n + 1
    <3>1. \A k \in i+1..n : q[k][1] # Browse
      BY <1>3, <1>8, <2>3
    <3>2. f[n] = f[i]
      BY <1>4, <2>3, <3>1
    <3>3. x[1] # Browse
      BY <1>3, <1>8, <2>3
    <3>4. c = 0
      BY <3>3 DEF Cost
    <3>5. QED
      BY <1>4, <1>6, <2>3, <3>2, <3>4
  <2>4. QED
    BY <2>1, <2>2, <2>3
<1>9. Ledger(g, r, a, z + c)
  BY <1>3, <1>6, <1>7, <1>8 DEF Ledger
<1>10. QED
  BY <1>9

LEMMA LedgerRemoves ==
    ASSUME NEW q \in Seq(Events), q # <<>>, NEW r, r = Tail(q),
           NEW f, NEW a \in Int, NEW z \in Int, NEW c \in Int, c = Cost(q[1]),
           Ledger(f, q, a, z)
    PROVE  \E g : Ledger(g, r, a + c, z)
<1>1. /\ Len(r) = Len(q) - 1 /\ Len(q) \in Nat \ {0}
      /\ \A i \in 1..Len(r) : r[i] = q[i + 1]
  OBVIOUS
<1>2. PICK n \in Nat : n = Len(r)
  <2>1. Len(r) \in Nat
    BY <1>1
  <2>2. QED
    BY <2>1
<1>3. Len(q) = n + 1 /\ \A i \in 1..n : r[i] = q[i + 1]
  BY <1>1, <1>2
<1>4. /\ f \in [0..n+1 -> Int] /\ f[0] = a /\ f[n + 1] = z
      /\ \A i \in 1..n+1 : f[i] = f[i - 1] + Cost(q[i])
      /\ \A i, j \in 0..n+1 : i <= j /\ (\A k \in i+1..j : q[k][1] # Browse) => f[j] = f[i]
  BY <1>3 DEF Ledger
<1>5. PICK g : g = [i \in 0..n |-> f[i + 1]]
  OBVIOUS
<1>6. /\ g \in [0..n -> Int] /\ g[n] = z
      /\ \A i \in 0..n : g[i] = f[i + 1]
  BY <1>4, <1>5
<1>7. g[0] = a + c
  <2>1. f[1] = f[0] + Cost(q[1])
    BY <1>4
  <2>2. QED
    BY <1>4, <1>6, <2>1
<1>8. ASSUME NEW i \in 1..n PROVE g[i] = g[i - 1] + Cost(r[i])
  <2>1. f[i + 1] = f[i] + Cost(q[i + 1])
    BY <1>4
  <2>2. QED
    BY <1>3, <1>6, <2>1
<1>9. ASSUME NEW i \in 0..n, NEW j \in 0..n, i <= j,
             \A k \in i+1..j : r[k][1] # Browse
      PROVE  g[j] = g[i]
  <2>1. ASSUME NEW k \in i+1+1..j+1 PROVE q[k][1] # Browse
    <3>1. k - 1 \in i+1..j /\ r[k - 1] = q[k]
      BY <1>3
    <3>2. QED
      BY <1>9, <3>1
  <2>2. f[j + 1] = f[i + 1]
    BY <1>4, <1>9, <2>1
  <2>3. QED
    BY <1>6, <2>2
<1>10. Ledger(g, r, a + c, z)
  BY <1>2, <1>6, <1>7, <1>8, <1>9 DEF Ledger
<1>11. QED
  BY <1>10

LEMMA CostTypes ==
    ASSUME NEW x \in Events
    PROVE  Cost(x) \in Int
<1>1. x[2] \in 0..127 /\ Scale \in Int
  BY Constants DEF Events
<1>2. Signed(x[2]) \in Int
  BY <1>1 DEF Signed
<1>3. PICK m : m = Signed(x[2]) * Scale
  OBVIOUS
<1>4. m \in Int
  BY <1>1, <1>2, <1>3
<1>5. Clamp(m) \in Int
  BY <1>4 DEF Clamp
<1>6. QED
  BY <1>3, <1>5 DEF Cost

\* A report of something else than the browse knob costs nothing.
LEMMA BrowseElsewhere ==
    ASSUME TypeOK, BrowseInv, NEW x \in Names \ {Browse}, NEW v \in 0..127,
           NEW name, NEW ok, Emit(x, v, name, ok), UNCHANGED <<cursor, turned>>
    PROVE  BrowseInv'
<1>1. CASE queue' = queue
  BY <1>1 DEF BrowseInv
<1>2. CASE queue' = Append(queue, <<x, v>>)
  <2>1. PICK r, y : r = queue' /\ y = <<x, v>>
    OBVIOUS
  <2>2. /\ queue \in Seq(Events) /\ y \in Events /\ r = Append(queue, y) /\ y[1] # Browse
    BY <1>2, <2>1 DEF TypeOK, Events
  <2>3. PICK c \in Int : c = Cost(y) /\ c = 0
    BY <2>2 DEF Cost
  <2>4. PICK f : Ledger(f, queue, cursor, turned)
    BY DEF BrowseInv
  <2>5. cursor \in Int /\ turned \in Int
    BY DEF BrowseInv
  <2>6. \E g : Ledger(g, r, cursor, turned + c)
    BY <2>2, <2>3, <2>4, <2>5, LedgerAppends
  <2>7. turned + c = turned
    BY <2>3, <2>5
  <2>8. QED
    BY <2>1, <2>5, <2>6, <2>7 DEF BrowseInv
<1>3. QED
  BY <1>1, <1>2, EmitTyped

LEMMA BrowseTurns ==
    ASSUME TypeOK, BrowseInv, NEW n \in Turns, TurnBrowse(n)
    PROVE  BrowseInv'
<1>1. /\ Emit(Browse, n % 128, Browse, TRUE) /\ cursor' = cursor
      /\ turned' = IF Browse \in heard' THEN turned + Worth(n) ELSE turned
  BY DEF TurnBrowse, engine
<1>2. /\ Browse \in Names /\ n % 128 \in 0..127
      /\ Clamp(Signed(n % 128) * Scale) = Worth(n) /\ Worth(n) \in Int
  BY TurnSurvives DEF Names
<1>3. PICK f : Ledger(f, queue, cursor, turned)
  BY DEF BrowseInv
<1>4. cursor \in Int /\ turned \in Int
  BY DEF BrowseInv
<1>5. CASE Subscribed /\ Len(queue) < QueueLen
  <2>1. PICK r, y : r = queue' /\ y = <<Browse, n % 128>>
    OBVIOUS
  <2>2. /\ queue \in Seq(Events) /\ y \in Events /\ r = Append(queue, y)
        /\ y[1] = Browse /\ y[2] = n % 128
    BY <1>1, <1>2, <1>5, <2>1 DEF Emit, TypeOK, Events
  <2>3. PICK c \in Int : c = Cost(y) /\ c = Worth(n)
    BY <1>2, <2>2 DEF Cost
  <2>4. Browse \in heard' /\ turned' = turned + c
    BY <1>1, <1>5, <2>3 DEF Emit
  <2>5. \E g : Ledger(g, r, cursor, turned + c)
    BY <1>3, <1>4, <2>2, <2>3, LedgerAppends
  <2>6. turned' \in Int
    BY <1>4, <2>3, <2>4
  <2>7. QED
    BY <1>1, <1>4, <2>1, <2>4, <2>5, <2>6 DEF BrowseInv
<1>6. CASE ~(Subscribed /\ Len(queue) < QueueLen)
  <2>1. queue' = queue /\ Browse \notin heard'
    BY <1>1, <1>6 DEF Emit
  <2>2. turned' = turned
    BY <1>1, <2>1
  <2>3. QED
    BY <1>1, <2>1, <2>2 DEF BrowseInv
<1>7. QED
  BY <1>5, <1>6

LEMMA BrowseReads ==
    ASSUME TypeOK, BrowseInv, ReadEvent
    PROVE  BrowseInv'
<1>1. PICK x \in Names, v \in 0..127 : x = queue[1][1] /\ v = queue[1][2]
  BY HeadTyped DEF ReadEvent
<1>2. HandleEvent(x, v) /\ turned' = turned
  BY <1>1, HeadTyped DEF ReadEvent
<1>3. queue \in Seq(Events) /\ queue # <<>> /\ queue' = Tail(queue)
  BY DEF ReadEvent, TypeOK
<1>4. PICK y \in Events : y = queue[1]
  BY <1>3
<1>5. PICK c \in Int : c = Cost(y)
  BY CostTypes
<1>6. cursor' = cursor + c /\ cursor \in Int /\ turned \in Int
  <2>1. cursor \in Int /\ turned \in Int
    BY DEF BrowseInv
  <2>2. CASE x = Browse
    <3>1. HandleKnobPos(v)
      BY <1>2, <2>2, NamesDiffer DEF HandleEvent, High, Low
    <3>2. QED
      BY <1>1, <1>4, <1>5, <2>1, <2>2, <3>1 DEF HandleKnobPos, Cost
  <2>3. CASE x # Browse
    <3>1. c = 0
      BY <1>1, <1>4, <1>5, <2>3 DEF Cost
    <3>2. cursor' = cursor
      BY <1>2, <2>3 DEF HandleEvent, HandlePitch, HandleCcAbs
    <3>3. QED
      BY <2>1, <3>1, <3>2
  <2>4. QED
    BY <2>2, <2>3
<1>7. PICK f : Ledger(f, queue, cursor, turned)
  BY DEF BrowseInv
<1>8. PICK r : r = queue'
  OBVIOUS
<1>9. \E g : Ledger(g, r, cursor + c, turned)
  BY <1>3, <1>4, <1>5, <1>6, <1>7, <1>8, LedgerRemoves
<1>10. cursor' \in Int
  BY <1>6
<1>11. QED
  BY <1>2, <1>6, <1>8, <1>9, <1>10 DEF BrowseInv

LEMMA BrowseNext ==
    ASSUME TypeOK, BrowseInv, [Next]_vars
    PROVE  BrowseInv'
<1>1. ASSUME NEW c \in Moved, NEW v \in Values, TurnKnob(c, v)
      PROVE  BrowseInv'
  <2>1. c \in Names \ {Browse} /\ v \in 0..127
    BY Constants, NamesDiffer DEF Names
  <2>2. QED
    BY <1>1, <2>1, BrowseElsewhere DEF TurnKnob, engine
<1>2. ASSUME NEW d \in Slid, NEW p \in Positions, MoveFader(d, p)
      PROVE  BrowseInv'
  <2>1. d \in Decks /\ p \in Places
    BY Constants
  <2>2. High(d) \in Names \ {Browse} /\ HighOf(p) \in 0..127
    BY <2>1, NamesDiffer, NamesOfFader, Halves
  <2>3. Emit(High(d), HighOf(p), Low(d), TRUE)
    BY <1>2 DEF MoveFader, High, Low, HighOf
  <2>4. QED
    BY <1>2, <2>2, <2>3, BrowseElsewhere DEF MoveFader, engine
<1>3. ASSUME NEW d \in Slid, LowHalf(d)
      PROVE  BrowseInv'
  <2>1. d \in Decks /\ fader[d] \in Places
    BY Constants DEF TypeOK
  <2>2. Low(d) \in Names \ {Browse} /\ LowOf(fader[d]) \in 0..127
    BY <2>1, NamesDiffer, NamesOfFader, Halves
  <2>3. Emit(Low(d), LowOf(fader[d]), Low(d), Low(d) \in heard)
    BY <1>3 DEF LowHalf, Low, LowOf
  <2>4. QED
    BY <1>3, <2>2, <2>3, BrowseElsewhere DEF LowHalf, engine
<1>4. ASSUME NEW n \in Turns, TurnBrowse(n)
      PROVE  BrowseInv'
  BY <1>4, BrowseTurns
<1>5. CASE KeyManager \/ ResetBfx \/ Wait \/ Prepare \/ SeqSetup \/ Enforce \/ UNCHANGED vars
  <2>1. UNCHANGED <<surface, cursor>>
    BY <1>5 DEF KeyManager, ResetBfx, Wait, Prepare, SeqSetup, Enforce, vars, engine
  <2>2. QED
    BY <2>1 DEF surface, BrowseInv
<1>6. CASE ReadEvent
  BY <1>6, BrowseReads
<1>7. QED
  BY <1>1, <1>2, <1>3, <1>4, <1>5, <1>6 DEF Next, MidiThread

-----------------------------------------------------------------------------
(* What a reader should know.                                              *)

\* The state of the surface, the engine and midi_thread keeps its types: no
\* value outside the engine's ranges is sent, no position outside 14 bits kept.
THEOREM SurfaceTypes == Spec => []TypeOK
<1>1. QED
  BY TypesInit, TypesNext, PTL DEF Spec

LEMMA SurfaceInvariant == Spec => [](TypeOK /\ KnobInv /\ FaderInv /\ BrowseInv)
<1> DEFINE Inv == TypeOK /\ KnobInv /\ FaderInv /\ BrowseInv
<1>1. Init => Inv
  BY TypesInit, KnobInit, FaderInit, BrowseInit
<1>2. Inv /\ [Next]_vars => Inv'
  BY TypesNext, KnobNext, FaderNext, BrowseNext
<1>3. QED
  BY <1>1, <1>2, PTL DEF Spec

\* handle_cc_abs: whatever the FIFO dropped before, once a control's latest
\* report arrived and was handled its key in the engine has its value.
THEOREM KnobsAreFollowed == Spec => []KnobFollows
<1>1. QED
  BY SurfaceInvariant, KnobImplies, PTL

\* handle_pitch: a report of a fader that arrived whole sets the tempo to the
\* fader's position, whichever halves of earlier reports were lost.
THEOREM TemposHeal == Spec => []TempoHeals
<1>1. QED
  BY SurfaceInvariant, FaderImplies, PTL

\* handle_knob_pos: the selector moves by what the turns of the browse knob
\* that entered the FIFO are worth, no more and no less, for every scale and
\* every speed of the knob: a turn the clamp cuts counts for its 16 steps, in
\* its direction.
THEOREM SelectorFollows == Spec => []BrowseFollows
<1>1. QED
  BY SurfaceInvariant, BrowseImplies, PTL
=============================================================================
