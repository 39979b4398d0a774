--------------------------- MODULE JogWheelProofs ---------------------------
(***************************************************************************)
(* Proofs about the jog path, for every number of decks, every resolution, *)
(* every interleaving and whatever the FIFO drops: the types, which loss   *)
(* alone lets a sample be put together from halves of two reports, and     *)
(* that the engine's counter follows the wheel through every wrap-around.  *)
(***************************************************************************)
EXTENDS JogWheel, TLAPS

\* The assumption without its arithmetic.
LEMMA Constants ==
    /\ NDecks \in Nat \ {0} /\ Half \in Nat \ {0, 1} /\ Wrap \in Nat \ {0}
    /\ Positions \in Nat \ {0} /\ Positions <= Wrap
    /\ Scale \in Nat \ {0} /\ MaxDelta \in Nat \ {0}
    /\ MaxReports \in Nat /\ QueueLen \in Nat /\ \A d \in Decks : Steps[d] \subseteq Int
  BY JogAssumption DEF Positions

-----------------------------------------------------------------------------
(* Arithmetic of halves and wrap-arounds.                                  *)

\* Quotient and remainder determine the dividend.
LEMMA DivMod ==
    ASSUME NEW p \in Int, NEW h \in Nat \ {0}
    PROVE  /\ (p \div h) * h + (p % h) = p
           /\ p % h \in 0..h-1
           /\ p \div h \in Int
  OBVIOUS

\* The two halves of a position are halves and join to the position again
\* (the shifts by 7 and the masks 0x7f and 0x3f80 lose nothing).
LEMMA HalvesJoin ==
    ASSUME NEW p \in 0..Positions-1
    PROVE  /\ Hi(p) \in 0..Half-1 /\ Lo(p) \in 0..Half-1
           /\ Hi(p) * Half + Lo(p) = p
<1> DEFINE q == p \div Half
<1>1. Half \in Nat \ {0} /\ p \in Nat /\ p < Half * Half
  BY JogAssumption DEF Positions
<1>2. q * Half + (p % Half) = p /\ p % Half \in 0..Half-1 /\ q \in Int
  BY <1>1, DivMod
<1> HIDE DEF q
<1>3. q < Half
  <2>1. SUFFICES ASSUME q >= Half PROVE FALSE
    BY <1>1, <1>2
  <2>2. q * Half >= Half * Half
    BY <1>1, <1>2, <2>1
  <2>3. QED
    BY <1>1, <1>2, <2>2
<1>4. q >= 0
  <2>1. SUFFICES ASSUME q <= -1 PROVE FALSE
    BY <1>2
  <2>2. q * Half <= -Half
    BY <1>1, <1>2, <2>1
  <2>3. QED
    BY <1>1, <1>2, <2>2
<1>5. QED
  BY <1>1, <1>2, <1>3, <1>4 DEF q, Hi, Lo

\* Joined halves are a position.
LEMMA JoinType ==
    ASSUME NEW h \in 0..Half-1, NEW l \in 0..Half-1
    PROVE  h * Half + l \in 0..Positions-1
<1>1. Half \in Nat \ {0}
  BY JogAssumption
<1>2. h * Half <= (Half - 1) * Half /\ h * Half >= 0 /\ h * Half \in Int
  BY <1>1
<1>3. QED
  BY <1>1, <1>2 DEF Positions

\* No multiple of m but zero lies strictly between -m and m.
LEMMA SmallMultiple ==
    ASSUME NEW k \in Int, NEW m \in Nat \ {0}, k * m < m, -m < k * m
    PROVE  k = 0
<1>1. CASE k >= 1
  <2>1. k * m >= m
    BY <1>1
  <2>2. QED
    BY <2>1
<1>2. CASE k <= -1
  <2>1. k * m <= -m
    BY <1>2
  <2>2. QED
    BY <2>1
<1>3. QED
  BY <1>1, <1>2

\* Adding a multiple of the modulus does not change the remainder.
LEMMA ModShift ==
    ASSUME NEW a \in Int, NEW k \in Int, NEW m \in Nat \ {0}
    PROVE  (a + k * m) % m = a % m
<1> DEFINE b == a + k * m
<1> DEFINE q == b \div m
<1> DEFINE p == a \div m
<1> DEFINE y == k * m
<1>1. y \in Int /\ b \in Int /\ b = a + y
  OBVIOUS
<1>2. q * m + (b % m) = b /\ b % m \in 0..m-1 /\ q \in Int
  BY <1>1, DivMod
<1>3. p * m + (a % m) = a /\ a % m \in 0..m-1 /\ p \in Int
  BY DivMod
<1> HIDE DEF b, q, p
<1>4. (q - p - k) * m = (a % m) - (b % m)
  <2>1. (q - p - k) * m = q * m - p * m - y
    BY <1>2, <1>3
  <2>2. q * m \in Int /\ p * m \in Int
    BY <1>2, <1>3
  <2> HIDE DEF y
  <2>3. QED
    BY <1>1, <1>2, <1>3, <2>1, <2>2
<1>5. q - p - k = 0
  <2> DEFINE j == q - p - k
  <2>1. j \in Int /\ j * m < m /\ -m < j * m
    BY <1>2, <1>3, <1>4
  <2> HIDE DEF j
  <2>2. j = 0
    BY <2>1, SmallMultiple
  <2>3. QED
    BY <2>2 DEF j
<1>6. (a % m) - (b % m) = 0
  BY <1>4, <1>5
<1>7. QED
  BY <1>2, <1>3, <1>6 DEF b

\* A remainder may be taken before or after an addition.
LEMMA ModAdd ==
    ASSUME NEW a \in Int, NEW b \in Int, NEW m \in Nat \ {0}
    PROVE  ((a % m) + b) % m = (a + b) % m
<1> DEFINE q == a \div m
<1>1. q * m + (a % m) = a /\ a % m \in 0..m-1 /\ q \in Int
  BY DivMod
<1> HIDE DEF q
<1> DEFINE r == a % m
<1> DEFINE y == (-q) * m
<1>2. /\ -q \in Int /\ a + b \in Int /\ y = -(q * m) /\ q * m \in Int
      /\ q * m + r = a /\ r \in Int
  BY <1>1
<1>3. ((a + b) + y) % m = (a + b) % m
  BY <1>2, ModShift
<1> HIDE DEF r, y
<1>4. r + b = (a + b) + y
  BY <1>2
<1>5. QED
  BY <1>3, <1>4 DEF r

\* Nor does it matter to a multiple of a difference.
LEMMA ModScale ==
    ASSUME NEW a \in Int, NEW o \in Int, NEW f \in Int, NEW m \in Nat \ {0}
    PROVE  (f * ((a % m) - o)) % m = (f * (a - o)) % m
<1> DEFINE q == a \div m
<1>1. q * m + (a % m) = a /\ a % m \in 0..m-1 /\ q \in Int
  BY DivMod
<1> HIDE DEF q
<1> DEFINE r == a % m
<1>2. r \in Int /\ q * m \in Int /\ r = a - q * m
  BY <1>1
<1> HIDE DEF r
<1>3. f * (r - o) = f * (a - o) - f * (q * m)
  BY <1>1, <1>2
<1>4. f * (q * m) = (f * q) * m /\ f * q \in Int /\ f * (a - o) \in Int
  BY <1>1
<1>5. (-(f * q)) * m = -((f * q) * m) /\ -(f * q) \in Int /\ (f * q) * m \in Int
  BY <1>4
<1>6. f * (r - o) = f * (a - o) + (-(f * q)) * m
  BY <1>3, <1>4, <1>5
<1>7. (f * (a - o) + (-(f * q)) * m) % m = (f * (a - o)) % m
  BY <1>4, <1>5, ModShift
<1>8. QED
  BY <1>6, <1>7 DEF r

\* The wrap of the engine's counter is one of the wheel's.
LEMMA ModMod ==
    ASSUME NEW a \in Int
    PROVE  (a % Wrap) % Positions = a % Positions
<1> DEFINE q == a \div Wrap
<1> DEFINE j == Wrap \div Positions
<1>1. Wrap \in Nat \ {0} /\ Positions \in Nat \ {0} /\ Wrap % Positions = 0
  BY JogAssumption, Constants
<1>2. q * Wrap + (a % Wrap) = a /\ a % Wrap \in 0..Wrap-1 /\ q \in Int
  BY <1>1, DivMod
<1>3. j * Positions = Wrap /\ j \in Int
  BY <1>1, DivMod
<1> HIDE DEF q, j
<1>4. /\ (-(q * j)) * Positions = -(q * Wrap)
      /\ -(q * j) \in Int /\ q * Wrap \in Int
  <2>1. (q * j) * Positions = q * (j * Positions) /\ q * j \in Int
    BY <1>1, <1>2, <1>3
  <2>2. (-(q * j)) * Positions = -((q * j) * Positions)
    BY <1>1, <2>1
  <2>3. QED
    BY <1>1, <1>2, <1>3, <2>1, <2>2
<1>5. a % Wrap = a + (-(q * j)) * Positions
  BY <1>2, <1>4
<1>6. (a + (-(q * j)) * Positions) % Positions = a % Positions
  BY <1>1, <1>4, ModShift
<1>7. QED
  BY <1>5, <1>6

\* Unwrapping two positions less than half a revolution apart gives back the
\* turn between them, whichever way it went and wherever it wrapped.
LEMMA UnwrapIsTurn ==
    ASSUME NEW c \in Int, NEW s \in Int, 2 * s < Positions, -(2 * s) < Positions
    PROVE  Unwrap(c % Positions, (c + s) % Positions) = s
<1> DEFINE P == Positions
<1> DEFINE k == c \div P
<1> DEFINE l == (c + s) \div P
<1>1. P \in Nat \ {0} /\ c + s \in Int
  BY Constants
<1>2. k * P + (c % P) = c /\ c % P \in 0..P-1 /\ k \in Int
  BY <1>1, DivMod
<1>3. l * P + ((c + s) % P) = c + s /\ (c + s) % P \in 0..P-1 /\ l \in Int
  BY <1>1, DivMod
<1> DEFINE d == ((c + s) % P) - (c % P)
<1> DEFINE m == k - l
<1>4. d = s + m * P /\ d > -P /\ d < P /\ m \in Int /\ d \in Int /\ m * P \in Int
  <2>1. m * P = k * P - l * P /\ k * P \in Int /\ l * P \in Int
    BY <1>1, <1>2, <1>3
  <2>2. QED
    BY <1>1, <1>2, <1>3, <2>1
<1>5. Unwrap(c % P, (c + s) % P) =
        IF 2 * d > P THEN d - P ELSE IF 2 * d < -P THEN d + P ELSE d
  BY DEF Unwrap
<1>6. 2 * s < P /\ -(2 * s) < P
  OBVIOUS
<1> HIDE DEF P, k, l, d, m
<1>7. m \in {-1, 0, 1}
  <2>1. m < 2
    <3>1. SUFFICES ASSUME m >= 2 PROVE FALSE
      BY <1>4
    <3>2. m * P >= 2 * P
      BY <1>1, <1>4, <3>1
    <3>3. QED
      BY <1>1, <1>4, <1>6, <3>2
  <2>2. m > -2
    <3>1. SUFFICES ASSUME m <= -2 PROVE FALSE
      BY <1>4
    <3>2. m * P <= -(2 * P)
      BY <1>1, <1>4, <3>1
    <3>3. QED
      BY <1>1, <1>4, <1>6, <3>2
  <2>3. QED
    BY <1>4, <2>1, <2>2
<1>8. d = s \/ d = s + P \/ d = s - P
  BY <1>1, <1>4, <1>7
<1>9. Unwrap(c % P, (c + s) % P) = s
  BY <1>1, <1>4, <1>5, <1>6, <1>8
<1>10. QED
  BY <1>9 DEF P

\* JOG_SCALE, with its sign.
Factor == (IF Rev THEN -1 ELSE 1) * Scale

\* No turn of the wheel is clamped.
LEMMA PulsesOfTurn ==
    ASSUME NEW d \in Decks, NEW s \in Steps[d]
    PROVE  Pulses(s) = Factor * s
<1>1. /\ s \in Int /\ s * Scale <= MaxDelta /\ -(s * Scale) <= MaxDelta
      /\ Scale \in Nat /\ MaxDelta \in Nat /\ Rev \in BOOLEAN
  BY JogAssumption
<1>2. s * Scale \in Int /\ (-s) * Scale = -(s * Scale) /\ Scale * s = s * Scale
      /\ (-Scale) * s = -(s * Scale) /\ (-1) * Scale = -Scale /\ 1 * Scale = Scale
  BY <1>1
<1> DEFINE t == s * Scale
<1>3. Pulses(s) = IF Rev THEN Clamp(-t) ELSE Clamp(t)
  BY <1>2 DEF Pulses
<1>4. Factor * s = IF Rev THEN -t ELSE t
  BY <1>1, <1>2 DEF Factor
<1>5. t \in Int /\ t <= MaxDelta /\ -t <= MaxDelta
  BY <1>1, <1>2
<1> HIDE DEF t
<1>6. Clamp(-t) = -t /\ Clamp(t) = t
  BY <1>1, <1>5 DEF Clamp
<1>7. QED
  BY <1>3, <1>4, <1>6

-----------------------------------------------------------------------------
(* Types.                                                                  *)

\* The pulse delta of one key stays within the clamp.
LEMMA PulsesType ==
    ASSUME NEW p \in 0..Positions-1, NEW q \in 0..Positions-1
    PROVE  Pulses(Unwrap(p, q)) \in -MaxDelta..MaxDelta
<1>1. Positions \in Nat /\ Scale \in Nat /\ MaxDelta \in Nat
  BY JogAssumption DEF Positions
<1>2. Unwrap(p, q) \in Int
  BY <1>1 DEF Unwrap
<1> DEFINE d == (IF Rev THEN -Unwrap(p, q) ELSE Unwrap(p, q)) * Scale
<1>3. d \in Int
  BY <1>1, <1>2
<1> HIDE DEF d
<1>4. Clamp(d) \in -MaxDelta..MaxDelta
  BY <1>1, <1>3 DEF Clamp
<1>5. QED
  BY <1>4 DEF d, Pulses

\* The masked counter stays within the engine's modulus.
LEMMA AdvanceType ==
    ASSUME NEW v \in 0..Wrap-1, NEW dp \in Int
    PROVE  Advance(v, dp) \in 0..Wrap-1
<1>1. v + dp \in Int /\ Wrap \in Nat \ {0}
  BY Constants
<1>2. QED
  BY <1>1, DivMod DEF Advance

\* A report names halves of a position.
LEMMA ReportType ==
    ASSUME NEW w \in 0..Wrap-1
    PROVE  /\ w % Positions \in 0..Positions-1
           /\ Hi(w % Positions) \in 0..Half-1
           /\ Lo(w % Positions) \in 0..Half-1
           /\ Hi(w % Positions) * Half + Lo(w % Positions) = w % Positions
<1>1. Positions \in Nat \ {0} /\ w \in Int
  BY JogAssumption DEF Positions
<1>2. w % Positions \in 0..Positions-1
  BY <1>1, DivMod
<1>3. QED
  BY <1>2, HalvesJoin

LEMMA InitType == Init => TypeOK
<1>1. /\ 0 \in 0..Wrap-1 /\ 0 \in 0..Positions-1 /\ 0 \in 0..Half-1
      /\ 1 \in Decks /\ 0 \in -MaxDelta..MaxDelta /\ MaxReports \in Nat
      /\ QueueLen \in Nat
  BY JogAssumption DEF Positions, Decks
<1>2. 0..Positions-1 \subseteq 0..Wrap-1
  BY JogAssumption DEF Positions
<1>3. SUFFICES ASSUME Init PROVE TypeOK
  OBVIOUS
<1>4. wheel \in [Decks -> 0..Wrap-1]
  BY <1>2, <1>3 DEF Init
<1>5. queue \in Seq(Event) /\ Len(queue) <= QueueLen
  BY <1>1, <1>3 DEF Init
<1>6. midi \in MidiState
  BY <1>1, <1>3 DEF Init, MidiRest, MidiState
<1>7. idle \in IdleState
  BY <1>1, <1>3 DEF Init, IdleRest, IdleState
<1>8. QED
  BY <1>1, <1>3, <1>4, <1>5, <1>6, <1>7 DEF Init, TypeOK

\* The FIFO holds events, dropped or not.
LEMMA ArriveType ==
    ASSUME NEW q \in Seq(Event), NEW ev \in Event, NEW lost
    PROVE  Arrive(q, ev, lost) \in Seq(Event)
<1>1. Append(q, ev) \in Seq(Event)
  OBVIOUS
<1>2. QED
  BY <1>1 DEF Arrive

LEMMA TurnType ==
    ASSUME TypeOK, NEW d \in Decks, NEW s \in Steps[d], Turn(d, s)
    PROVE  TypeOK'
<1> DEFINE w == (wheel[d] + s) % Wrap
<1> DEFINE p == w % Positions
<1> DEFINE hi == [deck |-> d, cc |-> "hi", val |-> Hi(p), at |-> w]
<1> DEFINE lo == [deck |-> d, cc |-> "lo", val |-> Lo(p), at |-> w]
<1>1. w \in 0..Wrap-1
  <2>1. wheel[d] \in 0..Wrap-1
    BY DEF TypeOK
  <2>2. wheel[d] + s \in Int /\ Wrap \in Nat \ {0}
    BY <2>1, Constants
  <2>3. QED
    BY <2>2, DivMod
<1>2. hi \in Event /\ lo \in Event
  <2> HIDE DEF w
  <2>1. QED
    BY <1>1, ReportType DEF Event
<1>3. PICK lost \in IF Lossy THEN SUBSET {"hi", "lo"} ELSE {{}} :
         /\ wheel' = [wheel EXCEPT ![d] = w]
         /\ queue' = Arrive(Arrive(queue, hi, lost), lo, lost)
         /\ Len(queue') <= QueueLen
         /\ missed' = IF lost = {} THEN missed ELSE missed \cup {d}
         /\ slipped' = IF lost = {"hi"} THEN slipped \cup {d} ELSE slipped
  BY DEF Turn
<1> HIDE DEF w, hi, lo
<1>4. queue' \in Seq(Event) /\ Len(queue') <= QueueLen
  <2>1. Arrive(queue, hi, lost) \in Seq(Event)
    BY <1>2, ArriveType DEF TypeOK
  <2>2. QED
    BY <1>2, <1>3, <2>1, ArriveType
<1>5. wheel' \in [Decks -> 0..Wrap-1] /\ reports' \in 0..MaxReports
  <2>1. wheel \in [Decks -> 0..Wrap-1] /\ reports \in 0..MaxReports
    BY DEF TypeOK
  <2>2. reports < MaxReports /\ reports' = reports + 1
    BY DEF Turn
  <2>3. QED
    BY <1>1, <1>3, <2>1, <2>2, Constants
<1>6. missed' \subseteq Decks /\ slipped' \subseteq missed'
  <2>1. missed \subseteq Decks /\ slipped \subseteq missed
    BY DEF TypeOK
  <2>2. {"hi"} # {}
    OBVIOUS
  <2>3. QED
    BY <1>3, <2>1, <2>2
<1>7. QED
  BY <1>4, <1>5, <1>6 DEF Turn, TypeOK, halves, samples

LEMMA HandleJogType ==
    ASSUME TypeOK, HandleJog
    PROVE  TypeOK'
<1> DEFINE ev    == Head(queue)
<1> DEFINE d     == ev.deck
<1> DEFINE half  == IF ev.cc = "hi" THEN [pos[d] EXCEPT !.hi = ev.val]
                                    ELSE [pos[d] EXCEPT !.lo = ev.val]
<1> DEFINE p     == Join(half)
<1> DEFINE delta == Unwrap(prev[d], p)
<1>1. queue \in Seq(Event) /\ queue # <<>> /\ Len(queue) <= QueueLen
  BY DEF TypeOK, HandleJog
<1>2. /\ ev \in Event /\ Tail(queue) \in Seq(Event)
      /\ Len(Tail(queue)) <= QueueLen
  BY <1>1, Constants
<1>3. d \in Decks /\ ev.at \in 0..Wrap-1
  BY <1>2 DEF Event
<1>4. half \in [hi : 0..Half-1, lo : 0..Half-1]
  <2>1. pos[d] \in [hi : 0..Half-1, lo : 0..Half-1]
    BY <1>3 DEF TypeOK
  <2>2. ev.val \in 0..Half-1
    BY <1>2 DEF Event
  <2>3. QED
    BY <2>1, <2>2
<1>5. p \in 0..Positions-1
  BY <1>4, JoinType DEF Join
<1>6. Pulses(delta) \in -MaxDelta..MaxDelta
  BY <1>3, <1>5, PulsesType DEF TypeOK
<1>7. /\ queue' = Tail(queue)
      /\ pos' = [pos EXCEPT ![d] = half]
      /\ prev' = [prev EXCEPT ![d] = p] \/ prev' = prev
      /\ \E b \in BOOLEAN : have_hi' = [have_hi EXCEPT ![d] = b]
      /\ \E b \in BOOLEAN : have_lo' = [have_lo EXCEPT ![d] = b]
      /\ \E b \in BOOLEAN : ready' = [ready EXCEPT ![d] = b]
      /\ last_ms' = [last_ms EXCEPT ![d] = now] \/ last_ms' = last_ms
      /\ \/ midi' = [pc |-> "store", deck |-> d, t |-> now,
                     delta |-> Pulses(delta),
                     todo |-> {"last_ms", "vpos", "moving"}]
         \/ midi' = midi
      /\ consumed' = [consumed EXCEPT ![d] = ev.at] \/ consumed' = consumed
      /\ origin' = [origin EXCEPT ![d] = ev.at] \/ origin' = origin
      /\ UNCHANGED <<wheel, reports, now, vpos, moving, speed, idle, engine,
                     missed, slipped>>
  BY <1>3 DEF HandleJog, Hold, TypeOK
<1> HIDE DEF ev, d, half, p, delta
<1>8. queue' \in Seq(Event) /\ Len(queue') <= QueueLen
  BY <1>2, <1>7
<1>9. midi' \in MidiState
  <2>1. now \in Nat /\ midi \in MidiState
    BY DEF TypeOK
  <2>2. CASE midi' = midi
    BY <2>1, <2>2
  <2>3. CASE midi' = [pc |-> "store", deck |-> d, t |-> now,
                      delta |-> Pulses(delta),
                      todo |-> {"last_ms", "vpos", "moving"}]
    BY <1>3, <1>6, <2>1, <2>3 DEF MidiState
  <2>4. QED
    BY <1>7, <2>2, <2>3
<1>10. pos' \in [Decks -> [hi : 0..Half-1, lo : 0..Half-1]]
  BY <1>3, <1>4, <1>7 DEF TypeOK
<1>11. /\ prev' \in [Decks -> 0..Positions-1] /\ last_ms' \in [Decks -> Nat]
       /\ consumed' \in [Decks -> 0..Wrap-1] /\ origin' \in [Decks -> 0..Wrap-1]
  BY <1>3, <1>5, <1>7 DEF TypeOK
<1>12. /\ have_hi' \in [Decks -> BOOLEAN] /\ have_lo' \in [Decks -> BOOLEAN]
       /\ ready' \in [Decks -> BOOLEAN]
  BY <1>3, <1>7 DEF TypeOK
<1>13. QED
  BY <1>7, <1>8, <1>9, <1>10, <1>11, <1>12 DEF TypeOK

LEMMA StoreType ==
    ASSUME TypeOK, NEW f \in midi.todo, Store(f)
    PROVE  TypeOK'
<1>1. midi.deck \in Decks /\ midi.t \in Nat /\ midi.delta \in Int
  BY Constants DEF TypeOK, MidiState
<1>2. Advance(vpos[midi.deck], midi.delta) \in 0..Wrap-1
  BY <1>1, AdvanceType DEF TypeOK
<1>3. Sign(midi.delta) \in {-1, 0, 1}
  BY DEF Sign
<1>4. f \in {"last_ms", "vpos", "moving"}
  BY DEF TypeOK, MidiState
<1>5. midi' \in MidiState
  BY DEF TypeOK, Store, MidiState
<1>6. UNCHANGED <<surface, now, halves, idle, engine, history>>
  BY DEF Store
<1>7. CASE f = "last_ms"
  <2>1. last_ms' \in [Decks -> Nat] /\ UNCHANGED <<vpos, moving, speed>>
    BY <1>1, <1>7 DEF Store, TypeOK
  <2>2. QED
    BY <1>5, <1>6, <2>1 DEF TypeOK, surface, halves, history, samples
<1>8. CASE f = "vpos"
  <2>1. vpos' \in [Decks -> 0..Wrap-1] /\ UNCHANGED <<last_ms, moving, speed>>
    <3>1. vpos' = [vpos EXCEPT ![midi.deck]
                     = Advance(vpos[midi.deck], midi.delta)]
      BY <1>8 DEF Store
    <3>2. vpos' \in [Decks -> 0..Wrap-1]
      BY <1>1, <1>2, <3>1 DEF TypeOK
    <3>3. QED
      BY <1>8, <3>2 DEF Store
  <2>2. QED
    BY <1>5, <1>6, <2>1 DEF TypeOK, surface, halves, history, samples
<1>9. CASE f = "moving"
  <2>1. /\ moving' \in [Decks -> BOOLEAN] /\ speed' \in [Decks -> {-1, 0, 1}]
        /\ UNCHANGED <<last_ms, vpos>>
    BY <1>1, <1>3, <1>9 DEF Store, TypeOK
  <2>2. QED
    BY <1>5, <1>6, <2>1 DEF TypeOK, surface, halves, history, samples
<1>10. QED
  BY <1>4, <1>7, <1>8, <1>9

LEMMA SendJogType ==
    ASSUME TypeOK, SendJog
    PROVE  TypeOK'
<1>1. /\ midi.deck \in Decks /\ Sign(midi.delta) \in {-1, 0, 1}
      /\ vpos[midi.deck] \in 0..Wrap-1
  BY DEF TypeOK, Sign, MidiState
<1>2. engine' \in [Decks -> [speed : {-1, 0, 1}, pos : 0..Wrap-1]]
  BY <1>1 DEF TypeOK, SendJog
<1>3. midi' \in MidiState
  BY Constants DEF SendJog, MidiRest, MidiState, Decks
<1>4. QED
  BY <1>2, <1>3 DEF TypeOK, SendJog, surface, halves, history, samples

LEMMA IdleType ==
    ASSUME TypeOK, IdleThread
    PROVE  TypeOK'
<1>1. /\ idle \in IdleState /\ idle.deck \in Decks /\ idle.l \in 0..Wrap-1
      /\ now \in Nat /\ vpos \in [Decks -> 0..Wrap-1]
  BY DEF TypeOK, IdleState
<1>2. 1 \in Decks /\ 0 \in 0..Wrap-1
  BY Constants DEF Decks
<1>3. NextDeck \in IdleState
  <2>1. idle.deck # NDecks => idle.deck + 1 \in Decks
    BY <1>1, Constants DEF Decks
  <2>2. QED
    BY <1>1, <1>2, <2>1 DEF NextDeck, IdleRest, IdleState
<1>4. CASE IdleWake
  <2>1. idle' \in IdleState
    BY <1>1, <1>2, <1>4 DEF IdleWake, IdleState
  <2>2. QED
    BY <1>4, <2>1 DEF IdleWake, TypeOK, surface, halves, history, samples
<1>5. CASE IdleCheck
  <2>1. idle' \in IdleState
    BY <1>1, <1>3, <1>5 DEF IdleCheck, IdleState
  <2>2. QED
    BY <1>5, <2>1 DEF IdleCheck, TypeOK, surface, halves, history, samples
<1>6. CASE IdleClear
  <2>1. idle' \in IdleState
    BY <1>1, <1>6 DEF IdleClear, IdleState
  <2>2. moving' \in [Decks -> BOOLEAN] /\ speed' \in [Decks -> {-1, 0, 1}]
    BY <1>1, <1>6 DEF IdleClear, TypeOK
  <2>3. QED
    BY <1>6, <2>1, <2>2 DEF IdleClear, TypeOK, surface, halves, history, samples
<1>7. CASE IdleSend
  <2>1. engine' \in [Decks -> [speed : {-1, 0, 1}, pos : 0..Wrap-1]]
    BY <1>1, <1>7 DEF IdleSend, TypeOK
  <2>2. QED
    BY <1>3, <1>7, <2>1 DEF IdleSend, TypeOK, surface, halves, history, samples
<1>8. QED
  BY <1>4, <1>5, <1>6, <1>7 DEF IdleThread

LEMMA NextType == TypeOK /\ [Next]_vars => TypeOK'
<1> SUFFICES ASSUME TypeOK, [Next]_vars PROVE TypeOK'
  OBVIOUS
<1>1. ASSUME NEW d \in Decks, NEW s \in Steps[d], Turn(d, s) PROVE TypeOK'
  BY <1>1, TurnType
<1>2. CASE Tick
  BY <1>2 DEF Tick, TypeOK, surface, halves, history, samples
<1>3. CASE MidiThread
  BY <1>3, HandleJogType, StoreType, SendJogType DEF MidiThread
<1>4. CASE IdleThread
  BY <1>4, IdleType
<1>5. CASE UNCHANGED vars
  BY <1>5 DEF vars, TypeOK, surface, halves, history, samples
<1>6. QED
  BY <1>1, <1>2, <1>3, <1>4, <1>5 DEF Next

\* Every variable of the jog path keeps its type; in particular vpos and
\* the positions of the jog keys stay within the engine's 16-bit counter.
THEOREM JogTypes == Spec => []TypeOK
<1>1. QED
  BY InitType, NextType, PTL DEF Spec

-----------------------------------------------------------------------------
(* Samples.                                                                *)

\* On a deck whose pairing has not slipped every low half in the FIFO follows
\* the high half of its report, which is in the FIFO before it or, for the
\* low half at the head, the one handle_jog has.
Paired ==
    /\ \A i \in 1..Len(queue) :
          queue[i].val = IF queue[i].cc = "hi" THEN Hi(queue[i].at % Positions)
                                              ELSE Lo(queue[i].at % Positions)
    /\ \A i \in 2..Len(queue) :
          queue[i].cc = "lo" /\ queue[i].deck \notin slipped =>
             /\ queue[i-1].cc = "hi" /\ queue[i-1].deck = queue[i].deck
             /\ queue[i-1].at = queue[i].at
    /\ queue # <<>> /\ queue[1].cc = "lo" /\ queue[1].deck \notin slipped =>
          /\ have_hi[queue[1].deck]
          /\ pos[queue[1].deck].hi = Hi(queue[1].at % Positions)

\* No low half waits for a high half there.
NoLowHalf == \A d \in Decks \ slipped : ~have_lo[d]

SampleInv == TypeOK /\ Paired /\ NoLowHalf /\ SampleIsReported

LEMMA InitSample == Init => SampleInv
<1> SUFFICES ASSUME Init PROVE SampleInv
  OBVIOUS
<1>1. /\ queue = <<>> /\ \A d \in Decks : ~have_hi[d] /\ ~have_lo[d] /\ ~ready[d]
  BY DEF Init
<1>2. QED
  BY <1>1, InitType DEF SampleInv, Paired, NoLowHalf, SampleIsReported

\* What a report leaves in the FIFO: what was there, and behind it events of
\* its deck only, both halves unless some were dropped, and never a low half
\* alone on a deck whose pairing has not slipped.
LEMMA TurnArrives ==
    ASSUME SampleInv, NEW d \in Decks, NEW s \in Steps[d], Turn(d, s),
           NEW n \in Nat, n = Len(queue),
           NEW w, w = (wheel[d] + s) % Wrap
    PROVE  /\ Len(queue') \in n..n+2
           /\ \A i \in 1..n : queue'[i] = queue[i]
           /\ \A i \in n+1..Len(queue') :
                /\ queue'[i].deck = d /\ queue'[i].at = w
                /\ queue'[i].val = IF queue'[i].cc = "hi" THEN Hi(w % Positions)
                                                         ELSE Lo(w % Positions)
           /\ \/ d \in slipped'
              \/ Len(queue') = n
              \/ queue'[n+1].cc = "hi"
           /\ \/ d \in missed'
              \/ /\ Len(queue') = n + 2
                 /\ queue'[n+1].cc = "hi" /\ queue'[n+2].cc = "lo"
           /\ slipped \subseteq slipped' /\ slipped' \ {d} \subseteq slipped
           /\ missed \subseteq missed' /\ missed' \ {d} \subseteq missed
<1> DEFINE hi == [deck |-> d, cc |-> "hi", val |-> Hi(w % Positions), at |-> w]
<1> DEFINE lo == [deck |-> d, cc |-> "lo", val |-> Lo(w % Positions), at |-> w]
<1>1. PICK lost \in SUBSET {"hi", "lo"} :
         /\ queue' = Arrive(Arrive(queue, hi, lost), lo, lost)
         /\ missed' = IF lost = {} THEN missed ELSE missed \cup {d}
         /\ slipped' = IF lost = {"hi"} THEN slipped \cup {d} ELSE slipped
  BY DEF Turn
<1>2. queue \in Seq(Event) /\ n \in Nat
  BY DEF SampleInv, TypeOK
<1>3. hi.cc = "hi" /\ lo.cc = "lo" /\ hi.deck = d /\ lo.deck = d
      /\ hi.at = w /\ lo.at = w
      /\ hi.val = Hi(w % Positions) /\ lo.val = Lo(w % Positions)
  OBVIOUS
<1> HIDE DEF hi, lo
<1>4. /\ slipped \subseteq slipped' /\ slipped' \ {d} \subseteq slipped
      /\ missed \subseteq missed' /\ missed' \ {d} \subseteq missed
  BY <1>1
<1>5. CASE lost = {}
  <2>1. queue' = Append(Append(queue, hi), lo)
    BY <1>1, <1>3, <1>5 DEF Arrive
  <2>2. /\ Len(queue') = n + 2 /\ \A i \in 1..n : queue'[i] = queue[i]
        /\ queue'[n+1] = hi /\ queue'[n+2] = lo
    BY <1>2, <2>1
  <2>3. \A i \in n+1..Len(queue') : i = n+1 \/ i = n+2
    BY <1>2, <2>2
  <2>4. QED
    BY <1>2, <1>3, <1>4, <2>2, <2>3
<1>6. CASE lost = {"hi"}
  <2>1. queue' = Append(queue, lo)
    BY <1>1, <1>3, <1>6 DEF Arrive
  <2>2. /\ Len(queue') = n + 1 /\ \A i \in 1..n : queue'[i] = queue[i]
        /\ queue'[n+1] = lo
    BY <1>2, <2>1
  <2>3. d \in slipped' /\ d \in missed'
    BY <1>1, <1>6
  <2>4. \A i \in n+1..Len(queue') : i = n+1
    BY <1>2, <2>2
  <2>5. QED
    BY <1>2, <1>3, <1>4, <2>2, <2>3, <2>4
<1>7. CASE lost = {"lo"}
  <2>1. queue' = Append(queue, hi)
    BY <1>1, <1>3, <1>7 DEF Arrive
  <2>2. /\ Len(queue') = n + 1 /\ \A i \in 1..n : queue'[i] = queue[i]
        /\ queue'[n+1] = hi
    BY <1>2, <2>1
  <2>3. d \in missed'
    BY <1>1, <1>7
  <2>4. \A i \in n+1..Len(queue') : i = n+1
    BY <1>2, <2>2
  <2>5. QED
    BY <1>2, <1>3, <1>4, <2>2, <2>3, <2>4
<1>8. CASE lost = {"hi", "lo"}
  <2>1. queue' = queue
    BY <1>1, <1>3, <1>8 DEF Arrive
  <2>2. d \in missed'
    BY <1>1, <1>8
  <2>3. \A i \in n+1..Len(queue') : FALSE
    BY <1>2, <2>1
  <2>4. QED
    BY <1>2, <1>4, <2>1, <2>2, <2>3
<1>9. QED
  BY <1>1, <1>5, <1>6, <1>7, <1>8

\* A report puts its halves at the end of the FIFO.
LEMMA TurnSample ==
    ASSUME SampleInv, NEW d \in Decks, NEW s \in Steps[d], Turn(d, s)
    PROVE  Paired' /\ NoLowHalf' /\ SampleIsReported'
<1>0. PICK n \in Nat : n = Len(queue)
  BY DEF SampleInv, TypeOK
<1>1. PICK w : w = (wheel[d] + s) % Wrap
  OBVIOUS
<1>2. UNCHANGED <<pos, have_hi, have_lo, prev, ready, consumed>>
  BY DEF Turn, halves, samples
<1>3. queue \in Seq(Event)
  BY DEF SampleInv, TypeOK
<1>4. slipped \subseteq slipped'
  BY <1>0, <1>1, TurnArrives
<1>5. /\ Len(queue') \in n..n+2
      /\ \A i \in 1..n : queue'[i] = queue[i]
      /\ \A i \in n+1..Len(queue') :
           /\ queue'[i].deck = d /\ queue'[i].at = w
           /\ queue'[i].val = IF queue'[i].cc = "hi" THEN Hi(w % Positions)
                                                    ELSE Lo(w % Positions)
      /\ \/ d \in slipped'
         \/ Len(queue') = n
         \/ queue'[n+1].cc = "hi"
  BY <1>0, <1>1, TurnArrives
<1>6. Paired'
  <2>1. ASSUME NEW i \in 1..Len(queue')
        PROVE  queue'[i].val = IF queue'[i].cc = "hi"
                               THEN Hi(queue'[i].at % Positions)
                               ELSE Lo(queue'[i].at % Positions)
    <3>1. CASE i \in 1..n
      BY <1>0, <1>5, <3>1 DEF SampleInv, Paired
    <3>2. CASE i \in n+1..Len(queue')
      BY <1>5, <3>2
    <3>3. QED
      BY <1>5, <3>1, <3>2
  <2>2. ASSUME NEW i \in 2..Len(queue'), queue'[i].cc = "lo",
               queue'[i].deck \notin slipped'
        PROVE  /\ queue'[i-1].cc = "hi" /\ queue'[i-1].deck = queue'[i].deck
               /\ queue'[i-1].at = queue'[i].at
    <3>1. CASE i \in 2..n
      <4>1. /\ queue[i].cc = "lo" /\ queue[i].deck \notin slipped
            /\ i \in 1..n /\ i - 1 \in 1..n
        BY <1>4, <1>5, <2>2, <3>1
      <4>2. /\ queue[i-1].cc = "hi" /\ queue[i-1].deck = queue[i].deck
            /\ queue[i-1].at = queue[i].at
        BY <1>0, <3>1, <4>1 DEF SampleInv, Paired
      <4>3. QED
        BY <1>5, <4>1, <4>2
    <3>2. CASE i \in n+1..Len(queue')
      <4>1. d \notin slipped' /\ Len(queue') # n
        BY <1>5, <2>2, <3>2
      <4>2. queue'[n+1].cc = "hi" /\ i # n+1
        BY <1>5, <2>2, <4>1
      <4>3. i - 1 = n+1 /\ i - 1 \in n+1..Len(queue')
        BY <1>5, <3>2, <4>2
      <4>4. QED
        BY <1>5, <3>2, <4>2, <4>3
    <3>3. QED
      BY <1>5, <3>1, <3>2
  <2>3. ASSUME queue' # <<>>, queue'[1].cc = "lo", queue'[1].deck \notin slipped'
        PROVE  /\ have_hi'[queue'[1].deck]
               /\ pos'[queue'[1].deck].hi = Hi(queue'[1].at % Positions)
    <3>1. CASE n = 0
      <4>1. 1 \in n+1..Len(queue') /\ Len(queue') # n /\ n + 1 = 1
        <5>1. queue' \in Seq(Event)
          BY NextType DEF SampleInv, Next, TypeOK
        <5>2. Len(queue') # 0
          BY <2>3, <5>1
        <5>3. QED
          BY <1>5, <3>1, <5>2
      <4>2. queue'[1].deck = d
        BY <1>5, <4>1
      <4>3. QED
        BY <1>5, <2>3, <4>1, <4>2
    <3>2. CASE n # 0
      <4>1. queue'[1] = queue[1] /\ queue # <<>>
        BY <1>0, <1>3, <1>5, <3>2
      <4>2. queue[1].deck \notin slipped
        BY <1>4, <2>3, <4>1
      <4>3. QED
        BY <1>2, <2>3, <4>1, <4>2 DEF SampleInv, Paired
    <3>3. QED
      BY <3>1, <3>2
  <2>4. QED
    BY <2>1, <2>2, <2>3 DEF Paired
<1>7. NoLowHalf' /\ SampleIsReported'
  BY <1>2, <1>4 DEF SampleInv, NoLowHalf, SampleIsReported
<1>8. QED
  BY <1>6, <1>7

\* A low half at the head completes the report whose high half its deck has.
LEMMA LowHalfCompletes ==
    ASSUME SampleInv, queue # <<>>, queue[1].cc = "lo",
           queue[1].deck \notin slipped
    PROVE  LET ev == queue[1]
               d  == ev.deck
           IN  /\ have_hi[d] /\ ~have_lo[d]
               /\ Join([pos[d] EXCEPT !.lo = ev.val]) = ev.at % Positions
<1> DEFINE ev == queue[1]
<1> DEFINE d  == ev.deck
<1>1. queue \in Seq(Event) /\ 1 \in 1..Len(queue)
  BY DEF SampleInv, TypeOK
<1>2. /\ ev \in Event /\ d \in Decks /\ ev.at \in 0..Wrap-1
      /\ ev.val \in 0..Half-1
  <2>1. ev \in Event
    BY <1>1
  <2>2. QED
    BY <2>1 DEF Event
<1>3. have_hi[d] /\ ~have_lo[d]
  BY <1>2 DEF SampleInv, Paired, NoLowHalf
<1>4. pos[d].hi = Hi(ev.at % Positions) /\ ev.val = Lo(ev.at % Positions)
  BY <1>1 DEF SampleInv, Paired
<1>5. pos[d] \in [hi : 0..Half-1, lo : 0..Half-1]
  BY <1>2 DEF SampleInv, TypeOK
<1> DEFINE half == [pos[d] EXCEPT !.lo = ev.val]
<1>6. half.hi = Hi(ev.at % Positions) /\ half.lo = Lo(ev.at % Positions)
  BY <1>4, <1>5
<1>7. Join(half) = ev.at % Positions
  BY <1>2, <1>6, ReportType DEF Join
<1>8. QED
  BY <1>3, <1>7

\* What handle_jog does with the head of the FIFO.  It changes the state of
\* one deck.  Where the pairing has not slipped a high half only waits, and a
\* low half makes a sample of the whole report.
LEMMA HandleJogReads ==
    ASSUME SampleInv, HandleJog
    PROVE  LET ev == queue[1]
               d  == ev.deck
               turn == Unwrap(prev[d], ev.at % Positions)
               half == [pos[d] EXCEPT !.hi = ev.val]
           IN  /\ ev \in Event /\ d \in Decks
               /\ \A e \in Decks \ {d} :
                    /\ pos'[e] = pos[e] /\ prev'[e] = prev[e]
                    /\ have_hi'[e] = have_hi[e] /\ have_lo'[e] = have_lo[e]
                    /\ ready'[e] = ready[e] /\ consumed'[e] = consumed[e]
                    /\ origin'[e] = origin[e]
               /\ midi' # midi => midi'.pc = "store" /\ midi'.deck = d
               /\ ~have_lo'[d] \/ d \in slipped
               /\ ev.cc = "hi" /\ d \notin slipped =>
                    /\ have_hi'[d] /\ pos'[d].hi = ev.val
                    /\ UNCHANGED <<prev, ready, consumed, origin, midi>>
               /\ ev.cc = "lo" /\ d \notin slipped =>
                    /\ prev' = [prev EXCEPT ![d] = ev.at % Positions]
                    /\ ready' = [ready EXCEPT ![d] = TRUE]
                    /\ consumed' = [consumed EXCEPT ![d] = ev.at]
                    /\ origin' = IF ready[d] THEN origin
                                 ELSE [origin EXCEPT ![d] = ev.at]
                    /\ midi' = IF ready[d] /\ turn # 0
                               THEN [pc |-> "store", deck |-> d, t |-> now,
                                     delta |-> Pulses(turn),
                                     todo |-> {"last_ms", "vpos", "moving"}]
                               ELSE midi
<1> DEFINE ev == queue[1]
<1> DEFINE d  == ev.deck
<1>1. /\ queue \in Seq(Event) /\ queue # <<>> /\ Head(queue) = ev
      /\ 1 \in 1..Len(queue)
  <2>1. queue \in Seq(Event) /\ queue # <<>>
    BY DEF SampleInv, TypeOK, HandleJog
  <2>2. QED
    BY <2>1
<1>2. ev \in Event /\ d \in Decks /\ ev.at \in 0..Wrap-1 /\ ev.cc \in {"hi", "lo"}
  <2>1. ev \in Event
    BY <1>1
  <2>2. QED
    BY <2>1 DEF Event
<1>3. HandleJog
  OBVIOUS
<1>4. /\ have_hi \in [Decks -> BOOLEAN] /\ have_lo \in [Decks -> BOOLEAN]
      /\ pos \in [Decks -> [hi : 0..Half-1, lo : 0..Half-1]]
      /\ ready \in [Decks -> BOOLEAN] /\ prev \in [Decks -> 0..Positions-1]
      /\ consumed \in [Decks -> 0..Wrap-1] /\ origin \in [Decks -> 0..Wrap-1]
  BY DEF SampleInv, TypeOK
<1>5. /\ \A e \in Decks \ {d} :
           /\ pos'[e] = pos[e] /\ prev'[e] = prev[e]
           /\ have_hi'[e] = have_hi[e] /\ have_lo'[e] = have_lo[e]
           /\ ready'[e] = ready[e] /\ consumed'[e] = consumed[e]
           /\ origin'[e] = origin[e]
      /\ midi' # midi => midi'.pc = "store" /\ midi'.deck = d
  <2> HIDE DEF ev
  <2>1. /\ \E x : pos' = [pos EXCEPT ![d] = x]
        /\ \E x : have_hi' = [have_hi EXCEPT ![d] = x]
        /\ \E x : have_lo' = [have_lo EXCEPT ![d] = x]
        /\ prev' = prev \/ \E x : prev' = [prev EXCEPT ![d] = x]
        /\ \E x : ready' = [ready EXCEPT ![d] = x]
    BY <1>1, <1>3 DEF HandleJog
  <2>2. /\ consumed' = consumed \/ \E x : consumed' = [consumed EXCEPT ![d] = x]
        /\ origin' = origin \/ \E x : origin' = [origin EXCEPT ![d] = x]
    BY <1>1, <1>3 DEF HandleJog
  <2>3. midi' # midi => midi'.pc = "store" /\ midi'.deck = d
    BY <1>1, <1>3 DEF HandleJog
  <2>4. QED
    BY <1>4, <2>1, <2>2, <2>3
<1>6. CASE ev.cc = "hi" /\ d \notin slipped
  <2>1. ~have_lo[d]
    BY <1>2, <1>6 DEF SampleInv, NoLowHalf
  <2> HIDE DEF ev
  <2>2. /\ UNCHANGED <<prev, consumed, origin, midi>>
        /\ ready' = [ready EXCEPT ![d] = ready[d] \/ FALSE]
    BY <1>1, <1>3, <1>6, <2>1 DEF HandleJog
  <2>3. /\ pos' = [pos EXCEPT ![d] = [pos[d] EXCEPT !.hi = ev.val]]
        /\ have_hi' = [have_hi EXCEPT ![d] = TRUE]
        /\ have_lo' = [have_lo EXCEPT ![d] = FALSE]
    BY <1>1, <1>3, <1>6, <2>1 DEF HandleJog, Hold
  <2>4. UNCHANGED ready
    BY <1>2, <1>4, <2>2
  <2>5. have_hi'[d] /\ ~have_lo'[d] /\ pos'[d].hi = ev.val
    BY <1>2, <1>4, <2>3
  <2>6. QED
    BY <1>2, <1>5, <1>6, <2>2, <2>4, <2>5 DEF ev
<1>7. CASE ev.cc = "lo" /\ d \notin slipped
  <2>1. /\ have_hi[d] /\ ~have_lo[d]
        /\ Join([pos[d] EXCEPT !.lo = ev.val]) = ev.at % Positions
    BY <1>1, <1>2, <1>7, LowHalfCompletes
  <2> DEFINE turn == Unwrap(prev[d], ev.at % Positions)
  <2> HIDE DEF ev
  <2>2. /\ prev' = [prev EXCEPT ![d] = ev.at % Positions]
        /\ ready' = [ready EXCEPT ![d] = TRUE]
        /\ consumed' = [consumed EXCEPT ![d] = ev.at]
        /\ origin' = IF ready[d] THEN origin ELSE [origin EXCEPT ![d] = ev.at]
        /\ midi' = IF ready[d] /\ turn # 0
                   THEN [pc |-> "store", deck |-> d, t |-> now,
                         delta |-> Pulses(turn),
                         todo |-> {"last_ms", "vpos", "moving"}]
                   ELSE midi
    BY <1>1, <1>3, <1>7, <2>1 DEF HandleJog
  <2>3. have_lo' = [have_lo EXCEPT ![d] = FALSE]
    BY <1>1, <1>3, <1>7, <2>1 DEF HandleJog, Hold
  <2>4. ~have_lo'[d]
    BY <1>2, <1>4, <2>3
  <2>5. QED
    BY <1>2, <1>5, <1>7, <2>2, <2>4 DEF ev
<1>8. CASE d \in slipped
  BY <1>2, <1>5, <1>8
<1>9. QED
  BY <1>2, <1>6, <1>7, <1>8

\* handle_jog takes the head of the FIFO: a high half opens a pair, a low
\* half closes the pair its deck has open.
LEMMA HandleJogSample ==
    ASSUME SampleInv, HandleJog
    PROVE  Paired' /\ NoLowHalf' /\ SampleIsReported'
<1> DEFINE ev == queue[1]
<1>0. PICK n \in Nat : n = Len(queue)
  BY DEF SampleInv, TypeOK
<1>1. /\ n >= 1 /\ Len(queue') = n - 1 /\ slipped' = slipped
      /\ \A i \in 1..n-1 : queue'[i] = queue[i+1]
      /\ queue' # <<>> => n >= 2
  <2>1. queue \in Seq(Event) /\ queue # <<>> /\ queue' = Tail(queue)
        /\ slipped' = slipped
    BY DEF SampleInv, TypeOK, HandleJog
  <2>2. QED
    BY <1>0, <2>1
<1>2. PICK d \in Decks : d = ev.deck
  BY HandleJogReads
<1>3. ev.cc \in {"hi", "lo"} /\ ev.at \in 0..Wrap-1
  BY HandleJogReads DEF Event
<1>4. Paired'
  <2>1. ASSUME NEW i \in 1..Len(queue')
        PROVE  queue'[i].val = IF queue'[i].cc = "hi"
                               THEN Hi(queue'[i].at % Positions)
                               ELSE Lo(queue'[i].at % Positions)
    <3>1. i + 1 \in 1..n /\ queue'[i] = queue[i+1]
      BY <1>1
    <3>2. QED
      BY <1>0, <3>1 DEF SampleInv, Paired
  <2>2. ASSUME NEW i \in 2..Len(queue'), queue'[i].cc = "lo",
               queue'[i].deck \notin slipped'
        PROVE  /\ queue'[i-1].cc = "hi" /\ queue'[i-1].deck = queue'[i].deck
               /\ queue'[i-1].at = queue'[i].at
    <3>1. i + 1 \in 2..n /\ queue'[i] = queue[i+1] /\ queue'[i-1] = queue[i]
          /\ (i + 1) - 1 = i
      BY <1>1
    <3>2. QED
      BY <1>0, <1>1, <2>2, <3>1 DEF SampleInv, Paired
  <2>3. ASSUME queue' # <<>>, queue'[1].cc = "lo", queue'[1].deck \notin slipped'
        PROVE  /\ have_hi'[queue'[1].deck]
               /\ pos'[queue'[1].deck].hi = Hi(queue'[1].at % Positions)
    <3>1. 1 \in 1..n-1 /\ 2 \in 2..n /\ 2 - 1 = 1 /\ queue'[1] = queue[2]
      BY <1>1, <2>3
    <3>2. /\ ev.cc = "hi" /\ ev.deck = queue[2].deck /\ ev.at = queue[2].at
          /\ ev.deck \notin slipped
      BY <1>0, <1>1, <2>3, <3>1 DEF SampleInv, Paired
    <3>3. ev.val = Hi(ev.at % Positions)
      BY <1>0, <1>1, <3>2 DEF SampleInv, Paired
    <3>4. have_hi'[ev.deck] /\ pos'[ev.deck].hi = ev.val
      BY <3>2, HandleJogReads
    <3>5. QED
      BY <3>1, <3>2, <3>3, <3>4
  <2>4. QED
    BY <2>1, <2>2, <2>3 DEF Paired
<1>5. NoLowHalf'
  <2>1. ~have_lo'[d] \/ d \in slipped
    BY <1>2, HandleJogReads
  <2>2. \A e \in Decks \ {d} : have_lo'[e] = have_lo[e]
    BY <1>2, HandleJogReads
  <2>3. QED
    BY <1>1, <2>1, <2>2 DEF SampleInv, NoLowHalf
<1>6. SampleIsReported'
  <2>1. ASSUME NEW e \in Decks \ slipped, ready'[e]
        PROVE  prev'[e] = consumed'[e] % Positions
    <3>1. CASE e # d
      <4>1. prev'[e] = prev[e] /\ ready'[e] = ready[e] /\ consumed'[e] = consumed[e]
        BY <1>2, <3>1, HandleJogReads
      <4>2. QED
        BY <2>1, <4>1 DEF SampleInv, SampleIsReported
    <3>2. CASE e = d /\ ev.cc = "hi"
      <4>1. UNCHANGED <<prev, ready, consumed>>
        BY <1>2, <2>1, <3>2, HandleJogReads
      <4>2. QED
        BY <2>1, <4>1 DEF SampleInv, SampleIsReported
    <3>3. CASE e = d /\ ev.cc = "lo"
      <4>1. /\ prev' = [prev EXCEPT ![d] = ev.at % Positions]
            /\ consumed' = [consumed EXCEPT ![d] = ev.at]
        BY <1>2, <2>1, <3>3, HandleJogReads
      <4>2. prev \in [Decks -> 0..Positions-1] /\ consumed \in [Decks -> 0..Wrap-1]
        BY DEF SampleInv, TypeOK
      <4>3. prev'[e] = ev.at % Positions /\ consumed'[e] = ev.at
        BY <3>3, <4>1, <4>2
      <4>4. QED
        BY <4>3
    <3>4. QED
      BY <1>3, <3>1, <3>2, <3>3
  <2>2. QED
    BY <1>1, <2>1 DEF SampleIsReported
<1>7. QED
  BY <1>4, <1>5, <1>6

LEMMA NextSample == SampleInv /\ [Next]_vars => SampleInv'
<1> SUFFICES ASSUME SampleInv, [Next]_vars PROVE SampleInv'
  OBVIOUS
<1>1. TypeOK'
  BY NextType DEF SampleInv
<1>2. ASSUME NEW d \in Decks, NEW s \in Steps[d], Turn(d, s)
      PROVE  Paired' /\ NoLowHalf' /\ SampleIsReported'
  BY <1>2, TurnSample
<1>3. CASE HandleJog
  BY <1>1, <1>3, HandleJogSample DEF SampleInv
<1>4. CASE UNCHANGED <<queue, halves, history>>
  BY <1>1, <1>4
     DEF SampleInv, Paired, NoLowHalf, SampleIsReported, halves, history, samples
<1>5. ASSUME NEW f \in midi.todo, Store(f)
      PROVE  UNCHANGED <<queue, halves, history>>
  BY <1>5 DEF Store, surface
<1>6. SendJog \/ Tick \/ IdleThread \/ UNCHANGED vars
        => UNCHANGED <<queue, halves, history>>
  BY DEF SendJog, Tick, IdleThread, IdleWake, IdleCheck, IdleClear, IdleSend,
         vars, surface
<1>7. QED
  BY <1>1, <1>2, <1>3, <1>4, <1>5, <1>6 DEF Next, MidiThread, SampleInv

\* handle_jog never puts a sample together from two reports, unless the FIFO
\* dropped the high half of a report of that deck and not the low half: for
\* every number of decks, FIFO length and resolution, each sample it compares
\* with its predecessor is a position the wheel had at one report.
THEOREM JogSamples == Spec => []SampleIsReported
<1>1. SampleInv => SampleIsReported
  BY DEF SampleInv
<1>2. QED
  BY InitSample, NextSample, <1>1, PTL DEF Spec

-----------------------------------------------------------------------------
(* The counter.                                                            *)

\* The i-th event of the FIFO completes a report of deck d.
Report(i, d) == queue[i].cc = "lo" /\ queue[i].deck = d

NoneIn(d, lo, hi) == \A k \in lo..hi : ~Report(k, d)

\* The reports of a deck that matter are those in the FIFO and, as number 0,
\* the last one handle_jog consumed; each says where the wheel was.
Known(i, d) == IF i = 0 THEN ready[d] ELSE Report(i, d)
PlaceAt(i, d) == IF i = 0 THEN consumed[d] ELSE queue[i].at

OneTurn(d, a, b) == \E s \in Steps[d] : b = (a + s) % Wrap

\* On a deck that lost nothing a report and the next one are one turn apart
\* ...
Chained ==
    \A d \in Decks \ missed : \A i \in 0..Len(queue) : \A j \in i+1..Len(queue) :
        Known(i, d) /\ Report(j, d) /\ NoneIn(d, i+1, j-1)
            => OneTurn(d, PlaceAt(i, d), queue[j].at)

\* ... and the last report of a deck says where its wheel is now.
Latest ==
    \A d \in Decks \ missed : \A i \in 0..Len(queue) :
        Known(i, d) /\ NoneIn(d, i+1, Len(queue)) => wheel[d] = PlaceAt(i, d)

\* What the counter of deck d should be.
Followed(d) == (Factor * (consumed[d] - origin[d])) % Wrap

\* While the store to vpos is pending, it is the store that will bring the
\* counter up to date.
Pending ==
    /\ midi.pc = "read" => midi.todo = {}
    /\ "vpos" \in midi.todo /\ midi.deck \notin missed =>
          Advance(vpos[midi.deck], midi.delta) = Followed(midi.deck)

\* Nothing was consumed before the first sample.
Unmoved == \A d \in Decks \ missed : ~ready[d] => consumed[d] = origin[d]

TrackInv == Chained /\ Latest /\ Pending /\ Unmoved /\ VposTracksWheel

LEMMA InitTrack == Init => TrackInv
<1> SUFFICES ASSUME Init PROVE TrackInv
  OBVIOUS
<1>1. /\ Len(queue) = 0 /\ \A d \in Decks : ~ready[d]
      /\ \A d \in Decks : consumed[d] = 0 /\ origin[d] = 0 /\ vpos[d] = 0
      /\ midi.todo = {}
  BY DEF Init, MidiRest
<1>2. Chained /\ Latest
  <2>1. \A i \in 0..Len(queue) : i = 0
    BY <1>1
  <2>2. QED
    BY <1>1, <2>1 DEF Chained, Latest, Known
<1>3. (Factor * (0 - 0)) % Wrap = 0
  <2>1. Factor * (0 - 0) = 0
    BY JogAssumption DEF Factor
  <2>2. 0 % Wrap = 0
    BY Constants
  <2>3. QED
    BY <2>1, <2>2
<1>4. VposTracksWheel
  BY <1>1, <1>3 DEF VposTracksWheel, Factor
<1>5. QED
  BY <1>1, <1>2, <1>4 DEF TrackInv, Pending, Unmoved

\* A report is appended one turn after where the wheel was.
LEMMA TurnTrack ==
    ASSUME SampleInv, TrackInv, NEW d \in Decks, NEW s \in Steps[d], Turn(d, s)
    PROVE  Chained' /\ Latest'
<1>0. PICK n \in Nat : n = Len(queue)
  BY DEF SampleInv, TypeOK
<1>1. PICK w : w = (wheel[d] + s) % Wrap
  OBVIOUS
<1>2. UNCHANGED <<ready, consumed>> /\ wheel' = [wheel EXCEPT ![d] = w]
  BY <1>1 DEF Turn, halves, samples
<1>3. queue \in Seq(Event) /\ wheel \in [Decks -> 0..Wrap-1]
  BY DEF SampleInv, TypeOK
<1>4. missed \subseteq missed' /\ missed' \ {d} \subseteq missed
  BY <1>0, <1>1, TurnArrives
<1>5. /\ Len(queue') \in n..n+2
      /\ \A i \in 1..n : queue'[i] = queue[i]
      /\ \A i \in n+1..Len(queue') : queue'[i].deck = d /\ queue'[i].at = w
  BY <1>0, <1>1, TurnArrives
<1>6. \/ d \in missed'
      \/ Len(queue') = n+2 /\ queue'[n+1].cc = "hi" /\ queue'[n+2].cc = "lo"
  BY <1>0, <1>1, TurnArrives
<1>7. w = wheel'[d] /\ \A e \in Decks \ {d} : wheel'[e] = wheel[e]
  BY <1>2, <1>3
<1>8. \A a : a = wheel[d] => OneTurn(d, a, w)
  BY <1>1 DEF OneTurn
<1>9. PICK m \in Nat : m = Len(queue') /\ n <= m /\ m <= n + 2
  BY <1>5
<1>10. ASSUME NEW e \in Decks
       PROVE  /\ \A i \in 1..n : Report(i, e)' <=> Report(i, e)
              /\ \A i \in 0..n : /\ Known(i, e)' <=> Known(i, e)
                                 /\ PlaceAt(i, e)' = PlaceAt(i, e)
  <2>1. \A i \in 0..n : i # 0 => i \in 1..n
    BY <1>3
  <2>2. QED
    BY <1>2, <1>5, <2>1 DEF Report, Known, PlaceAt
\* The only new report is at the end, of deck d and where its wheel is.
<1>11. ASSUME NEW e \in Decks \ missed', NEW i \in n+1..m, Report(i, e)'
       PROVE  e = d /\ i = n + 2 /\ i = m /\ queue'[i].at = w
  <2>1. e = d /\ queue'[i].at = w
    BY <1>5, <1>9, <1>11 DEF Report
  <2>2. m = n+2 /\ queue'[n+1].cc = "hi" /\ queue'[i].cc = "lo"
    BY <1>6, <1>9, <1>11, <2>1 DEF Report
  <2>3. i # n + 1
    BY <2>2
  <2>4. QED
    BY <1>9, <2>1, <2>2, <2>3
<1>12. ASSUME NEW e \in Decks, NEW i \in 0..n, NEW k \in Nat, k <= n,
              NoneIn(e, i+1, k)'
       PROVE  NoneIn(e, i+1, k)
  <2>1. \A x \in i+1..k : x \in 1..n
    BY <1>3, <1>12
  <2>2. QED
    BY <1>10, <1>12, <2>1 DEF NoneIn
<1>13. Chained'
  <2>1. SUFFICES ASSUME NEW e \in Decks \ missed', NEW i \in 0..m, NEW j \in i+1..m,
                        Known(i, e)', Report(j, e)', NoneIn(e, i+1, j-1)'
                 PROVE  OneTurn(e, PlaceAt(i, e)', queue'[j].at)
    BY <1>9 DEF Chained, OneTurn
  <2>2. i \in Nat /\ j \in Nat /\ i < j /\ j <= m
    BY <1>9
  <2>3. i <= n
    <3>1. SUFFICES ASSUME i \in n+1..m PROVE FALSE
      BY <1>9, <2>2
    <3>2. Report(i, e)'
      BY <1>9, <2>1, <3>1 DEF Known
    <3>3. i = m
      BY <1>11, <3>1, <3>2
    <3>4. QED
      BY <1>9, <2>2, <3>3
  <2>4. i \in 0..n /\ e \notin missed
    BY <1>4, <2>2, <2>3
  <2>5. Known(i, e) /\ PlaceAt(i, e)' = PlaceAt(i, e)
    BY <1>10, <2>1, <2>4
  <2>6. CASE j \in 1..n
    <3>1. j - 1 \in Nat /\ j - 1 <= n /\ j \in i+1..n
      BY <2>2, <2>6
    <3>2. NoneIn(e, i+1, j-1)
      BY <1>12, <2>1, <2>4, <3>1
    <3>3. Report(j, e) /\ queue'[j].at = queue[j].at
      BY <1>5, <1>10, <2>1, <2>6
    <3>4. QED
      BY <1>0, <2>4, <2>5, <3>1, <3>2, <3>3 DEF TrackInv, Chained
  <2>7. CASE j \in n+1..m
    <3>1. e = d /\ j = n + 2 /\ queue'[j].at = w
      BY <1>11, <2>1, <2>7
    <3>2. NoneIn(e, i+1, n)'
      <4>1. \A x \in i+1..n : x \in i+1..j-1
        BY <2>2, <3>1
      <4>2. QED
        BY <2>1, <4>1 DEF NoneIn
    <3>3. NoneIn(e, i+1, n)
      BY <1>12, <2>4, <3>2
    <3>4. wheel[e] = PlaceAt(i, e)
      BY <1>0, <2>4, <2>5, <3>3 DEF TrackInv, Latest
    <3>5. QED
      BY <1>8, <2>5, <3>1, <3>4
  <2>8. QED
    BY <1>9, <2>2, <2>6, <2>7
<1>14. Latest'
  <2>1. SUFFICES ASSUME NEW e \in Decks \ missed', NEW i \in 0..m,
                        Known(i, e)', NoneIn(e, i+1, m)'
                 PROVE  wheel'[e] = PlaceAt(i, e)'
    BY <1>9 DEF Latest
  <2>2. CASE i \in n+1..m
    <3>1. Report(i, e)' /\ PlaceAt(i, e)' = queue'[i].at
      BY <1>9, <2>1, <2>2 DEF Known, PlaceAt
    <3>2. QED
      BY <1>7, <1>11, <2>2, <3>1
  <2>3. CASE i \in 0..n
    <3>1. e \notin missed /\ e # d
      <4>1. SUFFICES ASSUME e = d PROVE FALSE
        BY <1>4
      <4>2. m = n + 2 /\ Report(n+2, d)'
        <5>1. m = n + 2 /\ queue'[n+2].cc = "lo" /\ n + 2 \in n+1..m
          BY <1>6, <1>9, <4>1
        <5>2. QED
          BY <1>5, <1>9, <5>1 DEF Report
      <4>3. n + 2 \in i+1..m
        BY <2>3, <4>2
      <4>4. QED
        BY <2>1, <4>1, <4>2, <4>3 DEF NoneIn
    <3>2. NoneIn(e, i+1, n)'
      <4>1. \A x \in i+1..n : x \in i+1..m
        BY <1>9, <2>3
      <4>2. QED
        BY <2>1, <4>1 DEF NoneIn
    <3>3. NoneIn(e, i+1, n)
      BY <1>12, <2>3, <3>2
    <3>4. Known(i, e) /\ PlaceAt(i, e)' = PlaceAt(i, e)
      BY <1>10, <2>1, <2>3
    <3>5. wheel[e] = PlaceAt(i, e)
      BY <1>0, <2>3, <3>1, <3>3, <3>4 DEF TrackInv, Latest
    <3>6. QED
      BY <1>7, <3>1, <3>4, <3>5
  <2>4. QED
    BY <1>9, <2>2, <2>3
<1>15. QED
  BY <1>13, <1>14

\* The reports that are left keep their distances; the one consumed takes
\* the place of its predecessor.
LEMMA HandleJogTrack ==
    ASSUME SampleInv, TrackInv, HandleJog
    PROVE  Chained' /\ Latest'
<1> DEFINE ev == queue[1]
<1>0. PICK n \in Nat : n = Len(queue)
  BY DEF SampleInv, TypeOK
<1>1. /\ n >= 1 /\ Len(queue') = n - 1 /\ wheel' = wheel /\ missed' = missed
      /\ \A i \in 1..n-1 : queue'[i] = queue[i+1]
  <2>1. queue \in Seq(Event) /\ queue # <<>> /\ queue' = Tail(queue)
    BY DEF SampleInv, TypeOK, HandleJog
  <2>2. wheel' = wheel /\ missed' = missed
    BY DEF HandleJog
  <2>3. QED
    BY <1>0, <2>1, <2>2
<1>2. ready \in [Decks -> BOOLEAN] /\ consumed \in [Decks -> 0..Wrap-1]
  BY DEF SampleInv, TypeOK
<1>3. ASSUME NEW e \in Decks \ missed
      PROVE  /\ Report(1, e) => consumed'[e] = queue[1].at
             /\ ~Report(1, e) => ready'[e] = ready[e] /\ consumed'[e] = consumed[e]
  <2>1. e \notin slipped /\ ev.cc \in {"hi", "lo"}
    BY HandleJogReads DEF SampleInv, TypeOK, Event
  <2>2. CASE e = ev.deck /\ ev.cc = "hi"
    <3>1. UNCHANGED <<ready, consumed>>
      BY <2>1, <2>2, HandleJogReads
    <3>2. QED
      BY <2>2, <3>1 DEF Report
  <2>3. CASE e = ev.deck /\ ev.cc = "lo"
    <3>1. consumed' = [consumed EXCEPT ![e] = ev.at]
      BY <2>1, <2>3, HandleJogReads
    <3>2. QED
      BY <1>2, <2>3, <3>1 DEF Report
  <2>4. CASE e # ev.deck
    <3>1. ready'[e] = ready[e] /\ consumed'[e] = consumed[e]
      BY <2>4, HandleJogReads
    <3>2. QED
      BY <2>4, <3>1 DEF Report
  <2>5. QED
    BY <2>1, <2>2, <2>3, <2>4
<1> HIDE DEF ev
<1>4. ASSUME NEW e \in Decks \ missed, NEW i \in 0..n-1, Known(i, e)'
      PROVE  \E o \in 0..n :
               /\ o <= i + 1
               /\ Known(o, e) /\ PlaceAt(i, e)' = PlaceAt(o, e)
               /\ \A k \in Nat : k <= n - 1 /\ NoneIn(e, i+1, k)' =>
                    \A x \in o+1..k+1 : ~Report(x, e)
  <2>1. \A x \in 1..n-1 : Report(x, e)' <=> Report(x+1, e)
    BY <1>1 DEF Report
  <2>2. CASE i = 0 /\ ~Report(1, e)
    <3>1. Known(0, e) /\ PlaceAt(i, e)' = PlaceAt(0, e)
      BY <1>3, <1>4, <2>2 DEF Known, PlaceAt
    <3>2. ASSUME NEW k \in Nat, k <= n - 1, NoneIn(e, i+1, k)',
                 NEW x \in 0+1..k+1
          PROVE  ~Report(x, e)
      <4>1. CASE x = 1
        BY <2>2, <4>1
      <4>2. CASE x # 1
        <5>1. x - 1 \in i+1..k /\ x - 1 \in 1..n-1 /\ (x - 1) + 1 = x
          BY <2>2, <3>2, <4>2
        <5>2. ~Report(x - 1, e)'
          BY <3>2, <5>1 DEF NoneIn
        <5>3. QED
          BY <2>1, <5>1, <5>2
      <4>3. QED
        BY <4>1, <4>2
    <3>3. 0 \in 0..n /\ 0 <= i + 1
      BY <1>1, <2>2
    <3>4. QED
      BY <3>1, <3>2, <3>3
  <2>3. CASE ~(i = 0 /\ ~Report(1, e))
    <3>1. Known(i+1, e) /\ PlaceAt(i, e)' = PlaceAt(i+1, e)
      <4>1. i + 1 # 0 /\ i + 1 \in 1..n
        BY <1>1
      <4>2. CASE i = 0
        <5>1. Report(1, e) /\ consumed'[e] = queue[1].at
          BY <1>3, <2>3, <4>2
        <5>2. QED
          BY <4>2, <5>1 DEF Known, PlaceAt
      <4>3. CASE i # 0
        <5>1. i \in 1..n-1
          BY <4>3
        <5>2. Report(i, e)'
          BY <1>4, <4>3 DEF Known
        <5>3. queue'[i] = queue[i+1]
          BY <1>1, <5>1
        <5>4. QED
          BY <2>1, <4>1, <4>3, <5>1, <5>2, <5>3 DEF Known, PlaceAt
      <4>4. QED
        BY <4>2, <4>3
    <3>2. ASSUME NEW k \in Nat, k <= n - 1, NoneIn(e, i+1, k)',
                 NEW x \in (i+1)+1..k+1
          PROVE  ~Report(x, e)
      <4>1. x - 1 \in i+1..k /\ x - 1 \in 1..n-1 /\ (x - 1) + 1 = x
        BY <3>2
      <4>2. ~Report(x - 1, e)'
        BY <3>2, <4>1 DEF NoneIn
      <4>3. QED
        BY <2>1, <4>1, <4>2
    <3>3. i + 1 \in 0..n
      BY <1>1
    <3>4. QED
      BY <3>1, <3>2, <3>3
  <2>4. QED
    BY <2>2, <2>3
<1>5. Chained'
  <2>1. SUFFICES ASSUME NEW e \in Decks \ missed, NEW i \in 0..n-1, NEW j \in i+1..n-1,
                        Known(i, e)', Report(j, e)', NoneIn(e, i+1, j-1)'
                 PROVE  OneTurn(e, PlaceAt(i, e)', queue'[j].at)
    BY <1>1 DEF Chained, OneTurn
  <2>2. /\ j \in 1..n-1 /\ j - 1 \in Nat /\ j - 1 <= n - 1 /\ (j - 1) + 1 = j
        /\ j + 1 \in 1..n /\ (j + 1) - 1 = j
    BY <1>1
  <2>3. PICK o \in 0..n :
          /\ o <= i + 1
          /\ Known(o, e) /\ PlaceAt(i, e)' = PlaceAt(o, e)
          /\ \A k \in Nat : k <= n - 1 /\ NoneIn(e, i+1, k)' =>
               \A x \in o+1..k+1 : ~Report(x, e)
    BY <1>4, <2>1
  <2>4. NoneIn(e, o+1, (j+1)-1)
    BY <2>1, <2>2, <2>3 DEF NoneIn
  <2>5. Report(j+1, e) /\ queue'[j].at = queue[j+1].at /\ j + 1 \in o+1..n
    BY <1>1, <2>1, <2>2, <2>3 DEF Report
  <2>6. OneTurn(e, PlaceAt(o, e), queue[j+1].at)
    BY <1>0, <2>3, <2>4, <2>5 DEF TrackInv, Chained
  <2>7. QED
    BY <2>3, <2>5, <2>6
<1>6. Latest'
  <2>1. SUFFICES ASSUME NEW e \in Decks \ missed, NEW i \in 0..n-1,
                        Known(i, e)', NoneIn(e, i+1, n-1)'
                 PROVE  wheel[e] = PlaceAt(i, e)'
    BY <1>1 DEF Latest
  <2>2. PICK o \in 0..n :
          /\ Known(o, e) /\ PlaceAt(i, e)' = PlaceAt(o, e)
          /\ \A k \in Nat : k <= n - 1 /\ NoneIn(e, i+1, k)' =>
               \A x \in o+1..k+1 : ~Report(x, e)
    BY <1>4, <2>1
  <2>3. n - 1 \in Nat /\ (n - 1) + 1 = n
    BY <1>1
  <2>4. NoneIn(e, o+1, n)
    BY <2>1, <2>2, <2>3 DEF NoneIn
  <2>5. QED
    BY <1>0, <2>2, <2>4 DEF TrackInv, Latest
<1>7. QED
  BY <1>5, <1>6

\* The turn handle_jog computes is the turn the wheel made, and the counter
\* it advances by it is the displacement again.
LEMMA HandleJogCounter ==
    ASSUME SampleInv, TrackInv, HandleJog
    PROVE  Pending' /\ Unmoved' /\ VposTracksWheel'
<1> DEFINE ev == queue[1]
<1>0. PICK d \in Decks : d = ev.deck
  BY HandleJogReads
<1>1. /\ vpos' = vpos /\ midi.todo = {} /\ midi.pc = "read" /\ missed' = missed
      /\ \A e \in Decks \ missed : vpos[e] = Followed(e)
  BY DEF HandleJog, TrackInv, Pending, VposTracksWheel, Followed, Factor
<1>2. ev.at \in 0..Wrap-1 /\ ev.cc \in {"hi", "lo"}
  BY HandleJogReads DEF Event
\* The other decks.
<1>3. /\ \A e \in Decks \ {d} :
           /\ ready'[e] = ready[e] /\ consumed'[e] = consumed[e]
           /\ origin'[e] = origin[e] /\ Followed(e)' = Followed(e)
      /\ midi' # midi => midi'.pc = "store" /\ midi'.deck = d
  BY <1>0, HandleJogReads DEF Followed
<1>4. CASE d \in missed
  <2>1. \A e \in Decks \ missed : e \in Decks \ {d}
    BY <1>4
  <2>2. Unmoved'
    BY <1>1, <1>3, <2>1 DEF TrackInv, Unmoved
  <2>3. VposTracksWheel'
    <3>1. \A e \in Decks \ missed : vpos'[e] = Followed(e)'
      BY <1>1, <1>3, <2>1
    <3>2. QED
      BY <1>1, <3>1 DEF VposTracksWheel, Followed, Factor
  <2>4. Pending'
    <3>1. CASE midi' = midi
      BY <1>1, <3>1 DEF Pending
    <3>2. CASE midi' # midi
      BY <1>1, <1>3, <1>4, <3>2 DEF Pending
    <3>3. QED
      BY <3>1, <3>2
  <2>5. QED
    BY <2>2, <2>3, <2>4
<1>5. CASE d \notin missed /\ ev.cc = "hi"
  <2>1. UNCHANGED <<ready, consumed, origin, midi, vpos, missed>>
    BY <1>0, <1>1, <1>5, HandleJogReads DEF SampleInv, TypeOK
  <2>2. QED
    BY <2>1 DEF TrackInv, Pending, Unmoved, VposTracksWheel, Followed
<1>6. CASE d \notin missed /\ ev.cc = "lo"
  <2> DEFINE turn == Unwrap(prev[d], ev.at % Positions)
  <2>0. d \notin slipped
    BY <1>6 DEF SampleInv, TypeOK
  <2>1. /\ ready' = [ready EXCEPT ![d] = TRUE]
        /\ consumed' = [consumed EXCEPT ![d] = ev.at]
        /\ origin' = IF ready[d] THEN origin ELSE [origin EXCEPT ![d] = ev.at]
        /\ midi' = IF ready[d] /\ turn # 0
                   THEN [pc |-> "store", deck |-> d, t |-> now,
                         delta |-> Pulses(turn),
                         todo |-> {"last_ms", "vpos", "moving"}]
                   ELSE midi
    BY <1>0, <1>6, <2>0, HandleJogReads
  <2>2. /\ ready \in [Decks -> BOOLEAN] /\ consumed \in [Decks -> 0..Wrap-1]
        /\ origin \in [Decks -> 0..Wrap-1] /\ vpos \in [Decks -> 0..Wrap-1]
    BY DEF SampleInv, TypeOK
  <2>3. 1 \in 1..Len(queue)
    BY DEF SampleInv, TypeOK, HandleJog
  <2>4. Report(1, d)
    BY <1>0, <1>6 DEF Report
  <2> HIDE DEF ev, turn
  <2>5. \A e \in Decks \ {d} : Followed(e)' = Followed(e) /\ ready'[e] = ready[e]
    BY <1>3
  <2>6. /\ consumed'[d] = ev.at /\ ready'[d]
        /\ origin'[d] = IF ready[d] THEN origin[d] ELSE ev.at
    BY <1>2, <2>1, <2>2
  <2>7. Unmoved'
    BY <1>1, <1>3, <2>2, <2>6 DEF TrackInv, Unmoved
  <2>8. CASE ~ready[d]
    <3>1. midi' = midi
      BY <2>1, <2>8
    <3>2. Followed(d)' = Followed(d)
      <4>1. consumed'[d] - origin'[d] = 0 /\ consumed[d] - origin[d] = 0
        BY <1>2, <1>6, <2>2, <2>6, <2>8 DEF TrackInv, Unmoved
      <4>2. QED
        BY <4>1 DEF Followed
    <3>3. \A e \in Decks \ missed : vpos'[e] = Followed(e)'
      BY <1>1, <1>6, <2>5, <3>2
    <3>4. QED
      BY <1>1, <2>7, <3>1, <3>3 DEF Pending, VposTracksWheel, Followed, Factor
  <2>9. CASE ready[d]
    <3>0. PICK c, o \in Int : c = consumed[d] /\ o = origin[d]
      BY <1>2, <2>2
    <3>1. PICK s \in Steps[d] : ev.at = (c + s) % Wrap
      <4>1. Known(0, d) /\ PlaceAt(0, d) = c
        BY <2>9, <3>0 DEF Known, PlaceAt
      <4>2. NoneIn(d, 0+1, 1-1)
        BY DEF NoneIn
      <4>3. 0 \in 0..Len(queue) /\ 1 \in 0+1..Len(queue)
        BY <2>3
      <4>4. OneTurn(d, PlaceAt(0, d), queue[1].at)
        BY <1>2, <1>6, <2>4, <4>1, <4>2, <4>3 DEF TrackInv, Chained
      <4>5. QED
        BY <4>1, <4>4 DEF OneTurn, ev
    <3>2. /\ s \in Int /\ 2 * s < Positions /\ -(2 * s) < Positions
          /\ Wrap \in Nat \ {0} /\ Factor \in Int
      BY <1>2, <2>2, JogAssumption DEF Factor
    <3>3. turn = s
      <4>1. prev[d] = c % Positions
        BY <1>2, <2>0, <2>9, <3>0 DEF SampleInv, SampleIsReported
      <4>2. ev.at % Positions = (c + s) % Positions
        BY <3>1, <3>2, ModMod
      <4>3. QED
        BY <3>2, <4>1, <4>2, UnwrapIsTurn DEF turn
    <3>4. Followed(d)' = Advance(vpos[d], Factor * s)
      <4>1. Followed(d)' = (Factor * (((c + s) % Wrap) - o)) % Wrap
        BY <2>6, <2>9, <3>0, <3>1 DEF Followed
      <4>2. (Factor * (((c + s) % Wrap) - o)) % Wrap
              = (Factor * ((c + s) - o)) % Wrap
        <5>1. c + s \in Int
          BY <3>2
        <5>2. QED
          BY <3>2, <5>1, ModScale
      <4>3. Factor * ((c + s) - o) = Factor * (c - o) + Factor * s
        BY <3>2
      <4>4. vpos[d] = (Factor * (c - o)) % Wrap
        BY <1>1, <1>2, <1>6, <3>0 DEF Followed
      <4>5. (((Factor * (c - o)) % Wrap) + Factor * s) % Wrap
              = (Factor * (c - o) + Factor * s) % Wrap
        <5>1. Factor * (c - o) \in Int /\ Factor * s \in Int
          BY <3>2
        <5>2. QED
          BY <3>2, <5>1, ModAdd
      <4>6. QED
        BY <4>1, <4>2, <4>3, <4>4, <4>5 DEF Advance
    <3>5. Pulses(s) = Factor * s
      BY <1>2, PulsesOfTurn
    <3>6. CASE s = 0
      <4>1. midi' = midi
        BY <2>1, <3>3, <3>6
      <4>2. Followed(d)' = vpos[d]
        <5>1. Factor * s = 0
          BY <3>2, <3>6
        <5>2. vpos[d] \in 0..Wrap-1
          BY <1>2, <2>2
        <5>3. (vpos[d] + 0) % Wrap = vpos[d]
          BY <3>2, <5>2
        <5>4. QED
          BY <3>4, <5>1, <5>3 DEF Advance
      <4>3. \A e \in Decks \ missed : vpos'[e] = Followed(e)'
        BY <1>1, <2>5, <4>2
      <4>4. QED
        BY <1>1, <2>7, <4>1, <4>3 DEF Pending, VposTracksWheel, Followed, Factor
    <3>7. CASE s # 0
      <4>1. midi' = [pc |-> "store", deck |-> d, t |-> now,
                     delta |-> Pulses(s),
                     todo |-> {"last_ms", "vpos", "moving"}]
        BY <2>1, <2>9, <3>3, <3>7
      <4>2. /\ midi'.pc = "store" /\ midi'.deck = d /\ "vpos" \in midi'.todo
            /\ midi'.delta = Factor * s
        BY <3>5, <4>1
      <4>3. Advance(vpos[d], Factor * s)' = Followed(d)'
        BY <1>1, <3>4 DEF Advance
      <4>4. Pending'
        BY <1>1, <3>4, <4>2 DEF Pending, Advance, Followed
      <4>5. VposTracksWheel'
        BY <1>1, <2>5, <4>2 DEF VposTracksWheel, Followed, Factor
      <4>6. QED
        BY <2>7, <4>4, <4>5
    <3>8. QED
      BY <3>6, <3>7
  <2>10. QED
    BY <2>8, <2>9
<1>7. QED
  BY <1>2, <1>4, <1>5, <1>6

\* The store makes the counter right; the key then leaves it alone.
LEMMA StoreTrack ==
    ASSUME SampleInv, TrackInv, (\E f \in midi.todo : Store(f)) \/ SendJog
    PROVE  Pending' /\ Unmoved' /\ VposTracksWheel'
<1>1. UNCHANGED <<ready, consumed, origin, missed>> /\ Unmoved'
  BY DEF Store, SendJog, halves, history, samples, TrackInv, Unmoved
<1>2. \A e \in Decks : Followed(e)' = Followed(e)
  BY <1>1 DEF Followed
<1>3. midi \in MidiState /\ vpos \in [Decks -> 0..Wrap-1] /\ midi.deck \in Decks
  BY DEF SampleInv, TypeOK, MidiState
<1>4. ASSUME NEW f \in midi.todo, Store(f)
      PROVE  Pending' /\ VposTracksWheel'
  <2>1. /\ midi.pc = "store" /\ midi' = [midi EXCEPT !.todo = @ \ {f}]
    BY <1>4 DEF Store
  <2>2. /\ midi'.pc = "store" /\ midi'.todo = midi.todo \ {f}
        /\ midi'.deck = midi.deck /\ midi'.delta = midi.delta
    BY <1>3, <2>1 DEF MidiState
  <2>3. f \in {"last_ms", "vpos", "moving"}
    BY <1>3, <1>4 DEF MidiState
  <2>4. CASE f = "vpos"
    <3>1. vpos' = [vpos EXCEPT ![midi.deck] = Advance(vpos[midi.deck], midi.delta)]
      BY <1>4, <2>4 DEF Store
    <3>2. midi.deck \notin missed => vpos'[midi.deck] = Followed(midi.deck)
      BY <1>3, <1>4, <2>4, <3>1 DEF TrackInv, Pending
    <3>3. \A e \in Decks \ missed : vpos'[e] = Followed(e)
      BY <1>3, <3>1, <3>2 DEF TrackInv, VposTracksWheel, Followed, Factor
    <3>4. QED
      BY <1>1, <2>2, <2>4, <3>3
         DEF Pending, VposTracksWheel, Followed, Factor
  <2>5. CASE f # "vpos"
    <3>1. vpos' = vpos
      BY <1>4, <2>3, <2>5 DEF Store
    <3>2. "vpos" \in midi'.todo <=> "vpos" \in midi.todo
      BY <2>2, <2>5
    <3>3. QED
      BY <1>1, <2>2, <3>1, <3>2
         DEF TrackInv, Pending, VposTracksWheel, Followed
  <2>6. QED
    BY <2>4, <2>5
<1>5. CASE SendJog
  <2>1. vpos' = vpos /\ midi.todo = {} /\ midi'.todo = {}
    BY <1>5 DEF SendJog, MidiRest
  <2>2. QED
    BY <1>1, <2>1 DEF TrackInv, Pending, VposTracksWheel, Followed
<1>6. QED
  BY <1>1, <1>4, <1>5

LEMMA NextTrack == SampleInv /\ TrackInv /\ [Next]_vars => TrackInv'
<1> SUFFICES ASSUME SampleInv, TrackInv, [Next]_vars PROVE TrackInv'
  OBVIOUS
<1>1. UNCHANGED <<wheel, queue, ready, consumed, missed>> => Chained' /\ Latest'
  BY DEF TrackInv, Chained, Latest, Known, PlaceAt, Report, NoneIn, OneTurn
<1>2. UNCHANGED <<ready, consumed, origin, vpos, midi>> /\ missed \subseteq missed'
        => Pending' /\ Unmoved' /\ VposTracksWheel'
  BY DEF TrackInv, Pending, Unmoved, VposTracksWheel, Followed
<1>3. ASSUME NEW d \in Decks, NEW s \in Steps[d], Turn(d, s) PROVE TrackInv'
  <2>1. Chained' /\ Latest'
    BY <1>3, TurnTrack
  <2>2. UNCHANGED <<ready, consumed, origin, vpos, midi>> /\ missed \subseteq missed'
    BY <1>3 DEF Turn, halves, samples
  <2>3. QED
    BY <1>2, <2>1, <2>2 DEF TrackInv
<1>4. CASE HandleJog
  BY <1>4, HandleJogTrack, HandleJogCounter DEF TrackInv
<1>5. CASE (\E f \in midi.todo : Store(f)) \/ SendJog
  <2>1. UNCHANGED <<wheel, queue, ready, consumed, missed>>
    BY <1>5 DEF Store, SendJog, surface, halves, history, samples
  <2>2. QED
    BY <1>1, <1>5, <2>1, StoreTrack DEF TrackInv
<1>6. CASE Tick \/ IdleThread \/ UNCHANGED vars
  <2>1. UNCHANGED <<wheel, queue, ready, consumed, origin, vpos, midi, missed>>
    BY <1>6 DEF Tick, IdleThread, IdleWake, IdleCheck, IdleClear, IdleSend,
                vars, surface, halves, history, samples
  <2>2. QED
    BY <1>1, <1>2, <2>1 DEF TrackInv
<1>7. QED
  BY <1>3, <1>4, <1>5, <1>6 DEF Next, MidiThread

\* Whatever way and however often a wheel passed its own wrap-around, and
\* however its reports interleave with those of other decks, whatever those
\* lose, and the stores with jog_idle_thread, the counter the engine is given
\* is the displacement of the wheel since the first report, modulo the
\* engine's wrap, on every deck none of whose own reports was dropped.
THEOREM CounterTracksWheel == Spec => []VposTracksWheel
<1>1. TrackInv => VposTracksWheel
  BY DEF TrackInv
<1>2. QED
  BY InitSample, NextSample, InitTrack, NextTrack, <1>1, PTL DEF Spec
=============================================================================
