------------------------------ MODULE JogWheel ------------------------------
(***************************************************************************)
(* The jog path of scripts/shims/knobshim2.c.                              *)
(*                                                                         *)
(* The control surface reports the absolute position of a jog wheel as two *)
(* MIDI controller events (the high half on CC 0x37, the low half on CC    *)
(* 0x4D).  midi_thread reads them from the ALSA sequencer FIFO, which may  *)
(* have dropped either, and handle_jog assembles a sample, unwraps it into *)
(* the engine's counter vpos and sends a jog key.  jog_idle_thread shares  *)
(* the per-deck jog_state without a lock: it samples the clock, tests      *)
(* moving and last_ms, and ends the movement with a speed-0 key.           *)
(*                                                                         *)
(* Abstractions.  A position is split at Half instead of 128, and pos      *)
(* keeps its two halves apart where the code masks them in one int.  The   *)
(* speed of a key is its sign: the code clamps a non-zero quotient, so     *)
(* only zero, forward and backward are told apart.  Time is counted in     *)
(* ticks of the monotonic clock; jog_idle_ms is Idle ticks.                *)
(***************************************************************************)
EXTENDS Integers, Sequences

CONSTANTS
    NDecks,      \* number of decks; jog_state[2] in the code
    Half,        \* values of one controller half (128)
    Wrap,        \* modulus of the engine's counter (65536)
    Steps,       \* per deck, the turns of its wheel between two reports
    Scale,       \* JOG_SCALE
    MaxDelta,    \* largest pulse delta of one key (4096)
    Rev,         \* JOG_REV
    Idle,        \* jog_idle_ms, in ticks
    TimeMod,     \* 2^64, the width of unsigned long long
    Lossy,       \* the sequencer may drop events
    MaxReports,  \* bound: reports a surface sends in a behaviour
    QueueLen     \* bound: events the sequencer FIFO holds

Positions == Half * Half
Decks     == 1..NDecks

ASSUME JogAssumption ==
    /\ NDecks \in Nat \ {0} /\ Half \in Nat \ {0, 1} /\ Idle \in Nat \ {0}
    /\ Wrap \in Nat \ {0} /\ Positions <= Wrap /\ Wrap % Positions = 0
    /\ Scale \in Nat \ {0} /\ MaxDelta \in Nat \ {0} /\ Rev \in BOOLEAN
    /\ Lossy \in BOOLEAN
    /\ TimeMod \in Nat \ {0} /\ MaxReports \in Nat /\ QueueLen \in Nat \ {0, 1}
    \* Between two reports a wheel turns less than half of its range, and
    \* no turn is clamped.
    /\ \A d \in Decks : Steps[d] \subseteq Int
    /\ \A d \in Decks : \A s \in Steps[d] :
          /\ 2 * s < Positions /\ -(2 * s) < Positions
          /\ s * Scale <= MaxDelta /\ -(s * Scale) <= MaxDelta

VARIABLES
    \* The surface and the sequencer.
    wheel,     \* displacement of each wheel, modulo Wrap
    reports,   \* reports sent so far
    queue,     \* sequencer FIFO; the field "at" is the wheel at the report
    now,       \* CLOCK_MONOTONIC
    \* struct jog_ctrl, per deck.
    pos, have_hi, have_lo, prev, ready, last_ms, vpos, moving, speed,
    \* midi_thread inside handle_jog.
    midi,      \* [pc, deck, t, delta, todo]
    \* jog_idle_thread.
    idle,      \* [pc, deck, t, l]
    \* The engine: the last jog key each deck received.
    engine,
    \* History: the displacement at the first and at the last whole report
    \* handle_jog consumed; the decks that had a part of a report dropped, and
    \* those that had the high half of one dropped and not the low half.
    origin, consumed, missed, slipped

surface == <<wheel, reports, queue>>
halves  == <<pos, have_hi, have_lo, prev, ready>>
samples == <<origin, consumed>>
history == <<samples, missed, slipped>>
vars    == <<surface, now, halves, last_ms, vpos, moving, speed,
             midi, idle, engine, history>>

-----------------------------------------------------------------------------
(* Helpers.  A definition named Bad... is a fault: the definition after it *)
(* with a bug the code could have, kept to show that a property notices.   *)

Hi(p) == p \div Half
Lo(p) == p % Half
Join(h) == h.hi * Half + h.lo

\* A controller event of the sequencer.
Event == [deck : Decks, cc : {"hi", "lo"}, val : 0..Half-1, at : 0..Wrap-1]

\* A half stays flagged until its sample is whole.
BadHold(have, whole) == have
Hold(have, whole) == have /\ ~whole

\* The shorter way round from position p to position q.
BadUnwrap(p, q) == q - p
Unwrap(p, q) ==
    LET d == q - p
    IN  IF 2 * d > Positions THEN d - Positions
        ELSE IF 2 * d < -Positions THEN d + Positions
        ELSE d

Clamp(d) == IF d > MaxDelta THEN MaxDelta
            ELSE IF d < -MaxDelta THEN -MaxDelta ELSE d

Pulses(d) == Clamp((IF Rev THEN -d ELSE d) * Scale)

\* The engine's counter after a pulse delta.
BadAdvance(v, dp) == v + dp
Advance(v, dp) == (v + dp) % Wrap

Sign(d) == IF d > 0 THEN 1 ELSE IF d < 0 THEN -1 ELSE 0

\* now_ms() - last_ms on unsigned long long.
Elapsed(t, last) == (t - last) % TimeMod

MidiState == [pc : {"read", "store"}, deck : Decks, t : Nat,
              delta : -MaxDelta..MaxDelta,
              todo : SUBSET {"last_ms", "vpos", "moving"}]
IdleState == [pc : {"usleep", "check", "clear", "send"}, deck : Decks,
              t : Nat, l : 0..Wrap-1]

MidiRest == [pc |-> "read", deck |-> 1, t |-> 0, delta |-> 0, todo |-> {}]
IdleRest == [pc |-> "usleep", deck |-> 1, t |-> 0, l |-> 0]

Init ==
    /\ wheel \in [Decks -> 0..Positions-1] /\ reports = 0 /\ queue = <<>>
    /\ now = 0
    /\ pos = [d \in Decks |-> [hi |-> 0, lo |-> 0]]
    /\ prev = [d \in Decks |-> 0]
    /\ have_hi = [d \in Decks |-> FALSE] /\ have_lo = [d \in Decks |-> FALSE]
    /\ ready = [d \in Decks |-> FALSE] /\ last_ms = [d \in Decks |-> 0]
    /\ vpos = [d \in Decks |-> 0] /\ moving = [d \in Decks |-> FALSE]
    /\ speed = [d \in Decks |-> 0]
    /\ midi = MidiRest /\ idle = IdleRest
    /\ engine = [d \in Decks |-> [speed |-> 0, pos |-> 0]]
    /\ origin = [d \in Decks |-> 0] /\ consumed = [d \in Decks |-> 0]
    /\ missed = {} /\ slipped = {}

-----------------------------------------------------------------------------
(* The environment.                                                        *)

\* The FIFO takes an event that is not dropped.
Arrive(q, ev, lost) == IF ev.cc \in lost THEN q ELSE Append(q, ev)

\* A wheel turns by s and the surface reports it: the high half, then the
\* low half.  A step of 0 is a repeated report.
Turn(d, s) ==
    /\ reports < MaxReports
    /\ \E lost \in IF Lossy THEN SUBSET {"hi", "lo"} ELSE {{}} :
          LET w == (wheel[d] + s) % Wrap
              p == w % Positions
              hi == [deck |-> d, cc |-> "hi", val |-> Hi(p), at |-> w]
              lo == [deck |-> d, cc |-> "lo", val |-> Lo(p), at |-> w]
          IN  /\ wheel' = [wheel EXCEPT ![d] = w]
              /\ queue' = Arrive(Arrive(queue, hi, lost), lo, lost)
              /\ Len(queue') <= QueueLen
              /\ missed' = IF lost = {} THEN missed ELSE missed \cup {d}
              /\ slipped' = IF lost = {"hi"} THEN slipped \cup {d} ELSE slipped
    /\ reports' = reports + 1
    /\ UNCHANGED <<now, halves, last_ms, vpos, moving, speed, midi, idle,
                   engine, samples>>

\* Time passes.  Once every deck that had a sample has been silent for
\* Idle + 1 ticks a later clock cannot be told apart, so it stops there (the
\* bound on now).
Tick ==
    /\ \E d \in Decks : ready[d] /\ now <= last_ms[d] + Idle
    /\ now' = now + 1
    /\ UNCHANGED <<surface, halves, last_ms, vpos, moving, speed, midi, idle,
                   engine, history>>

-----------------------------------------------------------------------------
(* handle_jog, run by midi_thread.                                         *)

\* An event arrives and its half is stored.  Without the other half the
\* handler returns.  A whole sample is compared with the previous one: the
\* first only sets prev, an unchanged one only refreshes last_ms, any other
\* takes the time t and goes on to Store.
HandleJog ==
    /\ midi.pc = "read" /\ queue # <<>>
    /\ LET ev    == Head(queue)
           d     == ev.deck
           hi    == have_hi[d] \/ ev.cc = "hi"
           lo    == have_lo[d] \/ ev.cc = "lo"
           half  == IF ev.cc = "hi" THEN [pos[d] EXCEPT !.hi = ev.val]
                                    ELSE [pos[d] EXCEPT !.lo = ev.val]
           p     == Join(half)
           whole == hi /\ lo
           delta == Unwrap(prev[d], p)
       IN  /\ pos' = [pos EXCEPT ![d] = half]
           /\ have_hi' = [have_hi EXCEPT ![d] = Hold(hi, whole)]
           /\ have_lo' = [have_lo EXCEPT ![d] = Hold(lo, whole)]
           /\ prev' = IF whole THEN [prev EXCEPT ![d] = p] ELSE prev
           /\ ready' = [ready EXCEPT ![d] = @ \/ whole]
           /\ last_ms' = IF whole /\ (~ready[d] \/ delta = 0)
                         THEN [last_ms EXCEPT ![d] = now] ELSE last_ms
           /\ midi' = IF whole /\ ready[d] /\ delta # 0
                      THEN [pc |-> "store", deck |-> d, t |-> now,
                            delta |-> Pulses(delta),
                            todo |-> {"last_ms", "vpos", "moving"}]
                      ELSE midi
           /\ consumed' = IF whole THEN [consumed EXCEPT ![d] = ev.at]
                                   ELSE consumed
           /\ origin' = IF whole /\ ~ready[d] THEN [origin EXCEPT ![d] = ev.at]
                                              ELSE origin
    /\ queue' = Tail(queue)
    /\ UNCHANGED <<wheel, reports, now, vpos, moving, speed, idle, engine,
                   missed, slipped>>

\* The stores of handle_jog that jog_idle_thread can see.  They are plain
\* stores before one opaque call, so they may become visible in any order.
Store(field) ==
    /\ midi.pc = "store" /\ field \in midi.todo
    /\ midi' = [midi EXCEPT !.todo = @ \ {field}]
    /\ LET d == midi.deck
       IN  CASE field = "last_ms" ->
                  /\ last_ms' = [last_ms EXCEPT ![d] = midi.t]
                  /\ UNCHANGED <<vpos, moving, speed>>
             [] field = "vpos" ->
                  /\ vpos' = [vpos EXCEPT ![d] = Advance(@, midi.delta)]
                  /\ UNCHANGED <<last_ms, moving, speed>>
             [] field = "moving" ->
                  /\ moving' = [moving EXCEPT ![d] = TRUE]
                  /\ speed' = [speed EXCEPT ![d] = Sign(midi.delta)]
                  /\ UNCHANGED <<last_ms, vpos>>
    /\ UNCHANGED <<surface, now, halves, idle, engine, history>>

\* send_rx_key_fl with the speed handle_jog computed.
SendJog ==
    /\ midi.pc = "store" /\ midi.todo = {}
    /\ engine' = [engine EXCEPT ![midi.deck] =
                    [speed |-> Sign(midi.delta), pos |-> vpos[midi.deck]]]
    /\ midi' = MidiRest
    /\ UNCHANGED <<surface, now, halves, last_ms, vpos, moving, speed, idle,
                   history>>

-----------------------------------------------------------------------------
(* jog_idle_thread.                                                        *)

\* usleep returns and the clock is sampled, once for all decks.
IdleWake ==
    /\ idle.pc = "usleep"
    /\ idle' = [idle EXCEPT !.pc = "check", !.deck = 1, !.t = now]
    /\ UNCHANGED <<surface, now, halves, last_ms, vpos, moving, speed, midi,
                   engine, history>>

\* The deck the loop looks at after this one, or the end of the round.
NextDeck == IF idle.deck = NDecks THEN IdleRest
            ELSE [idle EXCEPT !.pc = "check", !.deck = @ + 1, !.l = 0]

BadTimedOut(d) ==
    /\ ready[d] /\ moving[d]
    /\ Elapsed(idle.t, last_ms[d]) < Idle
TimedOut(d) ==
    /\ ready[d] /\ moving[d]
    /\ Elapsed(idle.t, last_ms[d]) >= Idle

IdleCheck ==
    /\ idle.pc = "check"
    /\ idle' = IF TimedOut(idle.deck) THEN [idle EXCEPT !.pc = "clear"]
                                      ELSE NextDeck
    /\ UNCHANGED <<surface, now, halves, last_ms, vpos, moving, speed, midi,
                   engine, history>>

\* The movement ends, and vpos is read for the key.
IdleClear ==
    /\ idle.pc = "clear"
    /\ moving' = [moving EXCEPT ![idle.deck] = FALSE]
    /\ speed' = [speed EXCEPT ![idle.deck] = 0]
    /\ idle' = [idle EXCEPT !.pc = "send", !.l = vpos[idle.deck]]
    /\ UNCHANGED <<surface, now, halves, last_ms, vpos, midi, engine, history>>

IdleSend ==
    /\ idle.pc = "send"
    /\ engine' = [engine EXCEPT ![idle.deck] = [speed |-> 0, pos |-> idle.l]]
    /\ idle' = NextDeck
    /\ UNCHANGED <<surface, now, halves, last_ms, vpos, moving, speed, midi,
                   history>>

-----------------------------------------------------------------------------
MidiThread == HandleJog \/ (\E f \in midi.todo : Store(f)) \/ SendJog
IdleThread == IdleWake \/ IdleCheck \/ IdleClear \/ IdleSend

Next ==
    \/ \E d \in Decks : \E s \in Steps[d] : Turn(d, s)
    \/ Tick
    \/ MidiThread
    \/ IdleThread

Spec == Init /\ [][Next]_vars

\* Both threads run and time passes; nobody has to turn a wheel.
FairSpec == Spec /\ WF_vars(Tick) /\ WF_vars(MidiThread) /\ WF_vars(IdleThread)

-----------------------------------------------------------------------------
(* Properties.                                                             *)

TypeOK ==
    /\ wheel \in [Decks -> 0..Wrap-1] /\ reports \in 0..MaxReports
    /\ queue \in Seq(Event) /\ Len(queue) <= QueueLen /\ now \in Nat
    /\ pos \in [Decks -> [hi : 0..Half-1, lo : 0..Half-1]]
    /\ prev \in [Decks -> 0..Positions-1]
    /\ have_hi \in [Decks -> BOOLEAN] /\ have_lo \in [Decks -> BOOLEAN]
    /\ ready \in [Decks -> BOOLEAN] /\ moving \in [Decks -> BOOLEAN]
    /\ last_ms \in [Decks -> Nat] /\ vpos \in [Decks -> 0..Wrap-1]
    /\ speed \in [Decks -> {-1, 0, 1}]
    /\ midi \in MidiState /\ idle \in IdleState
    /\ engine \in [Decks -> [speed : {-1, 0, 1}, pos : 0..Wrap-1]]
    /\ origin \in [Decks -> 0..Wrap-1] /\ consumed \in [Decks -> 0..Wrap-1]
    /\ missed \subseteq Decks /\ slipped \subseteq missed

\* The halves are never paired across reports: the sample handle_jog last
\* assembled is the position of the wheel at one report, on every deck,
\* however the reports of the decks interleave in the FIFO and whatever it
\* drops, but for one loss: after a low half that comes without its high half
\* the flags pair it with the high half of the next report, and so on.
SampleIsReported ==
    \A d \in Decks \ slipped : ready[d] => prev[d] = consumed[d] % Positions

\* The counter the engine is given follows the wheel: whatever way and
\* however often the wheel passed its own wrap-around, vpos is the
\* displacement since the first report, modulo the engine's wrap, on every
\* deck none of whose reports was dropped, whatever the others lose.
VposTracksWheel ==
    \A d \in Decks \ missed :
        \/ midi.deck = d /\ "vpos" \in midi.todo
        \/ vpos[d] = ((IF Rev THEN -1 ELSE 1) * Scale
                        * (consumed[d] - origin[d])) % Wrap

\* A wheel left alone is eventually seen as idle on every deck: no
\* interleaving of the two threads leaves the flag moving set for good.
MotionSettles == <>[](\A d \in Decks : ~moving[d])

\* The comment of jog_idle_thread (knobshim2.c:601): when the wheel has not
\* moved for jog_idle_ms, a speed-0 key ends the pitch bend.  So a wheel
\* left alone leaves its deck at speed 0.
EngineComesToRest == <>[](\A d \in Decks : engine[d].speed = 0)
=============================================================================
