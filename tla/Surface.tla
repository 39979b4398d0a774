------------------------------- MODULE Surface -------------------------------
(***************************************************************************)
(* The knobs and faders of scripts/shims/knobshim2.c, from the start of    *)
(* midi_thread to the values rbp's engine has.  midi_thread waits for      *)
(* rbp's KeyManager, prepares the engine, subscribes to the surface and    *)
(* reads its events; bfx_init_thread repeats one of the preparations while *)
(* rbp may still be initialising.  The sequencer FIFO drops what does not  *)
(* fit.                                                                    *)
(*                                                                         *)
(* A control is a <<channel, CC>> pair, a key a <<name, send channel>>     *)
(* pair.  Norm is the fader's float in 1/8192: all the code's              *)
(* floating-point operations on it are exact.                              *)
(***************************************************************************)
EXTENDS Integers, Sequences

CONSTANTS
    Moved,      \* the absolute controls that are turned
    Values,     \* the CC values they take
    Slid,       \* the decks whose pitch fader is moved
    Positions,  \* the 14-bit positions the pitch faders take
    Turns,      \* steps of the browse knob in one report
    Scale,      \* knob_scale
    Reversed,   \* TEMPO_REV is set
    Rounds,     \* rounds midi_thread waits for the KeyManager (300)
    Repeats,    \* rounds of bfx_init_thread (6)
    QueueLen,   \* events the sequencer FIFO holds
    MaxReports  \* bound: reports of the surface

Browse == <<15, 5>>
HI == 31        \* 0x1F
LO == 75        \* 0x4B

\* build_maps: <<channel, CC, key, send channel>>.
AbsMap ==
    {<<15, 12, "HPMIX", 1>>, <<15, 13, "HPLEVEL", 1>>, <<15, 14, "XFADER", 1>>,
     <<4, 4, "DEPTH", 1>>, <<4, 34, "TIME", 1>>}
    \cup {<<2 + d, 32, "ALOOP", 1 + d>> : d \in 0..1}
    \cup UNION {{<<m, 3, "TRIM", 1 + m>>, <<m, 4, "EQH", 1 + m>>,
                 <<m, 6, "EQM", 1 + m>>, <<m, 8, "EQL", 1 + m>>,
                 <<m, 14, "FADER", 1 + m>>, <<m, 11, "COLOR", 1 + m>>} : m \in 0..1}

Control(e) == <<e[1], e[2]>>
Key(e) == <<e[3], e[4]>>
Controls == {Control(e) : e \in AbsMap}
Keys == {Key(e) : e \in AbsMap}
Decks == 1..2
Channel(d) == d + 1
Unset == [norm |-> 0, v10 |-> -1]

ASSUME SurfaceAssumption ==
    /\ Moved \subseteq Controls /\ Slid \subseteq Decks /\ Values \subseteq 0..127
    /\ Positions \subseteq 0..16383 /\ Turns \subseteq -64..63
    /\ Reversed \in BOOLEAN
    /\ {Scale, QueueLen} \subseteq Nat \ {0}
    /\ {Rounds, Repeats, MaxReports} \subseteq Nat

VARIABLES
    \* The surface: where the controls are, whether the low half of a fader's
    \* report is due, the FIFO, and the uses of the bound.
    knob, fader, due, queue, reports,
    \* rbp: the KeyManager, the Beat FX channel, the values and tempo settings
    \* it was last given, and where the selector is.
    km, bfx, value, tempo, cursor,
    \* midi_thread (stage counts the steps of seq_setup) and bfx_init_thread.
    pc, waited, stage, enforced,
    \* abs_map[].last and pitch_state.
    last, pitch,
    \* History: controls whose latest report arrived whole, and the steps of
    \* the selector that the turns of the browse knob that did are worth.
    heard, turned

surface == <<knob, fader, due, queue, reports, heard, turned>>
engine  == <<value, tempo, cursor>>
setup   == <<km, bfx, pc, waited, stage, enforced>>
vars    == <<surface, engine, setup, last, pitch>>

Init ==
    /\ knob \in [Moved -> Values] /\ fader \in [Slid -> Positions]
    /\ due = [d \in Slid |-> FALSE] /\ queue = <<>> /\ reports = 0
    /\ km = FALSE /\ bfx = "default" /\ value = [k \in Keys |-> -1]
    /\ tempo = [d \in Decks |-> Unset] /\ cursor = 0
    /\ pc = "wait" /\ waited = 0 /\ stage = 0 /\ enforced = Repeats
    /\ last = [c \in Controls |-> -1]
    /\ pitch = [d \in Decks |-> [pos |-> 0, have_hi |-> FALSE,
                                 have_lo |-> FALSE, ready |-> FALSE]]
    /\ heard = {} /\ turned = 0

-----------------------------------------------------------------------------
(* Conversions.  A definition named Bad... is the definition after it with *)
(* a bug the code could have.                                              *)

\* cc_to_10bit.
Cc10(v) == v * 8 + v \div 16

\* handle_knob_pos: the CC value is a signed 7-bit number; rot_clamped.
Signed(v) == IF v >= 64 THEN v - 128 ELSE v
BadClamp(n) == IF n > 15 THEN 15 ELSE IF n < -15 THEN -15 ELSE n
Clamp(n) == IF n > 16 THEN 16 ELSE IF n < -16 THEN -16 ELSE n

\* handle_pitch.
Norm(pos) == IF Reversed THEN pos - 8192 ELSE 8192 - pos
V10(n) == ((n + 8192) * 1023) \div 16384
Tempo(pos) == [norm |-> Norm(pos), v10 |-> V10(Norm(pos))]

-----------------------------------------------------------------------------
(* The surface and the sequencer.                                          *)

Subscribed == stage = 6

\* The surface reports v on control c; name is who reports, ok whether the
\* report was whole so far.
Emit(c, v, name, ok) ==
    LET room == Subscribed /\ Len(queue) < QueueLen
    IN /\ queue' = IF room THEN Append(queue, <<c, v>>) ELSE queue
       /\ heard' = IF room /\ ok THEN heard \cup {name} ELSE heard \ {name}

TurnKnob(c, v) ==
    /\ reports < MaxReports /\ reports' = reports + 1
    /\ knob[c] # v /\ knob' = [knob EXCEPT ![c] = v]
    /\ Emit(c, v, c, TRUE)
    /\ UNCHANGED <<fader, due, turned, engine, setup, last, pitch>>

\* A fader reports its high half and then its low half.
MoveFader(d, p) ==
    /\ reports < MaxReports /\ reports' = reports + 1
    /\ ~due[d] /\ due' = [due EXCEPT ![d] = TRUE]
    /\ fader[d] # p /\ fader' = [fader EXCEPT ![d] = p]
    /\ Emit(<<Channel(d), HI>>, p \div 128, <<Channel(d), LO>>, TRUE)
    /\ UNCHANGED <<knob, turned, engine, setup, last, pitch>>
LowHalf(d) ==
    /\ due[d] /\ due' = [due EXCEPT ![d] = FALSE]
    /\ LET low == <<Channel(d), LO>>
       IN Emit(low, fader[d] % 128, low, low \in heard)
    /\ UNCHANGED <<knob, fader, reports, turned, engine, setup, last, pitch>>

\* Steps of the selector a turn of n is worth: one report counts for no more
\* than 16 of them.
Worth(n) ==
    LET t == n * Scale
    IN  IF t \in -16..16 THEN t ELSE IF n > 0 THEN 16 ELSE -16

TurnBrowse(n) ==
    /\ reports < MaxReports /\ reports' = reports + 1
    /\ Emit(Browse, n % 128, Browse, TRUE)
    /\ turned' = IF Browse \in heard' THEN turned + Worth(n) ELSE turned
    /\ UNCHANGED <<knob, fader, due, engine, setup, last, pitch>>

-----------------------------------------------------------------------------
(* rbp.  A KeyManager that comes when midi_thread has given up changes     *)
(* nothing; rbp's initialisation is over when bfx_init_thread ends.        *)

KeyManager ==
    /\ ~km /\ pc # "gone" /\ km' = TRUE
    /\ UNCHANGED <<surface, engine, bfx, pc, waited, stage, enforced, last, pitch>>

ResetBfx ==
    /\ km /\ enforced < Repeats /\ bfx' = "default"
    /\ UNCHANGED <<surface, engine, km, pc, waited, stage, enforced, last, pitch>>

-----------------------------------------------------------------------------
(* midi_thread and bfx_init_thread until the event loop.                   *)

\* The KeyManager is looked for before each of the waits and after the last.
BadWait ==
    /\ pc = "wait"
    /\ \/ waited < Rounds /\ km /\ pc' = "prepare" /\ UNCHANGED waited
       \/ waited < Rounds /\ ~km /\ waited' = waited + 1 /\ UNCHANGED pc
       \/ waited = Rounds /\ pc' = "gone" /\ UNCHANGED waited
    /\ UNCHANGED <<surface, engine, km, bfx, stage, enforced, last, pitch>>
Wait ==
    /\ pc = "wait"
    /\ \/ km /\ pc' = "prepare" /\ UNCHANGED waited
       \/ ~km /\ waited < Rounds /\ waited' = waited + 1 /\ UNCHANGED pc
       \/ ~km /\ waited = Rounds /\ pc' = "gone" /\ UNCHANGED waited
    /\ UNCHANGED <<surface, engine, km, bfx, stage, enforced, last, pitch>>

\* Filter at its centre, Beat FX channel MASTER, and the thread that insists.
Prepare ==
    /\ pc = "prepare" /\ pc' = "setup"
    /\ value' = [k \in Keys |-> IF k[1] = "COLOR" THEN 512 ELSE value[k]]
    /\ bfx' = "master" /\ enforced' = 0
    /\ UNCHANGED <<surface, tempo, cursor, km, waited, stage, last, pitch>>

Enforce ==
    /\ enforced < Repeats /\ enforced' = enforced + 1 /\ bfx' = "master"
    /\ UNCHANGED <<surface, engine, km, pc, waited, stage, last, pitch>>

\* seq_setup: open, version, client, its name, a port and the subscription;
\* a step that fails closes the sequencer and the thread gives up.
SeqSetup ==
    /\ pc = "setup"
    /\ \/ stage' = stage + 1 /\ pc' = IF stage' = 6 THEN "loop" ELSE "setup"
       \/ stage' = 0 /\ pc' = "failed"
    /\ UNCHANGED <<surface, engine, km, bfx, waited, enforced, last, pitch>>

-----------------------------------------------------------------------------
(* handle_event.                                                           *)

HandleKnobPos(v) ==
    /\ cursor' = cursor + Clamp(Signed(v) * Scale)
    /\ UNCHANGED <<value, tempo, last, pitch>>

\* A change of the converted value goes to the engine.
BadEntries(c) == {e \in AbsMap : e[2] = c[2]}
Entries(c) == {e \in AbsMap : Control(e) = c}
HandleCcAbs(c, v) ==
    LET news == {Key(e) : e \in {e \in Entries(c) : last[Control(e)] # Cc10(v)}}
    IN /\ value' = [k \in Keys |-> IF k \in news THEN Cc10(v) ELSE value[k]]
       /\ last' = [b \in Controls |->
                     IF b \in {Control(e) : e \in Entries(c)} THEN Cc10(v) ELSE last[b]]
       /\ UNCHANGED <<tempo, cursor, pitch>>

\* The halves are kept; once both were seen each low half is a position.
BadStore(s, hi, v) ==
    LET t == [s EXCEPT !.pos = IF hi THEN v * 128 + @ ELSE @ + v,
                       !.have_hi = @ \/ hi, !.have_lo = @ \/ ~hi]
    IN [t EXCEPT !.ready = @ \/ (t.have_hi /\ t.have_lo)]
Store(s, hi, v) ==
    LET t == [s EXCEPT !.pos = IF hi THEN v * 128 + (@ % 128)
                                      ELSE (@ - (@ % 128)) + v,
                       !.have_hi = @ \/ hi, !.have_lo = @ \/ ~hi]
    IN [t EXCEPT !.ready = @ \/ (t.have_hi /\ t.have_lo)]
BadHandlePitch(d, hi, v) ==
    LET s == Store(pitch[d], hi, v)
        pair == s.have_hi /\ s.have_lo
    IN /\ pitch' = [pitch EXCEPT ![d] =
              [s EXCEPT !.have_hi = @ /\ ~pair, !.have_lo = @ /\ ~pair]]
       /\ tempo' = IF pair THEN [tempo EXCEPT ![d] = Tempo(s.pos)] ELSE tempo
       /\ UNCHANGED <<value, cursor, last>>
HandlePitch(d, hi, v) ==
    LET s == Store(pitch[d], hi, v)
    IN /\ pitch' = [pitch EXCEPT ![d] = s]
       /\ tempo' = IF s.ready /\ ~hi THEN [tempo EXCEPT ![d] = Tempo(s.pos)]
                                     ELSE tempo
       /\ UNCHANGED <<value, cursor, last>>

HandleEvent(c, v) ==
    \/ c = Browse /\ HandleKnobPos(v)
    \/ \E d \in Decks, hi \in BOOLEAN :
          c = <<Channel(d), IF hi THEN HI ELSE LO>> /\ HandlePitch(d, hi, v)
    \/ c \in Controls /\ HandleCcAbs(c, v)

ReadEvent ==
    /\ pc = "loop" /\ queue # <<>> /\ queue' = Tail(queue)
    /\ HandleEvent(Head(queue)[1], Head(queue)[2])
    /\ UNCHANGED <<knob, fader, due, reports, heard, turned, setup>>

MidiThread == Wait \/ Prepare \/ SeqSetup \/ ReadEvent

Next ==
    \/ \E c \in Moved, v \in Values : TurnKnob(c, v)
    \/ \E d \in Slid : (\E p \in Positions : MoveFader(d, p)) \/ LowHalf(d)
    \/ \E n \in Turns : TurnBrowse(n)
    \/ KeyManager \/ ResetBfx
    \/ MidiThread \/ Enforce

Spec == Init /\ [][Next]_vars
FairSpec == Spec /\ WF_vars(MidiThread) /\ WF_vars(Enforce)

-----------------------------------------------------------------------------
(* Properties.                                                             *)

\* Ten-bit values, -1 before the first, and 14-bit positions; what an event
\* names, and what pitch_state and a tempo hold.
Tens     == -1..1023
Places   == 0..16383
Names    == Controls \cup {Browse} \cup ((2..3) \X {HI, LO})
Events   == Names \X (0..127)
States   == [pos : Places, have_hi : BOOLEAN, have_lo : BOOLEAN, ready : BOOLEAN]
Settings == [norm : -8192..8192, v10 : Tens \ {-1}]

TypeOK ==
    /\ knob \in [Moved -> Values] /\ fader \in [Slid -> Positions]
    /\ due \in [Slid -> BOOLEAN] /\ reports \in 0..MaxReports
    /\ queue \in Seq(Events)
    /\ km \in BOOLEAN /\ bfx \in {"default", "master"}
    /\ value \in [Keys -> Tens] /\ last \in [Controls -> Tens]
    /\ tempo \in [Decks -> {Unset} \cup Settings]
    /\ pc \in {"wait", "prepare", "setup", "loop", "gone", "failed"} /\ waited \in 0..Rounds
    /\ stage \in 0..6 /\ (pc = "loop" <=> stage = 6)
    /\ enforced \in 0..Repeats
    /\ pitch \in [Decks -> States]

Queued(c) == \E i \in DOMAIN queue : queue[i][1] = c

\* A knob is where the engine has it, whatever reports were lost before: once
\* the latest report of a control arrived and was handled, its key has the
\* control's value, and no other control has touched it.
KnobFollows ==
    \A e \in AbsMap : Control(e) \in Moved \cap heard /\ ~Queued(Control(e))
        => value[Key(e)] = Cc10(knob[Control(e)])

\* The tempo heals: a report of a fader that arrived whole sets the tempo to
\* the fader's position, whichever halves of earlier reports were lost.
TempoHeals ==
    \A d \in Slid :
        <<Channel(d), LO>> \in heard /\ ~due[d] /\ ~Queued(<<Channel(d), LO>>)
            => tempo[d] = Tempo(fader[d])

\* The browse cursor moves by what the turns that were reported are worth, in
\* both directions and at any speed: none is lost or doubled, and a turn that
\* is too fast for one report to count in full counts for the 16 it may.
BrowseFollows == ~Queued(Browse) => cursor = turned

\* Controls come up: when the KeyManager is there before midi_thread gives up,
\* be it during the last of the waits, and the sequencer can be set up, the
\* surface is read for good and the Beat FX channel is MASTER, however often
\* rbp's initialisation resets it.
ControlsComeUp ==
    <>km /\ [](pc # "failed")
        => <>[](pc = "loop" /\ bfx = "master")
=============================================================================
