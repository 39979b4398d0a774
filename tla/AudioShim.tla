------------------------------ MODULE AudioShim ------------------------------
(***************************************************************************)
(* The playback side of scripts/shims/audioshim.c.  rbp opens several      *)
(* outputs; the shim gives the first the real device and the others        *)
(* virtual handles by the order of the opens, changes what rbp asks of the *)
(* real device, and writes the master and the headphone stream to the four *)
(* channels of the hardware from one static buffer, without a lock.        *)
(*                                                                         *)
(* A period is one value, copied frame by frame; Silence is one below the  *)
(* threshold of s_peak_hp, of which only that is modelled: that it is over *)
(* the threshold.  Opens, closes and parameter calls are atomic; writes of *)
(* two outputs interleave between frames.                                  *)
(***************************************************************************)
EXTENDS Integers, FiniteSets

CONSTANTS
    Outputs,    \* rbp's playback streams
    Masters,    \* contents of a master period
    Cues,       \* contents of a headphone period
    Silence,    \* a quiet one
    Last,       \* frames of a period
    MaxOpens    \* bound: opens until the device is closed

ASSUME AudioAssumption ==
    Silence \in Cues /\ MaxOpens \in Nat /\ Last \in Nat \ {0}

VARIABLES
    handle,     \* the handle of each output; "closed" when it has none
    real,       \* g_real_playback is a device
    count,      \* g_playback_open_count
    params,     \* the configuration rbp narrows for the real device
    conf,       \* what the device is set to
    mix,        \* g_mix4ch: of each frame, channels 0-1 and channels 2-3
    at,         \* the frame an output's write has come to; 0 when it has none
    buf,        \* the period that write was given
    peak,       \* s_peak_hp > 100, while that can set s_has_hp_audio
    has_hp,     \* s_has_hp_audio
    saw,        \* its value when an output's write began
    busy,       \* another process has the card
    cue,        \* history: the latest period the headphone stream has written
    cleared,    \* history, until heard is "loud": the master cleared the peak
                \* during the write of the headphone stream under way
    heard,      \* history: "loud" once an audible period was written with the
                \* peak not cleared meanwhile, "next" once another began with no
                \* older master write under way, "yes" once that was written
    played      \* history: changes with every period the hardware takes

device == <<handle, real, count>>
setup == <<params, conf>>
stream == <<mix, at, buf, peak, has_hp, saw, cue, cleared, heard, played>>
vars == <<device, setup, stream, busy>>

Frames == 1..Last
Settings == {"format", "channels", "rate"}

\* What a setting is: not chosen yet, rbp's choice, or the shim's (S24_LE,
\* four channels, 44100 Hz).
Choices == {"open", "rbp", "shim"}
Unset == [s \in Settings |-> "open"]
FourChannels == [s \in Settings |-> "shim"]

Init ==
    /\ handle = [o \in Outputs |-> "closed"] /\ real = FALSE /\ count = 0
    /\ params = Unset /\ conf = Unset
    /\ mix = [f \in Frames |-> [m |-> Silence, h |-> Silence]]
    /\ at = [o \in Outputs |-> 0] /\ buf = [o \in Outputs |-> Silence]
    /\ peak = FALSE /\ has_hp = FALSE /\ cleared = FALSE
    /\ saw = [o \in Outputs |-> FALSE]
    /\ busy \in BOOLEAN /\ cue = Silence /\ heard = "no" /\ played = FALSE

-----------------------------------------------------------------------------
(* The device.                                                             *)

\* engine.service takes or releases the card.
Card ==
    /\ ~real /\ busy' = ~busy
    /\ UNCHANGED <<device, setup, stream>>

(* A definition named Bad... is the definition after it with a bug the     *)
(* code could have.                                                        *)

\* snd_pcm_open for playback.  The first output tries the hardware, and
\* counts and succeeds also when neither hw:1,0 nor the default opens.
Open(o) ==
    /\ handle[o] = "closed" /\ count < MaxOpens
    /\ count' = count + 1
    /\ IF count = 0
       THEN /\ real' = (real \/ ~busy)
            /\ handle' = [handle EXCEPT ![o] = IF real' THEN "real" ELSE "null"]
       ELSE /\ handle' = [handle EXCEPT ![o] =
                   IF count = 1 THEN "hp" ELSE IF count = 2 THEN "booth" ELSE "dummy"]
            /\ UNCHANGED real
    /\ UNCHANGED <<setup, stream, busy>>

\* snd_pcm_close: only the real device starts the count again.  rbp does not
\* close an output it is writing to.
BadClose(o) ==
    /\ handle[o] # "closed" /\ at[o] = 0
    /\ handle' = [handle EXCEPT ![o] = "closed"]
    /\ real' = (real /\ handle[o] # "real") /\ count' = 0
    /\ params' = Unset /\ conf' = Unset
    /\ UNCHANGED <<stream, busy>>
BadCloseCount(o) ==
    /\ handle[o] # "closed" /\ at[o] = 0
    /\ handle' = [handle EXCEPT ![o] = "closed"]
    /\ real' = (real /\ handle[o] # "real")
    /\ count' = IF handle[o] = "real" THEN 0 ELSE count - 1
    /\ params' = Unset /\ conf' = Unset
    /\ UNCHANGED <<stream, busy>>
Close(o) ==
    /\ handle[o] # "closed" /\ at[o] = 0
    /\ handle' = [handle EXCEPT ![o] = "closed"]
    /\ IF handle[o] = "real"
       THEN real' = FALSE /\ count' = 0 /\ params' = Unset /\ conf' = Unset
       ELSE UNCHANGED <<real, count, setup>>
    /\ UNCHANGED <<stream, busy>>

\* What snd_pcm_hw_params_set_format, _set_channels and _set_rate_near ask of
\* the device, whatever rbp asked for.
BadAsked(s) == IF s = "channels" THEN "rbp" ELSE "shim"
Asked(s) == "shim"

\* One of them on the real handle.  The device may refuse; rbp is told, and
\* does not install a configuration it could not choose.  On any other handle
\* the calls succeed and do nothing.
Choose(o, s) ==
    /\ handle[o] = "real" /\ conf = Unset
    /\ params' = [params EXCEPT ![s] = Asked(s)]
    /\ UNCHANGED <<device, conf, stream, busy>>

\* snd_pcm_hw_params_any: all settings are open again.
Restart(o) ==
    /\ handle[o] = "real" /\ conf = Unset
    /\ params' = Unset
    /\ UNCHANGED <<device, conf, stream, busy>>

\* snd_pcm_hw_params installs what rbp has chosen.
Install(o) ==
    /\ handle[o] = "real" /\ conf = Unset
    /\ \A s \in Settings : params[s] # "open"
    /\ conf' = params /\ params' = Unset
    /\ UNCHANGED <<device, stream, busy>>

-----------------------------------------------------------------------------
(* Writes.                                                                 *)

\* The headphone stream has a write under way.
Writing(o) == handle[o] = "hp" /\ at[o] # 0

\* Writes under way that began before has_hp was set.
Older == {o \in Outputs : at[o] # 0 /\ ~saw[o]}

\* An output enters snd_pcm_writei; booth and dummy return at once.  rbp has
\* one write to the headphones at a time.
Write(o, p) ==
    /\ at[o] = 0
    /\ \/ handle[o] \in {"real", "null"} /\ p \in Masters
       \/ /\ handle[o] = "hp" /\ p \in Cues
          /\ \A q \in Outputs : ~Writing(q)
    /\ at' = [at EXCEPT ![o] = 1] /\ buf' = [buf EXCEPT ![o] = p]
    /\ saw' = [saw EXCEPT ![o] = has_hp]
    /\ heard' = IF heard = "loud" /\ handle[o] = "hp" /\ Older = {}
                THEN "next" ELSE heard
    /\ UNCHANGED <<device, setup, mix, peak, has_hp, busy, cue, cleared, played>>

\* The headphone half of a frame the master writes.
BadMirror(f, p, seen) == p
Mirror(f, p, seen) == IF seen THEN mix[f].h ELSE p

\* One frame of the copy loops.  Nothing orders the master's read of the flag
\* with the headphone write that sets it: the compiler may read it once, when
\* the write begins, or for each frame.
Copy(o) ==
    /\ at[o] \in Frames
    /\ \E seen \in {has_hp, saw[o]} :
          mix' = [mix EXCEPT ![at[o]] =
              IF handle[o] = "hp" THEN [m |-> @.m, h |-> buf[o]]
              ELSE [m |-> buf[o], h |-> Mirror(at[o], buf[o], seen)]]
    /\ at' = [at EXCEPT ![o] = @ + 1]
    /\ peak' = (peak \/ (handle[o] = "hp" /\ buf[o] # Silence /\ ~has_hp))
    /\ UNCHANGED <<device, setup, buf, has_hp, saw, busy, cue, cleared, heard, played>>

\* A write has returned.
Return(o) ==
    /\ at' = [at EXCEPT ![o] = 0] /\ buf' = [buf EXCEPT ![o] = Silence]
    /\ saw' = [saw EXCEPT ![o] = FALSE]

\* After the loop over a headphone period.
Cued(o) ==
    /\ handle[o] = "hp" /\ at[o] = Last + 1
    /\ has_hp' = (has_hp \/ peak) /\ peak' = FALSE
    /\ cue' = buf[o]
    /\ heard' = IF heard = "next" THEN "yes"
                ELSE IF heard = "no" /\ buf[o] # Silence /\ ~cleared THEN "loud" ELSE heard
    /\ cleared' = FALSE /\ Return(o)
    /\ UNCHANGED <<device, setup, mix, busy, played>>

\* After the loop over a master period: the whole buffer goes to the
\* hardware, which takes it only when it is set up, with one more try after
\* an error; without hardware, or when the second try fails too, nothing is
\* played and nobody is told.  Every 500th write clears the peaks, also that
\* of the headphones, between its loop and its test or in the loop.
Play(o) ==
    /\ handle[o] \in {"real", "null"} /\ at[o] = Last + 1
    /\ Return(o)
    /\ \/ real /\ conf # Unset /\ played' = ~played
       \/ UNCHANGED played
    /\ \/ peak' = FALSE /\ cleared' = (heard = "no" /\ \E q \in Outputs : Writing(q))
       \/ UNCHANGED <<peak, cleared>>
    /\ UNCHANGED <<device, setup, mix, has_hp, busy, cue, heard>>

Next ==
    \/ Card
    \/ \E o \in Outputs : Open(o) \/ Close(o)
    \/ \E o \in Outputs, s \in Settings : Choose(o, s)
    \/ \E o \in Outputs : Restart(o) \/ Install(o)
    \/ \E o \in Outputs, p \in Masters \cup Cues : Write(o, p)
    \/ \E o \in Outputs : Copy(o) \/ Cued(o) \/ Play(o)

Spec == Init /\ [][Next]_vars

-----------------------------------------------------------------------------
(* Properties.                                                             *)

TypeOK ==
    /\ handle \in [Outputs -> {"closed", "real", "null", "hp", "booth", "dummy"}]
    /\ real \in BOOLEAN /\ has_hp \in BOOLEAN /\ busy \in BOOLEAN
    /\ played \in BOOLEAN /\ peak \in BOOLEAN /\ cleared \in BOOLEAN
    /\ saw \in [Outputs -> BOOLEAN] /\ heard \in {"no", "loud", "next", "yes"}
    /\ count \in 0..MaxOpens /\ cue \in Cues
    /\ params \in [Settings -> Choices] /\ conf \in [Settings -> Choices]
    /\ mix \in [Frames -> [m : Masters \cup {Silence}, h : Masters \cup Cues]]
    /\ at \in [Outputs -> 0..Last + 1] /\ buf \in [Outputs -> Masters \cup Cues]

Holders(h) == {o \in Outputs : handle[o] = h}

\* The hardware has exactly one owner while it is open, in every order of
\* opens and closes, and meanwhile no output has the null handle, whose
\* writes would reach the hardware too.
OneOwner ==
    /\ Cardinality(Holders("real")) = (IF real THEN 1 ELSE 0)
    /\ real => Holders("null") = {}

\* An audible headphone period is what the buffer's headphone channels hold,
\* up to the frame a write of the next one has come to, however its loop
\* interleaves with the master's and whatever was closed and opened.  It
\* takes an audible period to tell the master's loop, one during which the
\* master did not clear the peak, and the master writes then under way are to
\* return first.  Nothing is said of a silent period: the headphones then get
\* silence, where a comment and docs/07-audio.md promise the master.
CueIsHeard ==
    heard = "yes" /\ cue # Silence => \A f \in Frames :
        mix[f].h \in {cue} \cup {buf[o] : o \in {q \in Outputs :
                                      handle[q] = "hp" /\ at[q] > f}}

\* The hardware plays only in the layout the buffer has, S24_LE with four
\* channels at 44100 Hz, and every frame it takes carries the period of the
\* master that wrote it, however the device was set up, refused, closed and
\* opened before.
FramesAreWhole ==
    [][\A o \in Outputs :
          at[o] = Last + 1 /\ played' # played /\ at'[o] = 0
          => conf = FourChannels /\ \A f \in Frames : mix[f].m = buf[o]]_vars
=============================================================================
