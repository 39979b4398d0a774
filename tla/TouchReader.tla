---------------------------- MODULE TouchReader ----------------------------
(***************************************************************************)
(* The touch screen of scripts/shims/fbshim-tsc.c: reader_thread reads     *)
(* evdev packets, follows the contact in cur_flag and pushes frames into a *)
(* pipe, from which rbp reads them as from a tsc2007.                      *)
(*                                                                         *)
(* One axis stands for both.  A packet is what evdev reports up to a       *)
(* SYN_REPORT, here the change of one finger.  The kernel leaves out what  *)
(* did not change: the multi-touch position against the last one of the    *)
(* same slot, the single-touch one (which follows one of the contacts)     *)
(* against its own last value.  The reader keeps both in one variable.     *)
(* The debouncing of rbp (TouchAdValueHysteresis, docs/04-touchscreen.md)  *)
(* is modelled as the comments of the shim describe it.                    *)
(***************************************************************************)
EXTENDS Integers, Sequences, FiniteSets

CONSTANTS
    Fingers,    \* slots of the touch controller
    Raw,        \* raw positions of the axis (2048)
    Size,       \* screen positions of the axis (1280 or 800)
    MaxTouches, \* bound: changes of the contacts
    MaxLosses,  \* bound: losses of the event device
    EvLen,      \* packets evdev holds for the reader
    PipeLen     \* frames the pipe holds

ASSUME TouchAssumption ==
    /\ Raw \in Nat \ {0} /\ Size \in 1..Raw
    /\ MaxTouches \in Nat /\ MaxLosses \in Nat
    /\ EvLen \in Nat \ {0} /\ PipeLen \in Nat \ {0, 1}

Up == Raw    \* a slot without a contact

VARIABLES
    \* The controller and the kernel.
    contact,     \* position of each finger, or Up
    slot,        \* ABS_MT_POSITION of each slot; it outlives the contact
    lead,        \* {the contact the single-touch axis follows}, or {}
    kpos,        \* ABS_X
    evdev,       \* packets for the reader
    touches, losses,
    \* reader_thread.
    pc,          \* "read", "push" a frame, "again" the same one, "reopen"
    rx, cur_flag, last_flag, last_x,
    \* The pipe, and rbp behind it.
    pipe,
    hyst, rbp_x, \* the state of the hysteresis and the position rbp has
    \* History: rbp's touch-downs; packets were lost and no packet since told
    \* BTN_TOUCH; two fingers were down since all were up; the reader may have
    \* an old position or that of another finger.
    downs, blind, multi, astray

kernel == <<contact, slot, lead, kpos, touches, losses>>
reader == <<pc, rx, cur_flag, last_flag, last_x>>
player == <<hyst, rbp_x, downs>>
vars   == <<kernel, evdev, reader, pipe, player, blind, multi, astray>>

\* The device may have been in use before it is opened.
Init ==
    /\ contact = [f \in Fingers |-> Up] /\ lead = {} /\ evdev = <<>>
    /\ slot \in [Fingers -> 0..Raw-1] /\ kpos \in 0..Raw-1
    /\ touches = 0 /\ losses = 0
    /\ pc = "read" /\ rx = 0 /\ cur_flag = 0 /\ last_x = 0
    /\ last_flag = -1    \* no frame yet
    /\ pipe = <<>> /\ hyst = 0 /\ rbp_x = 0 /\ downs = 0
    /\ blind = FALSE /\ multi = FALSE /\ astray = TRUE

Down(c) == {f \in Fingers : c[f] # Up}

-----------------------------------------------------------------------------
(* The controller and the kernel.                                          *)

\* The contact the single-touch axis follows does not change while it lasts.
Leads(c) ==
    IF lead # {} /\ lead \subseteq Down(c) THEN {lead}
    ELSE IF Down(c) = {} THEN {{}} ELSE {{g} : g \in Down(c)}

\* What is left of a packet without its first n events.  The events are the
\* tracking id, ABS_MT_POSITION, BTN_TOUCH and ABS_X.
Part(n, track, mt, key, abs, alone) ==
    [track |-> IF n > 0 THEN "same" ELSE track,
     key   |-> IF n > 2 THEN "same" ELSE key,
     pos   |-> IF n < 4 /\ abs # {} THEN abs ELSE IF n < 2 THEN mt ELSE {},
     alone |-> alone]

\* A finger comes down at p, moves to p or, when p is Up, is lifted.  The
\* packet tells the tracking id of the slot when the contact begins or ends,
\* BTN_TOUCH when the first one begins or the last one ends, and the positions
\* that changed.  When evdev has no room, it forgets all it holds and the
\* events of the packet it had no room for; only SYN_DROPPED tells, which the
\* reader ignores.
Touch(f, p) ==
    LET c     == [contact EXCEPT ![f] = p]
        track == IF p = Up THEN "up"
                 ELSE IF contact[f] = Up THEN "down" ELSE "same"
        key   == IF Down(contact) = {} THEN "down"
                 ELSE IF Down(c) = {} THEN "up" ELSE "same"
        packet(n) == Part(n, track, {p} \ {slot[f], Up}, key,
                          {kpos'} \ {kpos}, ~multi')
    IN  /\ p # contact[f] /\ touches < MaxTouches /\ touches' = touches + 1
        /\ contact' = c
        /\ slot' = IF p = Up THEN slot ELSE [slot EXCEPT ![f] = p]
        /\ lead' \in Leads(c)
        /\ kpos' \in IF lead' = {} THEN {kpos} ELSE {c[g] : g \in lead'}
        /\ multi' = ((multi \/ Cardinality(Down(c)) > 1) /\ Down(c) # {})
        /\ \/ /\ pc = "reopen"    \* nobody has the device open
              /\ UNCHANGED <<evdev, blind, astray>>
           \/ /\ pc # "reopen" /\ Len(evdev) < EvLen
              /\ evdev' = Append(evdev, packet(0))
              /\ UNCHANGED <<blind, astray>>
           \/ /\ pc # "reopen" /\ Len(evdev) = EvLen
              /\ \E n \in 0..4 : evdev' = <<packet(n)>>
              /\ blind' = TRUE /\ astray' = TRUE
    /\ UNCHANGED <<losses, reader, pipe, player>>

\* The device goes away, with its contacts and what nobody has read.
Lose ==
    /\ pc = "read" /\ losses < MaxLosses /\ losses' = losses + 1
    /\ contact' = [f \in Fingers |-> Up] /\ slot' = [f \in Fingers |-> 0]
    /\ lead' = {} /\ kpos' = 0 /\ evdev' = <<>>
    /\ pc' = "reopen" /\ blind' = TRUE /\ multi' = FALSE /\ astray' = TRUE
    /\ UNCHANGED <<touches, rx, cur_flag, last_flag, last_x, pipe, player>>

-----------------------------------------------------------------------------
(* reader_thread.  A definition named Bad... is the definition after it    *)
(* with a bug the code could have.                                         *)

\* transform: a raw position on the screen.
BadCell(p) == p
Cell(p) == (p * Size) \div Raw

\* cur_flag after a packet: every tracking id and BTN_TOUCH sets it, in the
\* order the kernel reports them.
Tracked(m) == IF m.track = "down" THEN 1 ELSE IF m.track = "up" THEN 0 ELSE cur_flag
BadFlag(m) == Tracked(m)
Flag(m) == IF m.key = "down" THEN 1 ELSE IF m.key = "up" THEN 0 ELSE Tracked(m)

\* Is there anything to push?
BadChanged(flag, x) == x # last_x
Changed(flag, x) == flag # last_flag \/ x # last_x

\* The events up to the SYN_REPORT.
Report ==
    /\ pc = "read" /\ evdev # <<>> /\ evdev' = Tail(evdev)
    /\ LET m == Head(evdev)
       IN  /\ rx' = IF m.pos = {} THEN rx ELSE CHOOSE q \in m.pos : TRUE
           /\ cur_flag' = Flag(m)
           /\ pc' = IF Changed(cur_flag', Cell(rx')) THEN "push" ELSE "read"
           /\ blind' = (blind /\ m.key = "same")
           /\ astray' = (~m.alone \/ (astray /\ m.pos = {}))
    /\ UNCHANGED <<kernel, last_flag, last_x, pipe, player, multi>>

\* The touch-down that is pushed twice: a C condition, so -1 is not "up".
BadTouchDown(flag) == FALSE
TouchDown(flag) == flag = 1 /\ last_flag = 0

\* The (first) frame; the pipe blocks while it is full.
Push ==
    /\ pc = "push" /\ Len(pipe) < PipeLen
    /\ pipe' = Append(pipe, [flag |-> cur_flag, x |-> Cell(rx)])
    /\ pc' = IF TouchDown(cur_flag) THEN "again" ELSE "read"
    /\ last_flag' = cur_flag /\ last_x' = Cell(rx)
    /\ UNCHANGED <<kernel, evdev, rx, cur_flag, player, blind, multi, astray>>

\* The second frame of a touch-down.
PushAgain ==
    /\ pc = "again" /\ pc' = "read" /\ Len(pipe) < PipeLen
    /\ pipe' = Append(pipe, [flag |-> 1, x |-> last_x])
    /\ UNCHANGED <<kernel, evdev, rx, cur_flag, last_flag, last_x, player,
                   blind, multi, astray>>

\* The read failed; the device is opened again.
Reopen ==
    /\ pc = "reopen" /\ pc' = "read"
    /\ UNCHANGED <<kernel, evdev, rx, cur_flag, last_flag, last_x, pipe, player,
                   blind, multi, astray>>

Reader == Report \/ Push \/ PushAgain \/ Reopen

-----------------------------------------------------------------------------
(* rbp: the first frame of a contact is zeroed, the next one counts.       *)
ReadFrame ==
    /\ pipe # <<>> /\ pipe' = Tail(pipe)
    /\ LET fr == Head(pipe)
       IN  /\ hyst' = IF fr.flag = 0 THEN 0 ELSE IF hyst = 0 THEN 1 ELSE 2
           /\ rbp_x' = fr.x
           /\ downs' = IF fr.flag = 1 /\ hyst = 0 THEN downs + 1 ELSE downs
    /\ UNCHANGED <<kernel, evdev, reader, blind, multi, astray>>

Next ==
    \/ \E f \in Fingers, p \in 0..Raw : Touch(f, p)
    \/ Lose
    \/ Reader
    \/ ReadFrame

Spec == Init /\ [][Next]_vars
FairSpec == Spec /\ WF_vars(Reader) /\ WF_vars(ReadFrame)

-----------------------------------------------------------------------------
(* Properties.                                                             *)

TypeOK ==
    /\ contact \in [Fingers -> 0..Up] /\ slot \in [Fingers -> 0..Raw-1]
    /\ lead \subseteq Down(contact) /\ kpos \in 0..Raw-1
    /\ Len(evdev) <= EvLen /\ touches \in 0..MaxTouches
    /\ losses \in 0..MaxLosses
    /\ pc \in {"read", "push", "again", "reopen"} /\ rx \in 0..Raw-1
    /\ cur_flag \in {0, 1} /\ last_flag \in {-1, 0, 1}
    /\ last_x \in 0..Size-1
    /\ pipe \in Seq([flag : {0, 1}, x : 0..Size-1]) /\ Len(pipe) <= PipeLen
    /\ hyst \in 0..2 /\ rbp_x \in 0..Size-1 /\ downs \in 0..MaxTouches
    /\ {blind, multi, astray} \subseteq BOOLEAN

Settled == evdev = <<>> /\ pc = "read" /\ pipe = <<>>

\* When everything is read, rbp has the contact exactly while a finger is
\* down: through the first frame rbp discards, suppressed events and earlier
\* gestures, and again after packets were lost as soon as one tells BTN_TOUCH.
\* It has the finger at its position, too, through suppressed and repeated
\* positions, once a packet of a lone finger told one since the device was
\* opened, packets were lost or two fingers were down.
ContactIsFollowed ==
    Settled /\ ~blind /\ ~multi =>
        /\ (hyst # 0) <=> (Down(contact) # {})
        /\ \A f \in Down(contact) : astray \/ rbp_x = Cell(contact[f])

\* Only the first touch-down since the shim was loaded can be discarded by
\* the debouncing: every later tap is pushed twice.
LaterTapsSurvive == [][hyst = 1 /\ hyst' = 0 => downs = 1]_vars

\* A finger that is lifted for good is lifted for rbp, whatever the pipe held.
LiftIsSeen ==
    <>[](Down(contact) = {} /\ ~blind) => <>[](hyst = 0)
=============================================================================
