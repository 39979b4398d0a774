----------------------------- MODULE Framebuffer -----------------------------
(***************************************************************************)
(* FBIOPAN_DISPLAY of scripts/shims/fbshim-tsc.c: the pacing of the flips  *)
(* of gui_task.  Time is in nanoseconds of CLOCK_MONOTONIC.  FbshimProofs  *)
(* proves what is stated here; the real constants are too large for a run. *)
(***************************************************************************)
EXTENDS Integers

Second == 1000000000
Frame == 16666666         \* of 60 frames a second
Wrap == 4294967296        \* values of a long on the device

VARIABLES
    now,        \* the clock
    last,       \* last_pan; 0 before the first flip
    pc,         \* gui_task: "out", or "asleep" in FBIOPAN_DISPLAY
    until       \* the end of its sleep

vars == <<now, last, pc, until>>

-----------------------------------------------------------------------------
(* Flips.                                                                  *)

Init == now \in Nat /\ last = 0 /\ pc = "out" /\ until = 0

Tick == now' \in {t \in Nat : t > now} /\ UNCHANGED <<last, pc, until>>

\* The difference of two times in a long: seconds and nanoseconds are taken
\* together modulo 2^32.
Signed(n) == LET d == n % Wrap IN IF 2 * d < Wrap THEN d ELSE d - Wrap
Elapsed == Signed(now - last)

\* What is left of the frame; last is not a time before the first flip (and
\* in the first second after the boot).
Rest ==
    IF last >= Second /\ 0 < Elapsed /\ Elapsed < Frame THEN Frame - Elapsed ELSE 0

\* FBIOPAN_DISPLAY up to its nanosleep.  The clock has moved since the flip
\* before.
Pan ==
    /\ pc = "out" /\ now > last
    /\ pc' = "asleep" /\ until' = now + Rest
    /\ UNCHANGED <<now, last>>

\* nanosleep is over (no signal ends it early) and the kernel flips.
Flip ==
    /\ pc = "asleep" /\ now >= until
    /\ pc' = "out" /\ last' = now
    /\ UNCHANGED <<now, until>>

Next == Tick \/ Pan \/ Flip

Spec == Init /\ [][Next]_vars

-----------------------------------------------------------------------------
(* Properties.                                                             *)

\* Two flips are at least a frame apart, also when they are so far apart that
\* the elapsed time has overflowed its long.
AFrameApart == [][last' # last /\ last >= Second => last' - last >= Frame]_vars

\* A flip is never held back longer than the rest of one frame, whatever the
\* overflowed difference looks like.
NeverLate == [][Pan => until' - now < Frame]_vars
=============================================================================
