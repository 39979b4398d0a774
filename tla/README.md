# PrimeBox in TLA+

PrimeBox runs the rekordbox player `rbp` of a Pioneer XDJ-RX3 on a Denon Prime
GO. The player is a closed binary; what this repository adds is a set of
preloaded shims that stand for the missing hardware, shell scripts that start
the player and serve its USB port, and Python tools that patch, verify and
install it. This directory holds TLA+ models of that code, TLC configurations
that check them on small instances, and TLAPS proofs of the results that do not
depend on the size of the instance.

## 1. Inventory

| Part | Source | State | Interacts with | What is hard | What makes it correct |
|---|---|---|---|---|---|
| Jog wheels | `scripts/shims/knobshim2.c` 384-431, 540-624 | `jog_state` per deck | sequencer FIFO, `jog_idle_thread`, the engine's jog key | two threads, no lock, unsigned time, lost events | samples are not mixed, the counter follows the wheel, a wheel at rest ends its bend |
| Buttons | same, 343-363, 437-504, 732-794 | `note_map[].pressed`, browse mode, stick | sequencer FIFO, rbp's UI | the meaning of a button changes between its edges | every press has its release |
| Knobs, faders, pitch | same, 326-341, 365-382, 506-538, 626-687 | `last` per knob, pitch halves | sequencer FIFO | lost events, stale cache | the engine has the position of the control |
| USB registration | same, 899-972 | rbp's own variables | rbp's USB and UI threads | unsynchronised writers | one port shown, nothing left after a detach |
| Audio shim | `scripts/shims/audioshim.c` | open count, real handle, 4-channel buffer, peak flags | ALSA, rbp's audio threads | failed opens, order of closes, shared buffer | the master owns the hardware and its layout, the headphones get the cue |
| Touch shim | `scripts/shims/fbshim-tsc.c` 106-358 | last frame, pipe, slot table | evdev, rbp's touch task | first frame, reopen, descriptor reuse | frames follow the finger, taps survive debouncing |
| Display shim | same, 360-446; `fbshim16.c` | time of the last flip | DirectFB | pacing | at most 60 flips a second |
| GPIO shims | `gpioshim.c`, `tscshim.c`, `legacy-scan.c` | descriptor table | rbp's GPIO task | dup and close | the table follows the descriptors |
| USB hotplug | `scripts/device/usb-watch.sh`, `start-rb.sh`, `restart-knob2.sh`, `fix-dev.sh` | `cur`, `last_rbp`, mounts, PID file | kernel, rbp's FIFO, launch scripts | kills between commands, restarts of rbp, failing mounts | mounted and bound before told, told before released, shown in the end |
| Launcher installation | `src/primebox/launcher/setup_launcher.py` | `launcher.conf`, udev rules | systemd, udev, ssh | failed reads, two events at once | an update is idempotent and loses no entry |
| Patcher | `src/primebox/patch/patch_rbp.py` | the binary in memory, counts | files | late rejection, repeated runs, kills | all or nothing, idempotent |
| Firmware preparation | `src/primebox/bundle/prepare_rx3.py`, `tools/get-firmware.sh` | staged files | external tools | a stage that fails | no stage runs on another's leftovers |
| Verification | `src/primebox/verify/*.py` | none | files | cycles, absolute links | nothing broken is accepted |
| Debug tools | `seqinject2.c`, `udplog.c`, `crashcatch.c`, `scripts/device/debug`, `tools/build-directfb` | none that others use | - | - | - |

`PROJECT.json` lists the same parts with the files of each, their status, and
under `hazards` the places where this code can go wrong in a way a test would
hardly reach, with the property that watches each or the reason why none does yet.

## 2. Modules

A definition whose name starts with `Bad` is the definition after it with a bug
the code could have. None of them occurs in a specification; each shows that a
property notices that bug.

### JogWheel

The surface sends the two halves of a wheel's position as two controller events
(`Turn`; `queue` is the ALSA sequencer FIFO), either of which the FIFO may drop
(`Lossy`). `HandleJog` is `handle_jog` up to
the point where the sample is complete: it stores a half, returns without the
other one, and otherwise takes the difference to the previous position the
shorter way round. What follows is not one step. `jog_idle_thread` reads
`last_ms`, `vpos` and `moving` without a lock, so each of the stores of
`handle_jog` to them is a `Store` of its own, in any order (they are plain
stores which the compiler and an ARM core may reorder), and `SendJog` is the call
into the engine. The idle thread is `IdleWake` (the clock is sampled once for
all decks), `IdleCheck`, `IdleClear` and `IdleSend` per deck. `Elapsed` is the
unsigned subtraction.

Abstractions: a position is split at `Half` instead of 128; the speed of a key
is its sign, as only zero, forward and backward are told apart; the clock
counts ticks. History: `missed` are the decks that had a part of a report dropped,
`slipped` those that had the high half of one dropped and not the low half. From
then on `handle_jog` pairs that low half with the high half of the next report, and
so on: its flags are cleared only by a pair. `SampleIsReported` says that nothing
else can do this, `VposTracksWheel` that a deck which lost nothing is exact.

### PatchTable, AtomicPatch, Patcher

`PatchTable` holds the table and what it means to fit (`Fits`, `Acceptable`) and
to be patched (`Patched`). A file is a sequence of words. `AtomicPatch` is the
abstract specification: in one step a file becomes the patched form of an
acceptable file, or a prefix of it. `Patcher` is the program, one action per
read, iteration, rejection, check, write, and a kill at any point; its variables
are those of `main` and `apply_patches`. The refinement maps the files to the
files; every step but `Write` and a kill during the write is a stutter.

### UsbWatch

The kernel has a device in the rear port (`port`) and what is mounted on the two
mount points (`mnt`, `bind`). `usb-watch.sh` is a program counter over the
commands others can see: `Poll`, then `Attach`, `Mount`, `Bind`, `TellUmount`,
`TellMount`, or `DetachTell`, `DetachRelease`, `DetachUnmount`, or the two
notifications after a restart of rbp. `Fail` is a command that fails, `Gone` a
device that disappeared under the command. `Launch`, `StartWatcher` and
`EndSession` are the launch scripts; a launch kills the watcher at any of its
commands, and the mounts stay. rbp is external: it opens its FIFO late, reads
what is written, and looks for the stick's files when it is told of a mount.

Abstractions: a stick is its `sdX` name, which the kernel does not reuse while
the file system is mounted. Messages keep their boundaries in the FIFO. One
launch script runs at a time. Time is left out: rbp may open its FIFO before or
after the script's fifteen seconds (and a notification's three) are over. The
scripts do not repeat a notice that was lost, so the liveness properties are
stated for behaviours in which rbp, when it runs, hears what it is told: the
history variable `unheard` is the loss of a notice to a running rbp. They exclude
stale mounts too (`Stale`), which `UsbSwap` shows to be a defect; that hypothesis also
leaves out a stick that is pulled in the middle of its attach.

### StickNotices

What rbp is promised of the stick: whether something is bound in its chroot
(`bound`) and whether that is the stick in the port (`files`), how far it was told
(`told`), and the messages that wait for it (`msgs`) or that it missed (`lost`). It is
the abstract specification of `UsbWatch` (`NoticesKept`; `told` is read off the
watcher's program counter and `cur`) and the environment of `UsbAuto`, which knows
nothing else of the scripts: a stick may be pulled at any moment and its files
vanish before rbp is told, a watcher may be killed between an umount and a mount,
and rbp may be restarted with the stick in.

### NoteKeys

`Edge` is a finger on a button: the event is appended to the FIFO, or dropped
when the FIFO is full. `HandleNote` is `handle_note`: for FWD and the browse knob
it first asks `source_menu_with_usb1` (`ToUsb1`), otherwise it looks up the first
entry of `note_map` with this button (`EntryOf`, `SlotOf`) and sends the edge if
the entry's `pressed` has not seen it (`IsNews`). `held` counts what the engine
was sent. `Browse` and `Mounted` are rbp's browse mode and the stick, which
change at any time. `missed` is history: the buttons whose latest edge was lost.

### TouchReader

A packet is what evdev reports up to a `SYN_REPORT`, here the change of one finger
(`Touch`). The kernel leaves out what did not change, by two rules: the multi-touch
position against the last one of the same `slot`, which outlives the contact, and the
single-touch one, which follows one of the contacts (`lead`), against its own last
value `kpos`. The reader keeps both in one `rx`, so it may report a finger at another
one's position. When the kernel's queue is full it drops all of it and the events of the
newest packet it had no room for (`Part`); of this only `SYN_DROPPED` tells, which
the reader ignores (fbshim-tsc.c:206-207). `Report` is `reader_thread` up to the
`SYN_REPORT`, `Push` the first frame, which blocks while the pipe is full, `PushAgain`
the second frame of a touch-down, `Lose` and `Reopen` the loop that opens the device
again. `ReadFrame` is rbp with the debouncing the shim's comments describe: the first
frame of a contact is zeroed. One axis stands for both.

`blind`, `multi` and `astray` are history. `blind`: packets were lost, with the device or
by an overflow, and none since told `BTN_TOUCH`. `multi`: a second finger was down since
all were up; its lift clears `cur_flag` although the first is still down, so while that
gesture lasts no property is claimed. `astray`: since packets were lost or two fingers
were down, no packet of a lone finger told a position, so the reader may still have
another finger's. The device may have been in use before, so a run starts astray and with
any positions in the slots. Where one of these holds the code really is wrong at times, and
the list of disagreements in section 3 says how; `LiftIsSeen`, too, leaves out a device that
stays `blind`, since nothing tells the reader of the lift.

### AudioShim

`Open`, `Close` and the writes are the calls rbp makes for each of its outputs;
`Card` is another process that takes or releases the sound card. rbp configures
the device it was given (`Choose`, `Restart`, `Install`); what it asks for is not
what the device is asked (`Asked`). A write is `Write`, one `Copy` per frame and
then `Cued` (headphones) or `Play` (master): the copy loops of two outputs share
`mix` without a lock. The compiler may read `s_has_hp_audio` once per write or once
per frame, so `Copy` may use either value. A write that fails twice changes
nothing and reports success, as the code does.

Abstractions: all periods have one length; a setting is rbp's choice or the
shim's. rbp heeds the errors of the calls that return them: it does not install a
configuration it could not choose. It has one headphone write at a time and closes
no output it is writing to. `peak` is whether `s_peak_hp` is over the threshold: a
frame of an audible headphone period raises it, and any master write may clear it
(`Play`; the code's counter of 500 writes is left out), also between a loud sample and the
headphone stream's test. `Silence` is a period that does not raise it.

`heard` is history, in three stages: an audible period was written and the master did
not clear the peak meanwhile (`cleared`), so `s_has_hp_audio` is set; another began
after the master writes older than that had returned; that one was written whole. From
then on `CueIsHeard` claims every audible period. It claims nothing of a silent one:
the headphones then get silence, where docs/07-audio.md:106-107 promises the master.
Software parameters, capture and the control interface keep no state and are left out.

### Surface

`Wait`, `Prepare` and `SeqSetup` are `midi_thread` up to its loop, `ReadEvent` one
round of it with `HandleEvent` and the handlers for the browse knob, the absolute
controls and the pitch faders; `Enforce` is a round of `bfx_init_thread`. The
surface reports a control's value, a fader in two halves (`MoveFader`, `LowHalf`),
and the FIFO drops what does not fit or comes before the subscription (`Emit`).
`AbsMap` is the table `build_maps` makes. `norm` is in 1/8192; every operation of
the code on it is exact in a float. The engine is what it was last sent (`value`,
`tempo`, `cursor`, `bfx`); rbp's initialisation resets the Beat FX channel at any
time until `bfx_init_thread` has ended. History: `heard` are the controls whose latest
report arrived whole, `turned` what the turns
of the browse knob that did are worth (`Worth`: one report counts for at most 16 steps).
A product of turn and scale beyond 32 bits, from a `KNOB_SCALE` above 2^25, is left out.

### UsbAuto

`usb_auto_thread` reads at `Wake`, `Kind3`, `Kind2`, `Media`, `Caution`, `Register` and
`Detached` and issues stores there, which stay `pending` until they are seen: the words are
volatile but no barrier lies between the stores, and another core of the ARM may see those
of one round in any order, also after the thread has read on. `Store` is one of them seen,
with rbp's threads writing the same words between any two. The thread starts a round only
when the stores of the last are seen: it sleeps 100 ms in the kernel in between. It reads no
word in a round that it stored to before in that round.

rbp's gui_task redraws when it is asked to. Nothing in this repository says whether it
first takes back the request or first copies the words to the screen, so these are two
steps in either order (`TakeBack`, `Copy`). `stale` says that a word the screen shows has
changed since the copy, and `raced` is history: stores to such a word were pending when
the latest redraw copied, or one changed between its copy and its taking back of the
request; it ends with the next copy, or when all stores are seen and the screen is right
all the same. Otherwise rbp's handling of one message, menu change or analysed stick is one step, as
only the words the thread shares with it are of interest.

`Notice` and `Announce` are what `StickNotices`
allows, and `Respawn` is a restart of rbp, with which the thread starts anew.
`MaxEvents` bounds the sticks announced, the menu changes and the restarts
together. Its specification has names of its own (`AutoInit`, `listening`, `thread_pc`), since
`UsbWatchProofs` extends it beside `UsbWatch`. rbp is external and follows
docs/06-usb.md: it detects a mount as USB2, analyses the stick, recomputes the connected
media and deselects the device when the Source menu opens.

### DeviceFiles, ShimFds

`DeviceFiles` is the abstract specification: a descriptor answers as the device it
was opened on until it is closed. `ShimFds` has the kernel's descriptor table and
the tables of `fbshim-tsc.c` or `gpioshim.c` (`lib`), with every system call and every
access to a table a step of its own, so that another thread can be given a number
between a close's two halves. `dup2` may name any number that is free or rbp's own. The touch device's open is `OpenTouch`, the three
steps of `ensure_reader` (each may fail), `TouchEnd`, `TouchSlot` and `TouchDrop`. The
refinement maps the descriptors rbp has to `dev` and what the library answers
for them to `answer`. rbp does not use a descriptor that it is closing.

### Framebuffer

`Pan` and `Flip` are
`FBIOPAN_DISPLAY` before and after its sleep, with the elapsed time in a 32-bit
`long` (`Signed`). The clock moves between two flips and no signal ends the sleep.
The other requests are answered with constants and keep no state; they are left out.

## 3. Runs

| Run | Specification and bounds | What it shows |
|---|---|---|
| `Jog` | 2 decks, one turning forward or still, one back; 2x2 positions, counter of 8, scale 3, inverted, 3 reports, FIFO of 4 that drops any half; fair threads and clock | halves are paired across reports only after a lone low half, the engine's counter follows the wheel through both wrap-arounds, and a wheel left alone is seen as idle |
| `JogRest` (violated) | 1 deck turning either way or still, no scale, 3 reports; fair | the comment at knobshim2.c:601: the engine can be left at a non-zero speed |
| `Notes` | 6 buttons, 5 entries (two of them one key, one without), 5 edges, FIFO of 2 that drops events | no edge is sent twice, no button that is not remapped sticks |
| `NotesBoth` (violated) | 3 edges, nothing dropped | the two edges of a gesture go different ways |
| `Patcher` | 3 words, table of 3 patches, 2 paths, every binary of 3 words and one too short; all orders of runs, checks and kills | the tool implements `AtomicPatch`; counts and idempotence |
| `Usb` | 2 devices, 3 plugs, 2 sessions, 1 restart of rbp, 1 failing command; fair scripts and rbp | mount before bind before notice, notice before release; the scripts implement `StickNotices`; a stick left in the port is shown, a pulled one released |
| `UsbSwap` (violated) | 2 devices, 3 plugs, 2 sessions, no failures | a stick swapped between sessions is not mounted |
| `Touch` | 2 fingers, 3 raw on 2 screen positions, 6 changes, 1 loss, a queue of 2 packets that may overflow, pipe of 3; fair reader and rbp | rbp has a contact exactly while a finger is down and, once told, its position; only the first tap can vanish; a lifted finger is lifted for rbp |
| `Audio` | 3 outputs, 2 master periods, silence and 2 audible headphone periods, of 2 frames, 4 opens; `MCAudioShim` makes outputs, masters and the two cues symmetric | the hardware has one owner and one layout; the headphone channels carry an audible cue through every interleaving of the two loops, once one was noticed |
| `Surface` | 2 knobs (one CC number on two channels) with 2 values, 1 pitch fader with 2 positions, the browse knob below and beyond the clamp, 4 reports, FIFO of 2; fair threads | the engine has what the controls show, whatever was lost before; the controls come up |
| `UsbAuto` | 2 sticks announced, menu changes and restarts of rbp together, 2 unread messages, over `StickNotices`; fair thread, rbp and redraws | the screen is left behind a store only by a redraw between the stores of a round; a stick that stays is listed, one that was released is not |
| `ShimFds` | 2 threads, 5 descriptors, 4 of them in the tables; both libraries | the tables implement `DeviceFiles`; no descriptor is lost |

**Why the bounds are enough.** Every race above needs two threads and at most two
messages of each; three reports let an idle round fall before, between and after
movements. Four positions from any start cross the wheel's wrap-around within those
reports, in both directions, and keys of three pulses cross the counter's at 8.
Any of the halves may be lost on one deck while the other's arrive.
Each deck turns one way only, which keeps the run at two million states; a
deck does not see the other's direction. `NoteKeys` needs one gesture with a change in its
middle and, for lost edges, more edges than the FIFO holds. In `UsbWatch` a swap
behind the launcher's back takes two sessions, and a failure can hit an attach
before and after another one. Two events of `UsbAuto` are
a stick and its successor, or a stick and a restart or a menu before or after it, and
the stores of a whole round pend at once. A queue of two packets of `TouchReader` overflows with the third
change, and six are a gesture of two fingers with a tap behind it. Two turns of the
browse knob lie on either side of the clamp and of zero. Four opens reach every role of an output, the last of
them `dummy`, and a period of two frames has a frame on each side of the other
loop. Two lost reports around a whole one need four reports and a FIFO of two.
Five descriptors are what an open of the touch device takes at most, so the table of
the kernel is full in every state of it; the fifth is beyond the flags.

**Deadlock** is checked in `Patcher`, `Notes`, `NotesBoth` and `Audio`. The
other configurations say `CHECK_DEADLOCK FALSE` because the environment may stop:
the sticks, reports or touches of the bound are used up and the program waits
(`ShimFds`: rbp may hold every descriptor and need not close one).

**Fairness.** `JogWheel`: both threads are endless loops at normal priority and
the clock advances. `UsbWatch`: the scripts are endless loops of commands that
end; rbp opens its FIFO and reads it (a dead rbp is not made to start again).
`TouchReader`: the reader thread and rbp's touch task. `Surface`: `midi_thread` and
`bfx_init_thread`, but not rbp's start; a setup that fails is excluded, because the
code does not retry it. `UsbAuto`: the thread is an endless loop with a sleep, rbp
opens its FIFO, handles its messages and redraws; of the scripts nothing is assumed.
Nobody has to turn, press, plug or touch anything, so liveness is stated as: left alone, it settles.

**Findings.** The violated runs are listed in `PROJECT.json` with the line of the
comment or document each contradicts. None of them needs a fault outside of what
the code handles.

Further disagreements, without a run of their own:

* fbshim-tsc.c:211: `last_flag` starts at -1, so the down frame of the very first
  tap is pushed once and the debouncing drops the tap, against
  docs/04-touchscreen.md:66-70. `LaterTapsSurvive` is about the taps after it.
* audioshim.c:445: after one audible headphone period the master is never mirrored
  again: while the cue is silent the headphones are, against docs/07-audio.md:106-107
  and the comment at audioshim.c:463. `CueIsHeard` is about audible periods.
* audioshim.c:485-490: the master's stream clears the headphone peak without a lock, for
  the sake of its log line. Between a loud sample and the test at 445 this delays the cue
  by a period (`cleared`).
* fbshim-tsc.c:195-196 folds the positions of all slots into one, so a finger that comes
  down where its slot was last, after another finger, is reported where that one
  was, against docs/04-touchscreen.md:83-90 (Type B, "accepts all common encodings").
  `ContactIsFollowed` says when (`astray`).
* fbshim-tsc.c:206-207 ignores `SYN_DROPPED`: a lift lost in an overflow of the kernel's
  queue, like one lost with the device, is made up only by the next `BTN_TOUCH`
  (`blind`).
* knobshim2.c:938-939: a redraw that takes back the request before the value is seen
  leaves the stick's label undrawn until something else asks for a redraw, although
  knobshim2.c:956 says the thread keeps it shown (`raced`).
* audioshim.c:170: an open that fails because the card is taken counts for good;
  after every output was closed the next one is the headphone, and no later output gets
  the hardware, against the comment at 158. `OneOwner` shows only that it is never
  given to two.
* knobshim2.c:899-910 promises that phantom USB2 is never reported, that the
  Source menu is opened on attach and the state cleared on detach: USB2 is visible
  until the thread's next round, nothing opens the menu, and the browse device
  stays 3 after a detach.
* knobshim2.c:680-681 and 514: docs/05-controls.md:183-193 gives another formula for
  the tempo's integer and other operations for the knobs.
* docs/05-controls.md:225: `seqinject2 note 15 7 0` sends a note on, as only the
  word `off` is off.
* knobshim2.c:540 and 560 take two set flags for one completed sample: after one lost
  high half every later sample of that wheel joins a low half with the high half of
  the next report, until a low half is lost too (`SampleIsReported`).
* docs/03-display.md:49 says that flips are serialised; fbshim-tsc.c:425-442 has
  a mutex it does not take.

## 4. Proofs

| Theorem | Property | For every |
|---|---|---|
| `JogWheelProofs!JogTypes` | `TypeOK` | number of decks, resolution, queue length, lost events |
| `JogWheelProofs!JogSamples` | `SampleIsReported` | the same, and every interleaving of both threads |
| `JogWheelProofs!CounterTracksWheel` | `VposTracksWheel` | the same, and every scale and wrap-around |
| `PatcherProofs!PatcherImplementsAtomicPatch` | `AllOrNothing` | table of single-word patches, binary and set of paths |
| `PatcherProofs!RejectionChangesNothing` | `RejectedUntouched` | the same |
| `PatcherProofs!PatchingIsIdempotent` | `Idempotent` | the same |
| `PatcherProofs!PrintedCountsAreExact` | `CountsAddUp` | the same |
| `PatcherProofs!PatcherTypes` | `TypeOK` | the same |
| `NoteKeysProofs!NoButtonSticks` | `PressedFollowsButton` | map without duplicates, queue length, pattern of lost events |
| `NoteKeysProofs!EngineCountsPresses` | `HeldMatchesPressed` | the same |
| `NoteKeysProofs!NoteTypes` | `TypeOK` | the same |
| `SurfaceProofs!KnobsAreFollowed` | `KnobFollows` | set of controls and values, queue length, pattern of lost reports |
| `SurfaceProofs!TemposHeal` | `TempoHeals` | the same, and every set of fader positions |
| `SurfaceProofs!SelectorFollows` | `BrowseFollows` | the same, and every scale and turn, also one that is clamped |
| `SurfaceProofs!SurfaceTypes` | `TypeOK` | the same |
| `AudioShimProofs!HardwareHasOneOwner` | `OneOwner` | set of outputs, order of opens and closes |
| `AudioShimProofs!AudioTypes` | `TypeOK` | the same, and every length of a period |
| `AudioShimProofs!CueReachesHeadphones` | `CueIsHeard` | the same, and every interleaving of the writes |
| `AudioShimProofs!PeriodsAreWhole` | `FramesAreWhole` | the same |
| `FbshimProofs!RbpFollowsContact` | `ContactIsFollowed` | number of fingers, resolution of panel and screen, queue lengths, overflow and loss of the device |
| `FbshimProofs!TapsAreDoubled` | `LaterTapsSurvive` | the same |
| `FbshimProofs!TouchTypes` | `TypeOK` | the same |
| `ShimFdsProofs!ShimsKeepPromise` | `AnswersAsOpened` | set of threads, number of descriptors, flags and slots, interleaving of the calls |
| `ShimFdsProofs!DescriptorsKept` | `NoDescriptorLost` | the same |
| `ShimFdsProofs!DescriptorTypes` | `TypeOK` | the same |
| `UsbWatchProofs!BindIsTheMount` | `BindFollowsMount` | set of device names, bounds, kill and failing command |
| `UsbWatchProofs!BindBeforeMountNotice` | `ToldAfterBind` | the same |
| `UsbWatchProofs!NoticeComesFirst` | `NoticeBeforeRelease` | the same, and whatever rbp has not read yet |
| `UsbWatchProofs!UsbTypes` | `TypeOK` | the same |
| `UsbWatchProofs!WatchKeepsPromise` | `NoticesKept` | set of device names, bounds, kill, failing command, restart of rbp |
| `UsbWatchProofs!ScreenKeepsUp` | `ScreenIsFresh` | number of sticks, menu changes and restarts, order of the stores and interleaving with rbp's |
| `UsbWatchProofs!ListingTypes` | `AutoTypeOK` | the same |
| `FbshimProofs!FlipsAreAFrameApart` | (no run) | behaviour of the clock |
| `FbshimProofs!FlipsAreNeverLate` | (no run) | behaviour of the clock |

Assumptions are the `ASSUME`s of the modules and nothing else; TLC evaluates them
in the runs. `FbshimProofs` reaches `Framebuffer` by `INSTANCE` beside `TouchReader`
(both are halves of `fbshim-tsc.c`); `UsbWatchProofs` extends both `UsbWatch` and
`UsbAuto` (the scripts mount the stick, the thread lists it), so their names differ.

Every safety invariant and every action property of a passing run is stated by one
of these theorems.

* **Samples.** `SampleIsReported` is not inductive: it says nothing of the FIFO.
  The invariant adds, for the decks outside `slipped`, that every low half in the FIFO
  follows the high half of its report, or is at the head and `handle_jog` has that
  high half (`Paired`), and that no low half waits in the flags (`NoLowHalf`). A high
  half may be alone: the next one replaces it. `HandleJog` then either takes a high
  half and only waits, or completes the pair; what it does for a deck in `slipped`
  leaves the others alone (`HandleJogReads`).
* **Counter.** `VposTracksWheel` says nothing of what `prev` will become. `TrackInv`
  adds that two samples of a deck that follow each other, in the FIFO or across its
  end, are one turn apart (`Chained`, `Latest`), less than half a wheel, so the shorter way
  round is the way the wheel went; that the store of `vpos` still to come makes up
  what is missing (`Pending`); and that nothing counts before the first sample
  (`Unmoved`). The lemmas on `%` carry a difference modulo the wheel's range over to
  the engine's, which is a multiple of it. The proof needs what the model assumes:
  a wheel turns less than half its range between two reports, and no turn is
  clamped, for otherwise the code loses count.
* **Patcher.** The invariant says that `data` is the binary the run read with the
  first `next - 1` patches applied, that all of those fitted, and that no file
  changed since the run began. `Write` is therefore the abstract `Patch`, a kill
  during it `Tear`, everything else a stutter. Idempotence rests on the lemma
  `PatchedTwice`: no two patches touch one word.
* **Counts.** `applied` is stale after a kill and exact again at status 0, so the
  invariant (`CountsStock`) speaks of a run under way: `applied` is the number of
  stock words among the first `next - 1` patches, and status 0 is reached only
  past the last. One step adds one element to a finite set or none.
* **Buttons.** Until the latest edge of a button is handled, that edge is in the
  queue and agrees with the finger; `Inv` adds this to the property. Edges of other
  buttons do not disturb it because the map lists no button twice.
* **Presses.** `HeldMatchesPressed` is inductive but for the bounds of `TypeOK`: USB1 is
  not in the map, and its count may go below zero when a press is lost. `Budget`
  bounds it: each key sent, and each event in the FIFO, is one edge of a finger.
* **Controls.** `KnobInv` says which report decides: the newest report of a control in
  the FIFO has its value, or `last` has it when there is none, and a key has what
  `last` has; reports that were lost are absent from both. `FaderInv` speaks of a fader
  whose latest report arrived whole so far: its high half is in the FIFO or in `pitch`,
  and once both halves are out the low half is in the FIFO behind every high half, or
  the tempo is set.
  `BrowseInv` is a `Ledger`: a function from the places in the FIFO to where the
  selector will be once the events so far are handled. It starts at the cursor and
  ends at what the knob was turned. Its existence is the invariant; a function
  instead of a sum keeps recursion out of the proof.
* **Outputs.** The count has to stay above 0 while anybody has the real or the null
  handle, and the two are never out together: a close of the real handle is
  the only reset, and with it the last such handle is gone.

* **Cue.** `CueIsHeard` says nothing of the frames a headphone write has already
  passed; the invariant (`Cueing`) adds that these have its period. The master
  cannot disturb them: no write from before `s_has_hp_audio` was set is left, so
  whichever value of the flag the compiler uses, it is set. A return then finds
  every frame passed. The step that needs care is the first: that the flag is set at all.
  `Latching` says that after a loud frame of a write under way the peak is there or the
  master has `cleared` it or the flag is set, so an audible period that ends uncleared sets it.
* **Periods.** What plays is whole because only one output writes the master's half of
  the buffer (`Mastering`: two outputs with the real or the null handle are one) and
  the frames its write has passed have its period, and because every setting that
  reaches the device is open or the shim's.
* **Touch.** Three invariants, by distance from rbp. `PipeInv`: what the reader thinks
  it told is the last frame of the pipe, or with rbp when the pipe is empty, and is what the
  last packet said unless a frame is due, so a suppressed repetition leaves nothing out. `TapInv`: wherever a touch-down begins in
  the pipe, a second frame with the contact follows or is about to be pushed, except
  at the first touch-down of all. `KernelInv`: the newest packet that
  tells a position or belongs to a gesture of two fingers (`Minded`) tells the kernel's position or
  leads the reader astray, and the newest that tells of the contact (`Flagging`) tells whether
  a finger is down; with no such packet the reader has it, unless it is `astray` or `blind`.
  A packet that leaves a position out leaves it as it was for the slot
  and for the single-touch axis, which with one finger down agree. While more than
  one finger is down nothing is claimed, as in the property. `TypeOK` needs one more,
  `Budget`: an account over the pipe bounds the touch-downs rbp will count by the
  changes of the contacts.
* **Descriptors.** `ShimFds` implements `DeviceFiles` because what a descriptor answers
  is a function of `held` alone (`AnswerFollows`), so a step is the abstract `Open`,
  `Close` or a stutter by what it does to `held`. That rests on `Inv`: a descriptor is
  with rbp, with the reader or in one call, never in two of these (`Apart`), so a
  release under one owner takes nothing from another; a descriptor from the kernel
  is therefore not flagged (`NewIsNobodys`, `FreeIsNobodys`), except one that `dup2` took over, whose
  flag is set or cleared before rbp has it (`Flags`). `Inv` is also an account of
  every open descriptor, which is `NoDescriptorLost`.
* **Hotplug.** `Mounted` says what the watcher knows at each of its commands: with a
  device in `cur` the bind is there, since every failure forgets `cur`; a kill takes
  the watcher to `off`, where it knows nothing. `Told` adds the FIFO: between the
  notice and the release the last message is the umount, so a mount that rbp has not
  read yet cannot bring the stick back after it, and an rbp without the FIFO open
  shows nothing.
* **Promise.** Every step of `UsbWatch` is a step of `StickNotices` or a stutter: the
  commands that notify are `Reset`, `Mount` and `Warn`, a bind is `Show`, a release is
  `Release`, a plug pulled with the bind there is `Pull`, and a kill, an exit or a
  start of rbp is `Restart`. It needs `Mounted` (the bind is there whenever rbp is
  told of a mount) and `Attached`: the watcher detaches only what it has attached,
  and nobody has the FIFO open when rbp does not run. `UsbAuto` assumes
  `StickNotices` and `UsbWatch` keeps it, so what is shown of the thread holds over
  the scripts.
* **Listing.** `ListingInv` extends `ScreenIsFresh` to stores nobody has seen yet: while one
  to a word of the screen is pending, too, a redraw is still to copy, was asked for or will be.
  A store to such a word is issued together with the request, and rbp asks in the step
  in which it writes; a redraw that takes back the request has still to copy, unless it copied
  before, and then nothing was pending and nothing has changed since, or it has `raced`.
* **Flips.** While gui_task sleeps, its sleep ends a frame after the last flip
  (`Paced`). A wrapped difference is never more than the true one, so the sleep is
  long enough; where it wraps to zero or below, the true gap is half the width of
  the `long`, far more than a frame.

Only model-checked: the liveness properties `MotionSettles`, `StickIsShown`,
`StickIsReleased`, `LiftIsSeen`, `ControlsComeUp`, `StickIsListed` and `StickIsUnlisted`,
because fairness and `ENABLED` are out of the prover's reach.

## 5. Not modelled, and plan

Done: both halves of `knobshim2.c` (jog path, buttons, knobs and faders, start-up,
USB registration), the touch reader, the descriptor tables, the pacing
of the flips, the playback side of the audio shim, USB hotplug and the patcher.

### Not modelled, and why

* `tscshim.c`, `legacy-scan.c`: superseded by `fbshim-tsc.c`, whose reader and tables
  are modelled; the differences are one push per contact and another transform.
* `seqinject2.c`, `udplog.c`, `crashcatch.c`, `scripts/device/debug`: tools a person runs
  once. They keep no state and nothing in the running system depends on them.
* `compat_shim.c` and the DirectFB patch: build patches to a third-party library.
* `setup_launcher.py`: what matters in it (two launchers at once, a failed read of
  the remote configuration) needs a model of ssh, systemd and udev, which the
  repository only calls. It is listed under the hazards.
* `prepare_rx3.py`, `get-firmware.sh`, `verify_*.py`: decryption, archives and ELF
  parsing; sequential data transformations without shared state.
* In the modelled parts: logging, the contents of the patch table, the software
  parameters, capture and control interface of ALSA, and rbp itself beyond what
  the shims and scripts rely on.

* Smaller hazards without a model: nothing paces rbp when the hardware refuses a
  write twice (`audioshim.c` 478); periods of different lengths (425); the set-up of
  the real ALSA is flagged before it is done (108, `gpioshim.c` 60); `fbshim-tsc.c`
  does not intercept `dup`; a surface that is enumerated again is not subscribed to a
  second time (`knobshim2.c` 308); `usb-watch.sh` 84 relies on a FIFO without message
  boundaries; two flips at once from different threads (`fbshim-tsc.c` 430).

### Open

`Launch` (two launch scripts and the check-and-launch of the udev rule at once) and
`LauncherConf` (idempotence of the configuration update).
