------------------------------- MODULE ShimFds -------------------------------
(***************************************************************************)
(* The descriptor tables of the two libraries that stand between rbp and   *)
(* its device files: scripts/shims/fbshim-tsc.c (GPIO and touch) and its   *)
(* predecessor gpioshim.c (GPIO, with dup).  rbp's threads call them       *)
(* without a lock; each step is one system call or one access to a table.  *)
(*                                                                         *)
(* rbp uses a descriptor from the return of the open to the call of the    *)
(* close, does not use one that another thread is closing, opens the touch *)
(* device from one thread and duplicates descriptors only under gpioshim,  *)
(* which intercepts that.  The number it duplicates is in gpioshim's table *)
(* (of 4096; processes may have 1024 descriptors unless that is raised).   *)
(***************************************************************************)
EXTENDS Naturals, FiniteSets

CONSTANTS
    Threads,    \* rbp's threads
    NFds,       \* descriptors the kernel has
    MaxFlags,   \* descriptors is_gpio has (256, 4096)
    Slots,      \* touch descriptors (64)
    None

Fds == 0..NFds-1
Tabled == {fd \in Fds : fd < MaxFlags}

ASSUME ShimFdsAssumption ==
    /\ {NFds, MaxFlags, Slots} \subseteq Nat \ {0}
    /\ None \notin Nat /\ None \notin {"gpio", "file", "event", "touch", "pipe"}

VARIABLES
    lib,             \* the library that is loaded
    kern,            \* the kernel's table: what a descriptor is open on
    is_gpio,         \* descriptors that are flagged
    slot,            \* fake_used and fake_pipe_rd: the descriptor, or None
    evfd, out_pipe,  \* of the reader; None is -1
    reader_started,
    held,            \* the device of each descriptor rbp has
    call             \* the call each thread is in, between two steps

tables == <<is_gpio, slot, evfd, out_pipe, reader_started>>
vars   == <<lib, kern, tables, held, call>>

Idle == [op |-> "none", fd |-> None, from |-> None, dev |-> None]
NoPipe == <<None, None>>

Init ==
    /\ lib \in {"fbshim-tsc", "gpioshim"}
    /\ kern = [fd \in Fds |-> None] /\ is_gpio = {}
    /\ slot = [i \in 0..Slots-1 |-> None]
    /\ evfd = None /\ out_pipe = NoPipe /\ reader_started = FALSE
    /\ held = [fd \in Fds |-> None] /\ call = [t \in Threads |-> Idle]

-----------------------------------------------------------------------------
(* The kernel gives the lowest free number.  A definition named Bad... is  *)
(* the definition after it with a bug the code could have.                 *)

Free == {fd \in Fds : kern[fd] = None}
Lowest(S) == CHOOSE fd \in S : \A other \in S : fd <= other
New == Lowest(Free)

Goto(t, op) == call' = [call EXCEPT ![t].op = op]
Enter(t, op, fd, from, d) ==
    call' = [call EXCEPT ![t] = [op |-> op, fd |-> fd, from |-> from, dev |-> d]]
Leave(t) == call' = [call EXCEPT ![t] = Idle]
At(t, op) == call[t].op = op /\ UNCHANGED lib

\* close of several descriptors.
BadRelease(fds) == [fd \in Fds |-> IF fd \in fds \ {evfd} THEN None ELSE kern[fd]]
Release(fds) == [fd \in Fds |-> IF fd \in fds THEN None ELSE kern[fd]]

\* Descriptors another call reads from.
Busy == {call[t].from : t \in Threads}

-----------------------------------------------------------------------------
(* Paths, in both libraries.                                               *)

\* open: the kernel's open, then the flag.
OpenPath(t, d) ==
    /\ At(t, "none") /\ Free # {}
    /\ kern' = [kern EXCEPT ![New] = d] /\ Enter(t, "open", New, None, d)
    /\ UNCHANGED <<tables, held>>
BadOpenFlag(t) ==
    /\ At(t, "open") /\ Leave(t)
    /\ is_gpio' = IF call[t].dev = "gpio" THEN is_gpio \cup {call[t].fd} ELSE is_gpio
    /\ held' = [held EXCEPT ![call[t].fd] = call[t].dev]
    /\ UNCHANGED <<kern, slot, evfd, out_pipe, reader_started>>
OpenFlag(t) ==
    /\ At(t, "open") /\ Leave(t)
    /\ LET fd == call[t].fd
       IN /\ is_gpio' = IF call[t].dev = "gpio" THEN is_gpio \cup (Tabled \cap {fd})
                                                ELSE is_gpio
          /\ held' = [held EXCEPT ![fd] = call[t].dev]
    /\ UNCHANGED <<kern, slot, evfd, out_pipe, reader_started>>

\* close: the flag and the touch slot of that number, then the kernel's close.
\* Unslot: a slot is found only when it has the number of its descriptor.
Unslot(fd) ==
    IF fd \in DOMAIN slot /\ slot[fd] = fd THEN [slot EXCEPT ![fd] = None] ELSE slot
Close(t, fd) ==
    /\ At(t, "none") /\ held[fd] # None /\ fd \notin Busy
    /\ held' = [held EXCEPT ![fd] = None]
    /\ is_gpio' = is_gpio \ {fd} /\ slot' = Unslot(fd)
    /\ Enter(t, "close", fd, None, None)
    /\ UNCHANGED <<kern, evfd, out_pipe, reader_started>>
RealClose(t) ==
    /\ At(t, "close") /\ Leave(t) /\ kern' = Release({call[t].fd})
    /\ UNCHANGED <<tables, held>>

\* dup, dup2 and dup3 of gpioshim: the kernel's, then the flag.  The new number
\* is a free one, for dup the lowest, or one that rbp has; the kernel closes what
\* that had.
Dup(t, fd, new) ==
    /\ At(t, "none") /\ lib = "gpioshim" /\ fd # new
    /\ fd \in Tabled /\ held[fd] # None
    /\ new \in Free \/ (held[new] # None /\ new \notin Busy)
    /\ kern' = [kern EXCEPT ![new] = kern[fd]] /\ held' = [held EXCEPT ![new] = None]
    /\ Enter(t, "dup", new, fd, held[fd])
    /\ UNCHANGED tables
BadDupFlag(t) ==
    /\ At(t, "dup") /\ Leave(t)
    /\ is_gpio' = is_gpio \cup (IF call[t].from \in is_gpio
                                THEN Tabled \cap {call[t].fd} ELSE {})
    /\ held' = [held EXCEPT ![call[t].fd] = call[t].dev]
    /\ UNCHANGED <<kern, slot, evfd, out_pipe, reader_started>>
DupFlag(t) ==
    /\ At(t, "dup") /\ Leave(t)
    /\ LET new  == call[t].fd
           from == call[t].from
       IN /\ is_gpio' = IF {new, from} \subseteq Tabled
                        THEN IF from \in is_gpio THEN is_gpio \cup {new}
                                                 ELSE is_gpio \ {new}
                        ELSE is_gpio
          /\ held' = [held EXCEPT ![new] = call[t].dev]
    /\ UNCHANGED <<kern, slot, evfd, out_pipe, reader_started>>

-----------------------------------------------------------------------------
(* The touch device, in fbshim-tsc.                                        *)

TouchOps == {"event", "pipe", "thread", "end", "slot", "drop"}

OpenTouch(t) ==
    /\ At(t, "none") /\ lib = "fbshim-tsc"
    /\ \A u \in Threads : call[u].op \notin TouchOps
    /\ Enter(t, IF reader_started THEN "end" ELSE "event", None, None, "touch")
    /\ UNCHANGED <<kern, tables, held>>

\* ensure_reader: open the event device, make the pipe, start the thread;
\* what fails takes back what was done, and the next open tries again.
EventDevice(t) ==
    /\ At(t, "event")
    /\ \/ /\ Free # {} /\ Goto(t, "pipe")
          /\ kern' = [kern EXCEPT ![New] = "event"] /\ evfd' = New
       \/ Leave(t) /\ UNCHANGED <<kern, evfd>>
    /\ UNCHANGED <<is_gpio, slot, out_pipe, reader_started, held>>

Pipe(t) ==
    /\ At(t, "pipe")
    /\ \/ /\ Cardinality(Free) > 1 /\ Goto(t, "thread")
          /\ LET write == Lowest(Free \ {New})
             IN /\ kern' = [kern EXCEPT ![New] = "touch", ![write] = "pipe"]
                /\ out_pipe' = <<New, write>>
          /\ UNCHANGED evfd
       \/ /\ Cardinality(Free) < 2 /\ Leave(t)
          /\ kern' = Release({evfd}) /\ evfd' = None /\ UNCHANGED out_pipe
    /\ UNCHANGED <<is_gpio, slot, reader_started, held>>

StartReader(t) ==
    /\ At(t, "thread")
    /\ \/ Goto(t, "end") /\ reader_started' = TRUE /\ UNCHANGED <<kern, evfd, out_pipe>>
       \/ /\ Leave(t) /\ out_pipe' = NoPipe /\ evfd' = None
          /\ kern' = Release({evfd, out_pipe[1], out_pipe[2]})
          /\ UNCHANGED reader_started
    /\ UNCHANGED <<is_gpio, slot, held>>

\* tsc_open_impl: a duplicate of the read end, and the first unused slot.
TouchEnd(t) ==
    /\ At(t, "end")
    /\ \/ /\ Free # {} /\ kern' = [kern EXCEPT ![New] = "touch"]
          /\ Enter(t, "slot", New, None, "touch")
       \/ Free = {} /\ Leave(t) /\ UNCHANGED kern
    /\ UNCHANGED <<tables, held>>

Unused == {i \in DOMAIN slot : slot[i] = None}
TouchSlot(t) ==
    /\ At(t, "slot")
    /\ \/ /\ Unused # {} /\ Leave(t)
          /\ slot' = [slot EXCEPT ![Lowest(Unused)] = call[t].fd]
          /\ held' = [held EXCEPT ![call[t].fd] = "touch"]
       \/ Unused = {} /\ Goto(t, "drop") /\ UNCHANGED <<slot, held>>
    /\ UNCHANGED <<kern, is_gpio, evfd, out_pipe, reader_started>>
TouchDrop(t) ==
    /\ At(t, "drop") /\ Leave(t) /\ kern' = Release({call[t].fd})
    /\ UNCHANGED <<tables, held>>

\* reader_thread closes an event device that went away and opens it again.
Reader ==
    /\ reader_started
    /\ \/ evfd # None /\ evfd' = None /\ kern' = Release({evfd})
       \/ /\ evfd = None /\ Free # {}
          /\ evfd' = New /\ kern' = [kern EXCEPT ![New] = "event"]
    /\ UNCHANGED <<lib, is_gpio, slot, out_pipe, reader_started, held, call>>

-----------------------------------------------------------------------------
Thread(t) ==
    \/ \E d \in {"gpio", "file"} : OpenPath(t, d)
    \/ OpenFlag(t)
    \/ \E fd \in Fds : Close(t, fd)
    \/ RealClose(t)
    \/ \E fd, new \in Fds : Dup(t, fd, new)
    \/ DupFlag(t)
    \/ OpenTouch(t) \/ EventDevice(t) \/ Pipe(t) \/ StartReader(t)
    \/ TouchEnd(t) \/ TouchSlot(t) \/ TouchDrop(t)

Next == Reader \/ \E t \in Threads : Thread(t)

Spec == Init /\ [][Next]_vars

-----------------------------------------------------------------------------
(* Properties.                                                             *)

TypeOK ==
    /\ kern \in [Fds -> {None, "gpio", "file", "event", "touch", "pipe"}]
    /\ is_gpio \subseteq Tabled
    /\ slot \in [0..Slots-1 -> Fds \cup {None}]
    /\ evfd \in Fds \cup {None} /\ out_pipe \in (Fds \X Fds) \cup {NoPipe}
    /\ reader_started => out_pipe # NoPipe
    /\ held \in [Fds -> {None, "gpio", "file", "touch"}]
    /\ \A fd \in Fds : held[fd] # None => held[fd] = kern[fd]

\* read and poll: a flagged descriptor is answered by the library.
Read(fd) == IF fd \in is_gpio THEN "zero" ELSE kern[fd]
Answer == [fd \in Fds |-> IF held[fd] = None THEN None ELSE Read(fd)]

\* gpioshim.c:25, "dup/dup2/dup3 and close keep the fd->gpiodrv map
\* consistent", and the same for fbshim-tsc: whatever the threads open, close
\* and duplicate, a descriptor answers as its own device while rbp has it.
Promise == INSTANCE DeviceFiles WITH
    dev <- held, answer <- Answer, Devices <- {"gpio", "file", "touch"}
AnswersAsOpened == Promise!Spec

\* No descriptor is lost: each that is open in the kernel belongs to rbp, to
\* the reader or to a call under way, also after a step of ensure_reader or of
\* the open of the touch device failed.
NoDescriptorLost ==
    {fd \in Fds : kern[fd] # None} =
        {fd \in Fds : held[fd] # None}
        \cup (Fds \cap {evfd, out_pipe[1], out_pipe[2]})
        \cup (Fds \cap {call[t].fd : t \in Threads})
=============================================================================
