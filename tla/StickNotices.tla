---------------------------- MODULE StickNotices ----------------------------
(***************************************************************************)
(* What rbp is promised of the stick: the files of a stick can only be in  *)
(* its chroot while something is bound there, it is told of a mount only   *)
(* with the bind in place and after an umount, and nothing is released     *)
(* before it was told.  UsbWatch implements this module, and UsbAuto, the  *)
(* thread inside rbp, relies on nothing else.                              *)
(***************************************************************************)
EXTENDS Sequences

VARIABLES
    bound,   \* something is mounted in the chroot of rbp ...
    files,   \* ... and it is the stick in the port: its files are there
    told,    \* "out"; "reset": the mount is due; "in"; "warned": the release is
    open,    \* rbp has its FIFO open
    msgs,    \* what is in it
    lost     \* the rbp that runs missed a message, or none runs

vars == <<bound, files, told, open, msgs, lost>>

Init ==
    /\ bound = FALSE /\ files = FALSE /\ told = "out"
    /\ open = FALSE /\ msgs = <<>> /\ lost \in BOOLEAN

Tell(msg) ==
    /\ \/ open /\ msgs' = Append(msgs, msg) /\ UNCHANGED lost
       \/ ~open /\ lost' = TRUE /\ UNCHANGED msgs
    /\ UNCHANGED <<bound, files, open>>

\* A mount that was left behind can be bound: then there are no files.
Show ==
    /\ told = "out" /\ ~bound /\ bound' = TRUE /\ files' \in BOOLEAN
    /\ UNCHANGED <<told, open, msgs, lost>>

Pull == files /\ files' = FALSE /\ UNCHANGED <<bound, told, open, msgs, lost>>

\* rbp ignores a mount that no umount precedes.
Reset ==
    /\ told \in {"out", "in"} /\ bound /\ told' = "reset" /\ Tell("umount")
Mount ==
    /\ told = "reset" /\ bound /\ told' = "in" /\ Tell("mount")

Warn ==
    /\ told = "in" /\ told' = "warned" /\ Tell("umount")
Release ==
    /\ told = "warned" /\ told' = "out" /\ bound' = FALSE /\ files' = FALSE
    /\ UNCHANGED <<open, msgs, lost>>

Open == ~open /\ open' = TRUE /\ UNCHANGED <<bound, files, told, msgs, lost>>
Read ==
    /\ open /\ msgs # <<>> /\ msgs' = Tail(msgs)
    /\ UNCHANGED <<bound, files, told, open, lost>>

\* rbp ends or starts, and the FIFO is empty.  A launch script takes the
\* watcher with it, and what is bound stays.
Restart ==
    /\ open' = FALSE /\ msgs' = <<>> /\ told' \in {told, "out"}
    /\ lost' \in BOOLEAN /\ UNCHANGED <<bound, files>>

Next ==
    \/ Show \/ Pull \/ Reset \/ Mount \/ Warn \/ Release
    \/ Open \/ Read \/ Restart

Spec == Init /\ [][Next]_vars
=============================================================================
