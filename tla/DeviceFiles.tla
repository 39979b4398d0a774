---------------------------- MODULE DeviceFiles -----------------------------
(***************************************************************************)
(* What the shims promise for the device files rbp opens: a descriptor     *)
(* answers as the device it was opened on from the open to the close, and  *)
(* nothing another thread does in between changes that.  A GPIO descriptor *)
(* reads as zero when the shim's table has room for its number.  ShimFds   *)
(* is the code.                                                            *)
(***************************************************************************)
CONSTANTS Fds, Tabled, Devices, None

VARIABLES
    dev,       \* the device of each descriptor rbp has, None otherwise
    answer     \* what a read of it answers

Right(fd, d) == IF d = "gpio" /\ fd \in Tabled THEN "zero" ELSE d

Init ==
    /\ dev = [fd \in Fds |-> None] /\ answer = [fd \in Fds |-> None]

Open(fd, d) ==
    /\ dev[fd] = None
    /\ dev' = [dev EXCEPT ![fd] = d]
    /\ answer' = [answer EXCEPT ![fd] = Right(fd, d)]

Close(fd) ==
    /\ dev[fd] # None
    /\ dev' = [dev EXCEPT ![fd] = None]
    /\ answer' = [answer EXCEPT ![fd] = None]

Next == \E fd \in Fds : Close(fd) \/ \E d \in Devices : Open(fd, d)

Spec == Init /\ [][Next]_<<dev, answer>>
=============================================================================
