------------------------------ MODULE UsbWatch ------------------------------
(***************************************************************************)
(* Hotplug of the rear USB stick: scripts/device/usb-watch.sh, started and *)
(* stopped by scripts/device/start-rb.sh and restart-knob2.sh, between the *)
(* kernel (block devices and mounts) and rbp (the reader of the FIFO).     *)
(*                                                                         *)
(* A block device is its sdX name.  The kernel does not reuse a name while *)
(* its file system is mounted, so a mount is alive exactly when its device *)
(* is the one in the port.  A definition named Bad... is the one after it  *)
(* with a bug the script could have.                                       *)
(***************************************************************************)
EXTENDS Naturals, Sequences

CONSTANTS
    Devs,         \* sdX names the kernel may give the stick in the port
    None,         \* no device
    HasTimeout,   \* /data/timeout is installed
    MaxPlugs,     \* bound: sticks plugged in
    MaxSessions,  \* bound: runs of a launch script
    MaxRespawns,  \* bound: restarts of rbp behind the launcher's back
    MaxFaults     \* bound: failures of blkid, mount and mount --bind

ASSUME UsbAssumption ==
    /\ None \notin Devs /\ None # "empty" /\ "empty" \notin Devs
    /\ HasTimeout \in BOOLEAN
    /\ {MaxPlugs, MaxSessions, MaxRespawns, MaxFaults} \subseteq Nat

VARIABLES
    \* Kernel.
    port,        \* the device in the rear port
    mnt, bind,   \* what is mounted on MNT and on CH_MNT
    \* usb-watch.sh: the program counter and the variables of run.
    pc, dev, cur, rbp, last_rbp,
    \* The launch script that is running.
    launcher,
    \* rbp: its pid (0: not running), whether it has the FIFO open, the FIFO,
    \* and the stick it shows ("empty": a mount without the stick's files).
    pid, open, fifo, shown,
    \* Uses of the bounds.
    plugs, sessions, respawns, faults,
    \* History: notify gave up on an rbp that was there.
    unheard

kernel  == <<port, mnt, bind>>
watcher == <<pc, dev, cur, rbp, last_rbp>>
player  == <<pid, open, fifo, shown>>
bounds  == <<plugs, sessions, respawns, faults>>
vars    == <<kernel, watcher, launcher, player, bounds, unheard>>

Init ==
    /\ port = None /\ mnt = None /\ bind = None
    /\ pc = "off" /\ dev = None /\ cur = None /\ rbp = 0 /\ last_rbp = 0
    /\ launcher = "idle"
    /\ pid = 0 /\ open = FALSE /\ fifo = <<>> /\ shown = None
    /\ plugs = 0 /\ sessions = 0 /\ respawns = 0 /\ faults = 0
    /\ unheard = FALSE

-----------------------------------------------------------------------------
(* The user and the kernel.                                                *)

Plug(d) ==
    /\ port = None /\ mnt # d /\ plugs < MaxPlugs
    /\ port' = d /\ plugs' = plugs + 1
    /\ UNCHANGED <<mnt, bind, watcher, launcher, player, sessions, respawns,
                   faults, unheard>>

Unplug ==
    /\ port # None /\ port' = None
    /\ UNCHANGED <<mnt, bind, watcher, launcher, player, bounds, unheard>>

\* Something is mounted in the chroot, and its files can be read.
Bound == bind # None
Files == Bound /\ bind = port

-----------------------------------------------------------------------------
(* rbp.                                                                    *)

\* A process that dies takes the unread FIFO contents with it.
RbpGone == pid' = 0 /\ open' = FALSE /\ fifo' = <<>> /\ shown' = None

\* It opens the FIFO O_RDWR some time after it started.
RbpOpen ==
    /\ pid # 0 /\ ~open /\ open' = TRUE
    /\ UNCHANGED <<kernel, watcher, launcher, pid, fifo, shown, bounds, unheard>>

\* It looks for the stick's files when it is told of a mount, and ignores a
\* mount that no umount precedes.
RbpRead ==
    /\ open /\ fifo # <<>> /\ fifo' = Tail(fifo)
    /\ shown' = IF Head(fifo) = "umount" THEN None
                ELSE IF shown # None THEN shown
                ELSE IF Files THEN bind ELSE "empty"
    /\ UNCHANGED <<kernel, watcher, launcher, pid, open, bounds, unheard>>

RbpExit ==
    /\ pid # 0 /\ RbpGone
    /\ UNCHANGED <<kernel, watcher, launcher, bounds, unheard>>

\* Someone restarts rbp by hand while the watcher runs.
RbpRespawn ==
    /\ respawns < MaxRespawns /\ pc # "off" /\ pid = 0
    /\ respawns' = respawns + 1
    /\ pid' = sessions + respawns + 1
    /\ UNCHANGED <<kernel, watcher, launcher, open, fifo, shown, plugs,
                   sessions, faults, unheard>>

-----------------------------------------------------------------------------
(* start-rb.sh and restart-knob2.sh.                                       *)

\* stop, or the kill -9 of start-rb.sh: only the process goes.
StopWatcher ==
    pc' = "off" /\ dev' = None /\ cur' = None /\ rbp' = 0 /\ last_rbp' = 0

\* Stale processes are killed, the watcher is stopped and rbp is started.
Launch(script) ==
    /\ launcher = "idle" /\ sessions < MaxSessions
    /\ sessions' = sessions + 1 /\ launcher' = script
    /\ StopWatcher
    /\ pid' = sessions + respawns + 1
    /\ open' = FALSE /\ fifo' = <<>> /\ shown' = None
    /\ UNCHANGED <<kernel, plugs, respawns, faults, unheard>>

\* The watcher is started when rbp has the FIFO open or, after thirty rounds
\* of half a second, without.  restart-knob2.sh ends here.
StartWatcher ==
    /\ launcher \in {"start-rb", "restart-knob2"}
    /\ launcher' = IF launcher = "start-rb" THEN "session" ELSE "idle"
    /\ pc' = "poll" /\ cur' = None /\ last_rbp' = pid
    /\ UNCHANGED <<kernel, dev, rbp, player, bounds, unheard>>

\* The session of start-rb.sh ends when rbp does.
EndSession ==
    /\ launcher = "session" /\ pid = 0
    /\ launcher' = "idle" /\ StopWatcher
    /\ UNCHANGED <<kernel, player, bounds, unheard>>

-----------------------------------------------------------------------------
(* usb-watch.sh.  Each action is one command that others can see.          *)

Watcher(from, to) ==
    /\ pc = from /\ pc' = to
    /\ UNCHANGED <<port, launcher, pid, open, shown>>

\* notify: without a reader the write fails after three seconds, or blocks
\* when there is no timeout tool; nobody looks at the result.
Notify(msg) ==
    \/ open /\ fifo' = Append(fifo, msg) /\ UNCHANGED unheard
    \/ /\ ~open /\ HasTimeout /\ UNCHANGED fifo
       /\ unheard' = (unheard \/ pid # 0)

Quiet == UNCHANGED <<fifo, bounds, unheard>>
Mounts == UNCHANGED <<mnt, bind>>
Loop == UNCHANGED <<dev, cur, rbp, last_rbp>>

\* What a round of the loop does, from what the port and ps say now.
BadDecide ==
    IF port = cur THEN "poll" ELSE IF cur # None THEN "detach" ELSE "attach"
Decide ==
    IF port # cur THEN IF cur # None THEN "detach" ELSE "attach"
    ELSE IF port # None /\ pid \notin {0, last_rbp} THEN "again" ELSE "poll"

Poll ==
    /\ Watcher("poll", Decide)
    /\ dev' = port /\ rbp' = pid
    /\ last_rbp' = IF Decide = "poll" THEN pid ELSE last_rbp
    /\ UNCHANGED cur /\ Quiet /\ Mounts

\* The end of a round.
Round(c) == cur' = c /\ last_rbp' = rbp /\ UNCHANGED <<dev, rbp>>

\* attach fails at one of its commands; the loop forgets the device.
Fail(from) ==
    /\ Watcher(from, "poll") /\ Round(None)
    /\ faults < MaxFaults /\ faults' = faults + 1
    /\ UNCHANGED <<fifo, plugs, sessions, respawns, unheard>> /\ Mounts

\* A device that is gone has no partition and cannot be mounted.
Gone(from) ==
    /\ dev # port /\ Watcher(from, "poll") /\ Round(None) /\ Quiet /\ Mounts

\* find_partition.
Attach ==
    \/ /\ dev = port /\ Watcher("attach", "mount") /\ Loop /\ Quiet /\ Mounts
    \/ Gone("attach") \/ Fail("attach")

\* Line 103: whatever is mounted on MNT stays there.
Mount ==
    \/ /\ mnt # None /\ Watcher("mount", "bind") /\ Loop /\ Quiet /\ Mounts
    \/ /\ mnt = None /\ dev = port /\ Watcher("mount", "bind")
       /\ mnt' = dev /\ UNCHANGED bind /\ Loop /\ Quiet
    \/ mnt = None /\ (Gone("mount") \/ Fail("mount"))

\* Lines 123-130.
BadBind ==
    /\ Watcher("bind", "umount") /\ Loop /\ Quiet
    /\ bind' \in {bind, IF bind = None THEN mnt ELSE bind} /\ UNCHANGED mnt
Bind ==
    \/ /\ Watcher("bind", "umount") /\ Loop /\ Quiet
       /\ bind' = IF bind = None THEN mnt ELSE bind
       /\ UNCHANGED mnt
    \/ bind = None /\ Fail("bind")

\* Lines 134-138, and lines 175-177 when rbp restarted.
TellUmount ==
    /\ Watcher("umount", "mounted") \/ Watcher("again", "mounted")
    /\ Notify("umount") /\ Loop /\ Mounts /\ UNCHANGED bounds

TellMount ==
    /\ Watcher("mounted", "poll") /\ Notify("mount") /\ Round(dev)
    /\ Mounts /\ UNCHANGED bounds

\* detach, then attach if another device is there.
BadDetachTell ==
    /\ Watcher("detach", "release") /\ Loop /\ Quiet /\ Mounts
DetachTell ==
    /\ Watcher("detach", "release") /\ Notify("umount") /\ Loop /\ Mounts
    /\ UNCHANGED bounds

BadDetachRelease ==
    /\ Watcher("release", "unmount") /\ Loop /\ Quiet /\ Mounts
DetachRelease ==
    /\ Watcher("release", "unmount")
    /\ bind' = None /\ UNCHANGED mnt /\ Loop /\ Quiet

BadDetachUnmount ==
    /\ Watcher("unmount", "attach") /\ Loop
    /\ mnt' = None /\ UNCHANGED bind /\ Quiet
DetachUnmount ==
    /\ \/ dev # None /\ Watcher("unmount", "attach") /\ Loop
       \/ dev = None /\ Watcher("unmount", "poll") /\ Round(None)
    /\ mnt' = None /\ UNCHANGED bind /\ Quiet

WatcherStep ==
    \/ Poll \/ Attach \/ Mount \/ Bind \/ TellUmount \/ TellMount
    \/ DetachTell \/ DetachRelease \/ DetachUnmount

-----------------------------------------------------------------------------
Next ==
    \/ \E d \in Devs : Plug(d)
    \/ Unplug
    \/ RbpOpen \/ RbpRead \/ RbpExit \/ RbpRespawn
    \/ \E script \in {"start-rb", "restart-knob2"} : Launch(script)
    \/ StartWatcher \/ EndSession
    \/ WatcherStep

Spec == Init /\ [][Next]_vars

\* Both scripts keep running, and rbp opens its FIFO and reads it.
FairSpec ==
    /\ Spec
    /\ WF_vars(WatcherStep) /\ WF_vars(StartWatcher) /\ WF_vars(EndSession)
    /\ WF_vars(RbpOpen) /\ WF_vars(RbpRead)

-----------------------------------------------------------------------------
(* Properties.                                                             *)

\* What rbp is promised of the stick.
ToldNow ==
    IF pc = "mounted" THEN "reset"
    ELSE IF pc = "release" THEN "warned"
    ELSE IF pc \in {"poll", "again", "detach"} /\ cur # None THEN "in" ELSE "out"
Lost == unheard \/ pid = 0
Notices ==
    INSTANCE StickNotices WITH
        bound <- Bound, files <- Files, told <- ToldNow, msgs <- fifo, lost <- Lost

TypeOK ==
    /\ {port, mnt, bind, dev, cur} \subseteq Devs \cup {None}
    /\ pc \in {"off", "poll", "attach", "mount", "bind", "umount", "mounted",
               "again", "detach", "release", "unmount"}
    /\ pc \in {"attach", "mount", "bind", "umount", "mounted", "again"}
         => dev \in Devs
    /\ {rbp, last_rbp, pid} \subseteq 0..MaxSessions+MaxRespawns
    /\ launcher \in {"idle", "start-rb", "restart-knob2", "session"}
    /\ open \in BOOLEAN /\ fifo \in Seq({"umount", "mount"})
    /\ shown \in Devs \cup {None, "empty"} /\ unheard \in BOOLEAN

\* The chroot never shows another stick than the one mounted on the host,
\* through every kill and failure of the watcher.
BindFollowsMount == bind # None => bind = mnt

\* usb-watch.sh:132, "bind must exist BEFORE rbp checks the stick's files":
\* rbp is told of a mount, at an attach or after its restart, only while
\* its chroot has the bind mount.
ToldAfterBind == pc = "mounted" => bind # None

\* No stick is taken from under rbp without a notice: the one it shows is
\* still bound in its chroot, or the umount is in its FIFO.
NoticeBeforeRelease ==
    shown \in Devs => bind = shown \/ \E i \in DOMAIN fifo : fifo[i] = "umount"

\* The scripts keep the order of notices and mounts that the thread inside rbp
\* relies on, wherever the watcher is killed, a command fails or rbp restarts:
\* an umount and a mount are told with the bind there, at an attach and after
\* a restart, and nothing is released that an umount did not announce.
NoticesKept == Notices!Spec

\* A mount that nobody will release: its stick was pulled after the watcher
\* that mounted it was stopped, or after its bind failed.
Stale == mnt # None /\ mnt # port /\ cur = None

\* A stick that stays in the port while the watcher and rbp run ends up on
\* rbp's screen, whatever was plugged, pulled, failed and restarted before,
\* as long as no stale mount is left behind and rbp hears what it is told.
StickIsShown ==
    [](~Stale /\ ~unheard) => \A d \in Devs :
        <>[](port = d /\ pc # "off" /\ pid # 0) => <>[](shown = d)

\* A stick that was pulled while the watcher runs is released, whether rbp
\* runs or not, and leaves the screen.
StickIsReleased ==
    [](~Stale /\ ~unheard) =>
        (<>[](port = None /\ pc # "off")
           => <>[](mnt = None /\ bind = None /\ shown = None))

\* usb-watch.sh:28, "stick swaps (detach old, attach new)": when the
\* watcher has settled on the stick in the port, that stick is mounted.
SwapMountsNewStick == pc = "poll" /\ cur # None /\ cur = port => mnt = port
=============================================================================
