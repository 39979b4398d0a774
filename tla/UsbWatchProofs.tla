--------------------------- MODULE UsbWatchProofs ---------------------------
(***************************************************************************)
(* Proofs of the safety of usb-watch.sh and the launch scripts, for every  *)
(* set of device names, every number of plugs, sessions and restarts of    *)
(* rbp, every failing command and every kill of the watcher.               *)
(* The second part is about usb_auto_thread of knobshim2.c, which lists    *)
(* the stick these scripts mount (UsbAuto).                                *)
(***************************************************************************)
EXTENDS UsbWatch, UsbAuto, TLAPS, SequenceTheorems

Msgs == {"umount", "mount"}
HasUmount(f) == \E i \in DOMAIN f : f[i] = "umount"
Last(f) == f[Len(f)]

Bounded ==
    /\ sessions \in 0..MaxSessions /\ respawns \in 0..MaxRespawns

\* What the watcher knows of the mounts at each of its commands.  While it
\* has a device (cur) the bind is there; it forgets cur with every failure.
Mounted ==
    /\ bind # None => bind = mnt
    /\ pc = "unmount" => bind = None
    /\ pc = "bind" => mnt # None
    /\ pc \in {"umount", "mounted", "again"} => bind # None
    /\ pc \in {"poll", "again", "detach"} /\ cur # None => bind # None

\* What rbp shows and what is on its way to it.  Between the notice and the
\* release of the mounts the last message is the umount, so that a mount rbp
\* has not read yet cannot bring the stick back.
Told ==
    /\ NoticeBeforeRelease
    /\ ~open => fifo = <<>> /\ shown = None
    /\ pc \in {"release", "unmount"} =>
           IF Len(fifo) = 0 THEN shown \notin Devs ELSE Last(fifo) = "umount"

Inv == TypeOK /\ Bounded /\ Mounted /\ Told

-----------------------------------------------------------------------------
(* The FIFO.                                                               *)

LEMMA Appended ==
    ASSUME NEW f \in Seq(Msgs), NEW m \in Msgs
    PROVE  /\ Append(f, m) \in Seq(Msgs) /\ Len(Append(f, m)) # 0
           /\ Last(Append(f, m)) = m
           /\ HasUmount(f) => HasUmount(Append(f, m))
           /\ m = "umount" => HasUmount(Append(f, m))
<1>1. /\ Append(f, m) \in Seq(Msgs) /\ Len(Append(f, m)) = Len(f) + 1
      /\ \A i \in 1..Len(f) : Append(f, m)[i] = f[i]
      /\ Append(f, m)[Len(f) + 1] = m
  OBVIOUS
<1>2. /\ DOMAIN f = 1..Len(f) /\ DOMAIN Append(f, m) = 1..Len(f) + 1
      /\ Len(f) \in Nat
  BY <1>1
<1>3. QED
  BY <1>1, <1>2 DEF HasUmount, Last

LEMMA Taken ==
    ASSUME NEW f \in Seq(Msgs), f # <<>>
    PROVE  /\ Tail(f) \in Seq(Msgs) /\ Head(f) \in Msgs
           /\ Head(f) # "umount" /\ HasUmount(f) => HasUmount(Tail(f))
           /\ Len(Tail(f)) # 0 => Last(Tail(f)) = Last(f)
           /\ Len(Tail(f)) = 0 => Head(f) = Last(f)
<1>1. /\ Tail(f) \in Seq(Msgs) /\ Head(f) \in Msgs /\ Head(f) = f[1]
      /\ Len(f) \in Nat \ {0} /\ Len(Tail(f)) = Len(f) - 1
      /\ \A i \in 1..Len(f)-1 : Tail(f)[i] = f[i+1]
  OBVIOUS
<1>2. DOMAIN f = 1..Len(f) /\ DOMAIN Tail(f) = 1..Len(f)-1
  BY <1>1
<1>3. ASSUME Head(f) # "umount", HasUmount(f) PROVE HasUmount(Tail(f))
  <2>1. PICK i \in 1..Len(f) : f[i] = "umount"
    BY <1>2, <1>3 DEF HasUmount
  <2>2. i # 1 /\ i - 1 \in 1..Len(f)-1
    BY <1>1, <1>3, <2>1
  <2>3. Tail(f)[i-1] = "umount"
    BY <1>1, <2>1, <2>2
  <2>4. QED
    BY <1>2, <2>2, <2>3 DEF HasUmount
<1>4. Len(Tail(f)) # 0 => Last(Tail(f)) = Last(f)
  <2>1. Len(Tail(f)) # 0 => Len(f) - 1 \in 1..Len(f)-1
    BY <1>1
  <2>2. QED
    BY <1>1, <2>1 DEF Last
<1>5. ASSUME Len(Tail(f)) = 0 PROVE Head(f) = Last(f)
  <2>1. Len(f) - 1 = 0 /\ Len(f) \in Nat
    BY <1>1, <1>5
  <2>2. Len(f) = 1
    BY <2>1
  <2>3. QED
    BY <1>1, <2>2 DEF Last
<1>6. QED
  BY <1>1, <1>3, <1>4, <1>5

-----------------------------------------------------------------------------
(* The steps.                                                              *)

LEMMA Constants ==
    /\ MaxSessions \in Nat /\ MaxRespawns \in Nat
    /\ 0 \in 0..MaxSessions+MaxRespawns /\ <<>> \in Seq({"umount", "mount"})
    /\ \A m \in 0..MaxSessions, n \in 0..MaxRespawns :
           m < MaxSessions \/ n < MaxRespawns => m + n + 1 \in 0..MaxSessions+MaxRespawns
<1>1. MaxSessions \in Nat /\ MaxRespawns \in Nat
  BY UsbAssumption
<1>2. QED
  BY <1>1

LEMMA InitInv == Init => Inv
<1> SUFFICES ASSUME Init PROVE Inv
  OBVIOUS
<1>1. Bounded
  BY Constants DEF Init, Bounded
<1>a. TypeOK
  BY Constants DEF Init, TypeOK
<1>2. Mounted /\ Told
  BY UsbAssumption DEF Init, Mounted, Told, NoticeBeforeRelease
<1>3. QED
  BY <1>1, <1>a, <1>2 DEF Inv

\* The port is in none of the parts but the types.
LEMMA UserKeeps ==
    ASSUME Inv, (\E d \in Devs : Plug(d)) \/ Unplug
    PROVE  Inv'
<1>1. TypeOK' /\ Bounded'
  BY DEF Inv, TypeOK, Bounded, Plug, Unplug, watcher, player, bounds
<1>2. Mounted' /\ Told'
  BY DEF Inv, Mounted, Told, NoticeBeforeRelease, Plug, Unplug, watcher, player
<1>3. QED
  BY <1>1, <1>2 DEF Inv

\* What rbp shows when it reads a mount is bound.
LEMMA ReadKeeps == ASSUME Inv, RbpRead PROVE Inv'
<1>1. /\ fifo \in Seq(Msgs) /\ fifo # <<>> /\ fifo' = Tail(fifo) /\ open
      /\ UNCHANGED <<kernel, watcher, launcher, pid, open, bounds, unheard>>
  BY DEF RbpRead, Inv, TypeOK, Msgs
<1>2. shown' = IF Head(fifo) = "umount" THEN None
               ELSE IF shown # None THEN shown
               ELSE IF bind # None /\ bind = port THEN bind ELSE "empty"
  BY DEF RbpRead, Files, Bound
<1>3. TypeOK' /\ Bounded' /\ Mounted'
  BY <1>1, <1>2, Taken DEF Inv, TypeOK, Bounded, Mounted, kernel, watcher, bounds, Msgs
<1>4. NoticeBeforeRelease'
  <2> SUFFICES ASSUME shown' \in Devs PROVE bind = shown' \/ HasUmount(fifo')
    BY <1>1 DEF NoticeBeforeRelease, kernel, HasUmount
  <2>1. Head(fifo) # "umount" /\ (shown' = shown \/ shown' = bind)
    BY <1>2, UsbAssumption
  <2>2. CASE shown' = shown
    <3>1. bind = shown \/ HasUmount(fifo)
      BY <2>2 DEF Inv, Told, NoticeBeforeRelease, HasUmount
    <3>2. QED
      BY <1>1, <2>1, <2>2, <3>1, Taken
  <2>3. QED
    BY <2>1, <2>2
<1>5. pc' \in {"release", "unmount"} =>
          IF Len(fifo') = 0 THEN shown' \notin Devs ELSE Last(fifo') = "umount"
  <2> SUFFICES ASSUME pc \in {"release", "unmount"}
               PROVE  IF Len(fifo') = 0 THEN shown' \notin Devs ELSE Last(fifo') = "umount"
    BY <1>1 DEF watcher
  <2>1. Last(fifo) = "umount"
    BY <1>1, EmptySeq DEF Inv, Told
  <2>2. QED
    BY <1>1, <1>2, <2>1, Taken, UsbAssumption
<1>6. QED
  BY <1>1, <1>3, <1>4, <1>5 DEF Inv, Told

LEMMA PlayerKeeps == ASSUME Inv, RbpOpen \/ RbpExit \/ RbpRespawn PROVE Inv'
<1>1. TypeOK' /\ Bounded'
  <2>1. CASE RbpOpen
    BY <2>1 DEF Inv, TypeOK, Bounded, RbpOpen, kernel, watcher, bounds
  <2>2. CASE RbpExit
    BY <2>2, Constants DEF Inv, TypeOK, Bounded, RbpExit, RbpGone, kernel, watcher, bounds
  <2>3. CASE RbpRespawn
    <3>1. pid' \in 0..MaxSessions+MaxRespawns /\ Bounded'
      BY <2>3, Constants DEF Inv, Bounded, RbpRespawn
    <3>2. QED
      BY <2>3, <3>1 DEF Inv, TypeOK, RbpRespawn, kernel, watcher
  <2>4. QED
    BY <2>1, <2>2, <2>3
<1>2. Mounted'
  BY DEF Inv, Mounted, RbpOpen, RbpExit, RbpRespawn, kernel, watcher
<1>3. Told'
  BY UsbAssumption DEF Inv, Told, NoticeBeforeRelease, RbpOpen, RbpExit, RbpRespawn,
     RbpGone, kernel, watcher
<1>4. QED
  BY <1>1, <1>2, <1>3 DEF Inv

\* A kill of the watcher loses what it knows, not what is mounted.
LEMMA ScriptsKeep ==
    ASSUME Inv,
           (\E s \in {"start-rb", "restart-knob2"} : Launch(s)) \/ StartWatcher \/ EndSession
    PROVE  Inv'
<1>1. TypeOK' /\ Bounded'
  <2>1. ASSUME NEW s \in {"start-rb", "restart-knob2"}, Launch(s) PROVE TypeOK' /\ Bounded'
    <3>1. pid' \in 0..MaxSessions+MaxRespawns /\ Bounded'
      BY <2>1, Constants DEF Inv, Bounded, Launch
    <3>2. QED
      BY <2>1, <3>1, Constants DEF Inv, TypeOK, Launch, StopWatcher, kernel
  <2>2. CASE StartWatcher
    BY <2>2 DEF Inv, TypeOK, Bounded, StartWatcher, kernel, player, bounds
  <2>3. CASE EndSession
    BY <2>3, Constants DEF Inv, TypeOK, Bounded, EndSession, StopWatcher, kernel, player, bounds
  <2>4. QED
    BY <2>1, <2>2, <2>3
<1>2. Mounted'
  BY DEF Inv, Mounted, Launch, StartWatcher, EndSession, StopWatcher, kernel
<1>3. Told'
  BY UsbAssumption DEF Inv, Told, NoticeBeforeRelease, Launch, StartWatcher, EndSession,
     StopWatcher, kernel, player
<1>4. QED
  BY <1>1, <1>2, <1>3 DEF Inv

\* The commands that do not write to the FIFO.
Silent == Poll \/ Attach \/ Mount \/ Bind \/ DetachRelease \/ DetachUnmount

LEMMA SilentKeeps == ASSUME Inv, Silent PROVE Inv'
<1>0. /\ UNCHANGED <<port, launcher, pid, open, shown, fifo, unheard>>
      /\ UNCHANGED <<plugs, sessions, respawns>>
  BY DEF Silent, Poll, Attach, Mount, Bind, DetachRelease, DetachUnmount, Gone, Fail,
     Watcher, Quiet, bounds
<1>1. TypeOK' /\ Bounded'
  <2>1. Bounded'
    BY <1>0 DEF Inv, Bounded
  <2>2. CASE Poll
    BY <1>0, <2>1, <2>2 DEF Inv, TypeOK, Poll, Decide, Watcher, Mounts
  <2>3. CASE Attach
    BY <1>0, <2>1, <2>3 DEF Inv, TypeOK, Attach, Gone, Fail, Round, Watcher, Mounts, Loop
  <2>4. CASE Mount
    BY <1>0, <2>1, <2>4 DEF Inv, TypeOK, Mount, Gone, Fail, Round, Watcher, Mounts, Loop
  <2>5. CASE Bind
    BY <1>0, <2>1, <2>5 DEF Inv, TypeOK, Bind, Fail, Round, Watcher, Mounts, Loop
  <2>6. CASE DetachRelease \/ DetachUnmount
    BY <1>0, <2>1, <2>6 DEF Inv, TypeOK, DetachRelease, DetachUnmount, Round, Watcher, Loop
  <2>7. QED
    BY <2>1, <2>2, <2>3, <2>4, <2>5, <2>6 DEF Silent
<1>2. Mounted'
  <2>1. CASE Poll
    BY <2>1 DEF Inv, Mounted, Poll, Decide, Watcher, Mounts
  <2>2. CASE Attach
    BY <2>2 DEF Inv, Mounted, Attach, Gone, Fail, Round, Watcher, Mounts, Loop
  <2>3. CASE Mount
    BY <2>3, UsbAssumption DEF Inv, TypeOK, Mounted, Mount, Gone, Fail, Round, Watcher,
       Mounts, Loop
  <2>4. CASE Bind
    BY <2>4 DEF Inv, Mounted, Bind, Fail, Round, Watcher, Mounts, Loop
  <2>5. CASE DetachRelease \/ DetachUnmount
    BY <2>5 DEF Inv, Mounted, DetachRelease, DetachUnmount, Round, Watcher, Loop
  <2>6. QED
    BY <2>1, <2>2, <2>3, <2>4, <2>5 DEF Silent
<1>3. NoticeBeforeRelease'
  <2>1. CASE DetachRelease
    <3>1. shown \in Devs => HasUmount(fifo)
      <4>1. pc = "release" /\ fifo \in Seq(Msgs)
        BY <2>1 DEF DetachRelease, Watcher, Inv, TypeOK, Msgs
      <4>2. shown \in Devs => Len(fifo) # 0 /\ Last(fifo) = "umount"
        BY <4>1 DEF Inv, Told
      <4>3. Len(fifo) # 0 => Len(fifo) \in DOMAIN fifo
        BY <4>1
      <4>4. QED
        BY <4>2, <4>3 DEF HasUmount, Last
    <3>2. QED
      BY <1>0, <3>1 DEF NoticeBeforeRelease, HasUmount
  <2>2. CASE Bind
    BY <1>0, <2>2, UsbAssumption DEF Bind, Fail, Mounts, Inv, Told, NoticeBeforeRelease
  <2>3. CASE Poll \/ Attach \/ Mount \/ DetachUnmount
    <3>1. bind' = bind
      BY <2>3 DEF Poll, Attach, Mount, DetachUnmount, Gone, Fail, Mounts
    <3>2. QED
      BY <1>0, <3>1 DEF Inv, Told, NoticeBeforeRelease
  <2>4. QED
    BY <2>1, <2>2, <2>3 DEF Silent
<1>4. pc' \in {"release", "unmount"} => pc = "release"
  BY DEF Silent, Poll, Decide, Attach, Mount, Bind, DetachRelease, DetachUnmount, Gone,
     Fail, Watcher
<1>5. QED
  BY <1>0, <1>1, <1>2, <1>3, <1>4 DEF Inv, Told

\* The commands that notify rbp.
LEMMA NotifyKeeps == ASSUME Inv, TellUmount \/ TellMount \/ DetachTell PROVE Inv'
<1>0. /\ UNCHANGED <<mnt, bind, port, launcher, pid, open, shown, bounds>>
      /\ fifo \in Seq(Msgs)
  BY DEF TellUmount, TellMount, DetachTell, Watcher, Mounts, Inv, TypeOK, Msgs
<1>1. PICK m \in Msgs : Notify(m) /\ (DetachTell => m = "umount")
  <2>1. CASE TellMount
    BY <2>1 DEF TellMount, DetachTell, Watcher, Msgs
  <2>2. CASE TellUmount \/ DetachTell
    BY <2>2 DEF TellUmount, DetachTell, Msgs
  <2>3. QED
    BY <2>1, <2>2
<1>2. fifo' \in Seq(Msgs) /\ (HasUmount(fifo) => HasUmount(fifo'))
      /\ (fifo' = fifo \/ (open /\ Len(fifo') # 0 /\ Last(fifo') = m))
      /\ (open => Len(fifo') # 0 /\ Last(fifo') = m)
  BY <1>0, <1>1, Appended DEF Notify
<1>3. TypeOK' /\ Bounded'
  <2>1. unheard' \in BOOLEAN
    BY <1>1 DEF Notify, Inv, TypeOK
  <2>2. QED
    BY <1>0, <1>2, <2>1 DEF Inv, TypeOK, Bounded, TellUmount, TellMount, DetachTell, Watcher,
       Round, Loop, bounds, Msgs
<1>4. Mounted'
  BY <1>0 DEF Inv, Mounted, TellUmount, TellMount, DetachTell, Watcher, Round, Loop
<1>5. NoticeBeforeRelease'
  BY <1>0, <1>2 DEF Inv, Told, NoticeBeforeRelease, HasUmount
<1>6. pc' \in {"release", "unmount"} => DetachTell
  BY DEF TellUmount, TellMount, Watcher
<1>7. QED
  BY <1>0, <1>1, <1>2, <1>3, <1>4, <1>5, <1>6, UsbAssumption DEF Inv, Told

LEMMA Invariance == Spec => []Inv
<1>1. Inv /\ [Next]_vars => Inv'
  <2> SUFFICES ASSUME Inv, [Next]_vars PROVE Inv'
    OBVIOUS
  <2>1. CASE UNCHANGED vars
    BY <2>1 DEF Inv, TypeOK, Bounded, Mounted, Told, NoticeBeforeRelease, vars, kernel,
       watcher, player, bounds
  <2>2. CASE WatcherStep
    BY <2>2, SilentKeeps, NotifyKeeps DEF WatcherStep, Silent
  <2>3. QED
    BY <2>1, <2>2, UserKeeps, ReadKeeps, PlayerKeeps, ScriptsKeep DEF Next
<1>2. QED
  BY InitInv, <1>1, PTL DEF Spec

-----------------------------------------------------------------------------
(* The results.                                                            *)

\* Every variable of the scripts, the kernel and rbp keeps its type.
THEOREM UsbTypes == Spec => []TypeOK
<1>1. Inv => TypeOK
  BY DEF Inv
<1>2. QED
  BY Invariance, <1>1, PTL

\* The chroot never shows another stick than the host's mount, whenever the
\* watcher is killed and whichever of its commands fails (usb-watch.sh).
THEOREM BindIsTheMount == Spec => []BindFollowsMount
<1>1. Inv => BindFollowsMount
  BY DEF Inv, Mounted, BindFollowsMount
<1>2. QED
  BY Invariance, <1>1, PTL

\* rbp is told of a mount only while its chroot has the bind mount
\* (attach and the respawn branch of usb-watch.sh).
THEOREM BindBeforeMountNotice == Spec => []ToldAfterBind
<1>1. Inv => ToldAfterBind
  BY DEF Inv, Mounted, ToldAfterBind
<1>2. QED
  BY Invariance, <1>1, PTL

\* No stick is released under rbp before the umount is in its FIFO (detach
\* of usb-watch.sh).
THEOREM NoticeComesFirst == Spec => []NoticeBeforeRelease
<1>1. Inv => NoticeBeforeRelease
  BY DEF Inv, Told
<1>2. QED
  BY Invariance, <1>1, PTL

-----------------------------------------------------------------------------
(* The promise to rbp: every step of the scripts, the kernel and rbp is a  *)
(* step of StickNotices or changes nothing there.                          *)

\* The watcher detaches and tells again only what it has attached; a launch
\* script has stopped it; nobody has the FIFO open when rbp does not run.
Attached ==
    /\ pc \in {"again", "detach"} => cur # None
    /\ launcher \in {"start-rb", "restart-knob2"} => pc = "off"
    /\ pid = 0 => ~open

LEMMA AttachedKeeps == ASSUME Inv, Attached, [Next]_vars PROVE Attached'
<1>1. CASE UNCHANGED vars
  BY <1>1 DEF Attached, vars, watcher, player
<1>2. CASE (\E d \in Devs : Plug(d)) \/ Unplug
  BY <1>2 DEF Attached, Plug, Unplug, watcher, player
<1>3. CASE RbpOpen \/ RbpRead \/ RbpExit \/ RbpRespawn
  <2>1. RbpRespawn => pid' # 0
    BY DEF RbpRespawn, Inv, Bounded
  <2>2. QED
    BY <1>3, <2>1 DEF Attached, RbpOpen, RbpRead, RbpExit, RbpGone, RbpRespawn, watcher
<1>4. CASE (\E s \in {"start-rb", "restart-knob2"} : Launch(s)) \/ StartWatcher \/ EndSession
  BY <1>4 DEF Attached, Launch, StartWatcher, EndSession, StopWatcher, player
<1>5. CASE WatcherStep
  <2>1. pc # "off" /\ UNCHANGED <<launcher, pid, open>>
    BY <1>5 DEF WatcherStep, Poll, Attach, Mount, Bind, TellUmount, TellMount, DetachTell,
       DetachRelease, DetachUnmount, Gone, Fail, Watcher
  <2>2. pc' \in {"again", "detach"} => cur' # None
    <3>1. CASE Poll
      BY <3>1 DEF Poll, Decide, Watcher
    <3>2. CASE WatcherStep /\ ~Poll
      BY <3>2 DEF WatcherStep, Attach, Mount, Bind, TellUmount, TellMount, DetachTell,
         DetachRelease, DetachUnmount, Gone, Fail, Watcher
    <3>3. QED
      BY <1>5, <3>1, <3>2
  <2>3. QED
    BY <2>1, <2>2 DEF Attached
<1>6. QED
  BY <1>1, <1>2, <1>3, <1>4, <1>5 DEF Next

\* A step in which rbp is told nothing and neither opens nor reads.
Unseen == UNCHANGED <<bind, port, ToldNow, open, fifo, Lost>>

LEMMA UnseenStutters == ASSUME Unseen PROVE UNCHANGED Notices!vars
BY DEF Unseen, Notices!vars, Bound, Files

\* notify reaches rbp, or rbp has missed the message.
LEMMA NotifyTells ==
    ASSUME NEW m, Notify(m), UNCHANGED <<bind, port, open, pid>>
    PROVE  Notices!Tell(m)
<1>1. UNCHANGED <<Bound, Files, open>>
  BY DEF Bound, Files
<1>2. CASE open
  <2>1. Lost' = Lost /\ fifo' = Append(fifo, m)
    BY <1>2 DEF Notify, Lost
  <2>2. QED
    BY <1>1, <1>2, <2>1 DEF Notices!Tell
<1>3. CASE ~open
  <2>1. Lost' = TRUE /\ fifo' = fifo
    BY <1>3 DEF Notify, Lost
  <2>2. QED
    BY <1>1, <1>3, <2>1 DEF Notices!Tell
<1>4. QED
  BY <1>2, <1>3

LEMMA UserStep ==
    ASSUME Inv, (\E d \in Devs : Plug(d)) \/ Unplug
    PROVE  [Notices!Next]_Notices!vars
<1>1. UNCHANGED <<bind, ToldNow, open, fifo, Lost>>
  BY DEF Plug, Unplug, ToldNow, Lost, watcher, player
<1>2. CASE \E d \in Devs : Plug(d)
  <2>1. ~Files /\ ~Files'
    BY <1>2, UsbAssumption DEF Plug, Inv, Mounted, Files, Bound
  <2>2. Files' = Files /\ Bound' = Bound
    BY <1>1, <2>1 DEF Files, Bound
  <2>3. QED
    BY <1>1, <2>2 DEF Notices!vars
<1>3. CASE Unplug
  <2>1. ~Files'
    BY <1>3 DEF Unplug, Files, Bound
  <2>2. Bound' = Bound
    BY <1>1 DEF Bound
  <2>3. CASE Files
    BY <1>1, <2>1, <2>2, <2>3 DEF Notices!Next, Notices!Pull
  <2>4. CASE ~Files
    <3>1. Files' = Files
      BY <2>1, <2>4 DEF Files, Bound
    <3>2. QED
      BY <1>1, <2>2, <3>1 DEF Notices!vars
  <2>5. QED
    BY <2>3, <2>4
<1>4. QED
  BY <1>2, <1>3

LEMMA PlayerStep ==
    ASSUME Inv, Attached, RbpOpen \/ RbpRead \/ RbpExit \/ RbpRespawn
    PROVE  Notices!Next
<1>1. UNCHANGED <<Bound, Files, ToldNow>>
  BY DEF RbpOpen, RbpRead, RbpExit, RbpRespawn, Bound, Files, ToldNow, kernel, watcher
<1>2. CASE RbpOpen
  BY <1>1, <1>2 DEF RbpOpen, Notices!Next, Notices!Open, Lost
<1>3. CASE RbpRead
  BY <1>1, <1>3 DEF RbpRead, Notices!Next, Notices!Read, Lost
<1>4. CASE RbpExit \/ RbpRespawn
  <2>1. open' = FALSE /\ fifo' = <<>>
    BY <1>4 DEF RbpExit, RbpGone, RbpRespawn, Attached, Inv, TypeOK, Told
  <2>2. Lost' \in BOOLEAN
    BY <1>4 DEF Lost, RbpExit, RbpRespawn, Inv, TypeOK
  <2>3. QED
    BY <1>1, <2>1, <2>2 DEF Notices!Next, Notices!Restart
<1>5. QED
  BY <1>2, <1>3, <1>4

LEMMA ScriptsStep ==
    ASSUME Inv, Attached,
           (\E s \in {"start-rb", "restart-knob2"} : Launch(s)) \/ StartWatcher \/ EndSession
    PROVE  [Notices!Next]_Notices!vars
<1>1. UNCHANGED <<bind, port>>
  BY DEF Launch, StartWatcher, EndSession, kernel
<1>2. CASE StartWatcher
  <2>1. ToldNow' = ToldNow
    BY <1>2 DEF StartWatcher, Attached, ToldNow
  <2>2. QED
    BY <1>1, <1>2, <2>1, UnseenStutters DEF StartWatcher, Unseen, Lost, player
<1>3. CASE (\E s \in {"start-rb", "restart-knob2"} : Launch(s)) \/ EndSession
  <2>1. open' = FALSE /\ fifo' = <<>> /\ ToldNow' = "out"
    BY <1>3 DEF Launch, EndSession, StopWatcher, ToldNow, player, Attached, Inv, TypeOK, Told
  <2>2. Lost' \in BOOLEAN
    BY <1>3 DEF Lost, Launch, EndSession, Inv, TypeOK
  <2>3. QED
    BY <1>1, <2>1, <2>2 DEF Notices!Next, Notices!Restart, Bound, Files
<1>4. QED
  BY <1>2, <1>3

\* A command that fails leaves rbp with what it was told.
LEMMA SilentStep ==
    ASSUME Inv, Attached, Silent
    PROVE  [Notices!Next]_Notices!vars
<1>1. UNCHANGED <<port, pid, open, fifo, unheard>>
  BY DEF Silent, Poll, Attach, Mount, Bind, DetachRelease, DetachUnmount, Gone, Fail,
     Watcher, Quiet
<1>2. Lost' = Lost
  BY <1>1 DEF Lost
<1>3. CASE Poll
  <2>1. bind' = bind /\ ToldNow' = ToldNow
    BY <1>3 DEF Poll, Decide, Watcher, Mounts, ToldNow
  <2>2. QED
    BY <1>1, <1>2, <2>1, UnseenStutters DEF Unseen
<1>4. CASE Attach \/ Mount \/ DetachUnmount
  <2>1. bind' = bind /\ ToldNow' = ToldNow
    BY <1>4 DEF Attach, Mount, DetachUnmount, Gone, Fail, Watcher, Mounts, Loop, Round, ToldNow
  <2>2. QED
    BY <1>1, <1>2, <2>1, UnseenStutters DEF Unseen
<1>5. CASE Bind
  <2>1. ToldNow = "out" /\ ToldNow' = "out"
    BY <1>5 DEF Bind, Fail, Watcher, Loop, Round, ToldNow
  <2>2. CASE bind' = bind
    BY <1>1, <1>2, <2>1, <2>2, UnseenStutters DEF Unseen
  <2>3. CASE bind' # bind
    <3>1. ~Bound /\ Bound'
      BY <1>5, <2>3 DEF Bind, Fail, Mounts, Inv, Mounted, Watcher, Bound
    <3>2. ~Files /\ Files' \in BOOLEAN
      BY <3>1 DEF Files
    <3>3. QED
      BY <1>1, <1>2, <2>1, <3>1, <3>2 DEF Notices!Next, Notices!Show
  <2>4. QED
    BY <2>2, <2>3
<1>6. CASE DetachRelease
  <2>1. ToldNow = "warned" /\ ToldNow' = "out"
    BY <1>6 DEF DetachRelease, Watcher, ToldNow
  <2>2. ~Bound' /\ ~Files'
    BY <1>6 DEF DetachRelease, Bound, Files
  <2>3. QED
    BY <1>1, <1>2, <2>1, <2>2 DEF Notices!Next, Notices!Release
<1>7. QED
  BY <1>3, <1>4, <1>5, <1>6 DEF Silent

LEMMA NotifyStep ==
    ASSUME Inv, Attached, TellUmount \/ TellMount \/ DetachTell
    PROVE  Notices!Next
<1>1. UNCHANGED <<bind, port, open, pid>>
  BY DEF TellUmount, TellMount, DetachTell, Watcher, Mounts
<1>2. CASE TellUmount
  <2>1. ToldNow \in {"out", "in"} /\ ToldNow' = "reset" /\ Bound /\ Notify("umount")
    BY <1>2 DEF TellUmount, Watcher, ToldNow, Bound, Inv, Mounted
  <2>2. QED
    BY <1>1, <2>1, NotifyTells DEF Notices!Next, Notices!Reset
<1>3. CASE TellMount
  <2>1. ToldNow = "reset" /\ Bound /\ Notify("mount")
    BY <1>3 DEF TellMount, Watcher, ToldNow, Bound, Inv, Mounted
  <2>2. ToldNow' = "in"
    BY <1>3, UsbAssumption DEF TellMount, Watcher, Round, ToldNow, Inv, TypeOK
  <2>3. QED
    BY <1>1, <2>1, <2>2, NotifyTells DEF Notices!Next, Notices!Mount
<1>4. CASE DetachTell
  <2>1. ToldNow = "in" /\ ToldNow' = "warned" /\ Notify("umount")
    BY <1>4 DEF DetachTell, Watcher, ToldNow, Attached
  <2>2. QED
    BY <1>1, <2>1, NotifyTells DEF Notices!Next, Notices!Warn
<1>5. QED
  BY <1>2, <1>3, <1>4

\* usb-watch.sh and the launch scripts keep the promise that the thread inside
\* rbp relies on: umount and mount are told in this order and with the bind
\* there, nothing is released without an umount, and a message is in the FIFO
\* or rbp is known to have missed it.
THEOREM WatchKeepsPromise == Spec => NoticesKept
<1>1. Init => Attached
  BY DEF Init, Attached
<1>2. Init => Notices!Init
  <2>1. Init => ~Bound /\ ~Files /\ ToldNow = "out" /\ Lost = TRUE
    BY DEF Init, Bound, Files, ToldNow, Lost
  <2>2. QED
    BY <2>1 DEF Init, Notices!Init
<1>3. Inv /\ Attached /\ [Next]_vars => [Notices!Next]_Notices!vars
  <2> SUFFICES ASSUME Inv, Attached, [Next]_vars
               PROVE  [Notices!Next]_Notices!vars
    OBVIOUS
  <2>1. CASE UNCHANGED vars
    BY <2>1, UnseenStutters DEF Unseen, ToldNow, Lost, vars, kernel, watcher, player
  <2>2. CASE WatcherStep
    BY <2>2, SilentStep, NotifyStep DEF WatcherStep, Silent
  <2>3. QED
    BY <2>1, <2>2, UserStep, PlayerStep, ScriptsStep DEF Next
<1>4. QED
  BY Invariance, AttachedKeeps, <1>1, <1>2, <1>3, PTL DEF Spec, NoticesKept, Notices!Spec

-----------------------------------------------------------------------------
(* usb_auto_thread, for any number of sticks, of changes of the browse     *)
(* mode and of restarts, under the promise kept above.                     *)

\* The stores of the thread.
Stores ==
    { <<"usb1", 0>>, <<"usb1", 2>>, <<"usb2", 0>>, <<"media", 0>>, <<"media", 2>>,
      <<"dev", 3>>, <<"caution", 0>>, <<"refresh", 1>> }

Asked == mem.refresh = 1 \/ refreshed \in pending

\* What has changed on the screen, or will by a store that is pending, has its
\* redraw, unless a redraw raced with it.  One that has copied the words and
\* is about to take back the request leaves nothing behind.
ListingInv ==
    /\ AutoTypeOK /\ pending \subseteq Stores
    /\ ~raced /\ (stale \/ Undrawn(pending)) => redraw = "taken" \/ Asked
    /\ ~raced /\ redraw = "copied" => ~stale /\ ~Undrawn(pending)

\* The words the thread and rbp share.
Words ==
    [usb1 : {0, 2}, usb2 : {0, 1}, media : {0, 2, 4, 6},
     mode : {LIST, SOURCE}, dev : {0, DEV_USB1},
     caution : {0, 1}, refresh : {0, 1}]

\* What rbp sees of the promise.
Seen ==
    /\ {bound, files, listening, lost} \subseteq BOOLEAN /\ (files => bound)
    /\ told \in {"out", "reset", "in", "warned"} /\ msgs \in Seq(Msgs)

LEMMA SeenKeeps == ASSUME Seen, Watch!Next PROVE Seen'
<1>0. /\ bound \in BOOLEAN /\ files \in BOOLEAN /\ listening \in BOOLEAN /\ lost \in BOOLEAN
      /\ msgs \in Seq(Msgs) /\ <<>> \in Seq(Msgs)
  BY DEF Seen
<1>1. ASSUME NEW m \in Msgs, Watch!Tell(m)
      PROVE  msgs' \in Seq(Msgs) /\ lost' \in BOOLEAN /\ UNCHANGED <<bound, files, listening>>
  <2>1. Append(msgs, m) \in Seq(Msgs)
    BY <1>0
  <2>2. QED
    BY <1>0, <1>1, <2>1 DEF Watch!Tell
<1>2. CASE Watch!Reset \/ Watch!Mount \/ Watch!Warn
  <2>1. PICK m \in Msgs : Watch!Tell(m)
    BY <1>2 DEF Watch!Reset, Watch!Mount, Watch!Warn, Msgs
  <2>2. told' \in {"out", "reset", "in", "warned"}
    BY <1>2 DEF Watch!Reset, Watch!Mount, Watch!Warn
  <2>3. QED
    BY <1>1, <2>1, <2>2 DEF Seen
<1>3. CASE Watch!Show \/ Watch!Pull \/ Watch!Release \/ Watch!Open
  <2>1. bound' \in BOOLEAN /\ files' \in BOOLEAN /\ listening' \in BOOLEAN
    BY <1>0, <1>3 DEF Watch!Show, Watch!Pull, Watch!Release,
       Watch!Open
  <2>2. (files' => bound') /\ told' \in {told, "out"} /\ UNCHANGED <<msgs, lost>>
    BY <1>0, <1>3 DEF Watch!Show, Watch!Pull, Watch!Release,
       Watch!Open, Seen
  <2>3. QED
    BY <1>0, <2>1, <2>2 DEF Seen
<1>4. CASE Watch!Read
  BY <1>4 DEF Watch!Read, Seen
<1>5. CASE Watch!Restart
  BY <1>0, <1>5 DEF Watch!Restart, Seen
<1>6. QED
  BY <1>2, <1>3, <1>4, <1>5 DEF Watch!Next

LEMMA ListingInit == AutoInit => ListingInv
<1> SUFFICES ASSUME AutoInit PROVE ListingInv
  OBVIOUS
<1>1. mem \in Words
  BY DEF AutoInit, Cleared, Words
<1>2. /\ events \in 0..MaxEvents /\ msgs \in Seq({"umount", "mount"})
      /\ pending \subseteq (DOMAIN mem) \X (0..3)
  BY UsbAutoAssumption DEF AutoInit, Watch!Init
<1>3. AutoTypeOK
  BY <1>1, <1>2 DEF AutoInit, Watch!Init, AutoTypeOK, Words
<1>4. pending \subseteq Stores /\ ~Undrawn(pending) /\ ~stale
  BY DEF AutoInit, Undrawn
<1>5. QED
  BY <1>3, <1>4 DEF ListingInv

\* They keep their types with every store of the thread.
LEMMA StoredWords ==
    ASSUME NEW w \in Words, NEW s \in Stores
    PROVE  /\ [w EXCEPT ![s[1]] = s[2]] \in Words
           /\ s[1] \notin Shown => ~Differ([w EXCEPT ![s[1]] = s[2]], w)
           /\ [w EXCEPT ![s[1]] = s[2]].refresh \in {w.refresh, 1}
           /\ s = refreshed => [w EXCEPT ![s[1]] = s[2]].refresh = 1
  BY DEF Words, Stores, Shown, Differ, refreshed, DEV_USB1

LEMMA StoreKeeps == ASSUME ListingInv, NEW s \in pending, Store(s) PROVE ListingInv'
<1>1. /\ mem \in Words /\ s \in Stores /\ pending \subseteq Stores
      /\ {stale, raced} \subseteq BOOLEAN
  BY DEF ListingInv, AutoTypeOK, Words
<1>2. /\ pending' = pending \ {s} /\ mem' = [mem EXCEPT ![s[1]] = s[2]]
      /\ stale' = (stale \/ Differ(mem', mem)) /\ redraw' = redraw
      /\ raced' = (raced /\ (stale' \/ Undrawn(pending')))
  BY DEF Store
<1>3. /\ mem' \in Words /\ (s[1] \notin Shown => ~Differ(mem', mem))
      /\ mem'.refresh \in {mem.refresh, 1} /\ (s = refreshed => mem'.refresh = 1)
  BY <1>1, <1>2, StoredWords
<1>4. Undrawn(pending') => Undrawn(pending)
  BY <1>2 DEF Undrawn
<1>5. s[1] \in Shown => Undrawn(pending)
  BY DEF Undrawn
<1>6. stale' => stale \/ Undrawn(pending)
  BY <1>1, <1>2, <1>3, <1>5
<1>7. Asked => Asked'
  BY <1>1, <1>2, <1>3 DEF Asked, refreshed
<1>8. ~raced' /\ (stale' \/ Undrawn(pending')) => redraw' = "taken" \/ Asked'
  BY <1>2, <1>4, <1>6, <1>7 DEF ListingInv
<1>9. ~raced' /\ redraw' = "copied" => ~stale' /\ ~Undrawn(pending')
  BY <1>2, <1>4, <1>6 DEF ListingInv
<1>10. {stale', raced'} \subseteq BOOLEAN /\ pending' \subseteq Stores
  BY <1>1, <1>2 DEF Differ
<1>11. pending' \subseteq (DOMAIN mem') \X (0..3)
  <2>1. Stores \subseteq (DOMAIN mem') \X (0..3)
    BY <1>3 DEF Stores, Words
  <2>2. QED
    BY <1>10, <2>1
<1>12. AutoTypeOK'
  BY <1>2, <1>3, <1>10, <1>11 DEF Store, watch, notices, engine, ListingInv, AutoTypeOK, Words
<1>13. QED
  BY <1>8, <1>9, <1>10, <1>12 DEF ListingInv

\* rbp computes its media anew and asks for a redraw.
LEMMA Recomputed ==
    ASSUME NEW w \in Words
    PROVE  Recompute(w) \in Words /\ Recompute(w).refresh = 1
<1>1. /\ (IF w.usb1 = 2 THEN USB1 ELSE 0) \in {0, 2}
      /\ (IF w.usb2 # 0 THEN 4 ELSE 0) \in {0, 4}
  BY DEF USB1
<1>2. (IF w.usb1 = 2 THEN USB1 ELSE 0) + (IF w.usb2 # 0 THEN 4 ELSE 0) \in {0, 2, 4, 6}
  BY <1>1
<1>3. QED
  BY <1>2 DEF Words, Recompute

Pcs == {"sleep", "kind3", "kind2", "media", "caution", "register", "detached"}
Rounds == {"kind3", "kind2", "media", "caution", "register"}

LEMMA AutoTypes ==
    ASSUME AutoTypeOK, mem' \in Words, UNCHANGED thread, Seen',
           {km', analysing', stale', raced'} \subseteq BOOLEAN,
           redraw' \in {"none", "taken", "copied"}, events' \in 0..MaxEvents
    PROVE  AutoTypeOK'
<1>1. DOMAIN mem' = DOMAIN mem
  BY DEF AutoTypeOK, Words
<1>2. /\ {mounted', last_mounted'} \subseteq BOOLEAN /\ thread_pc' \in Pcs
      /\ pending' \subseteq (DOMAIN mem') \X (0..3)
      /\ thread_pc' \in Rounds => mounted'
  BY <1>1 DEF AutoTypeOK, thread, Pcs, Rounds
<1>3. QED
  BY <1>2 DEF AutoTypeOK, Words, Seen, Msgs, Pcs, Rounds

\* What rbp writes itself comes with a request for a redraw.
LEMMA WriteKeeps ==
    ASSUME ListingInv, NEW w \in Words, Write(w), Differ(w, mem) => w.refresh = 1,
           w.refresh \in {mem.refresh, 1}, UNCHANGED thread, Seen',
           {km', analysing'} \subseteq BOOLEAN, events' \in 0..MaxEvents
    PROVE  ListingInv'
<1>1. /\ mem' = w /\ stale' = (stale \/ Differ(w, mem)) /\ redraw' = redraw
      /\ raced' = (raced \/ (redraw = "copied" /\ Differ(w, mem)))
      /\ pending' = pending
  BY DEF Write, Overlap, thread
<1>2. {stale, raced} \subseteq BOOLEAN /\ redraw \in {"none", "taken", "copied"} /\ AutoTypeOK
  BY DEF ListingInv, AutoTypeOK
<1>3. {stale', raced'} \subseteq BOOLEAN /\ redraw' \in {"none", "taken", "copied"}
  BY <1>1, <1>2 DEF Differ
<1>4. AutoTypeOK'
  BY <1>1, <1>2, <1>3, AutoTypes
<1>5. /\ Undrawn(pending') = Undrawn(pending)
      /\ Asked => Asked'
      /\ Differ(w, mem) => Asked'
  BY <1>1 DEF Asked
<1>6. ~raced' /\ (stale' \/ Undrawn(pending')) => redraw' = "taken" \/ Asked'
  BY <1>1, <1>5 DEF ListingInv
<1>7. ~raced' /\ redraw' = "copied" => ~stale' /\ ~Undrawn(pending')
  BY <1>1, <1>5 DEF ListingInv
<1>8. QED
  BY <1>1, <1>4, <1>6, <1>7 DEF ListingInv

\* Steps that leave the words, the display and the thread alone.
LEMMA QuietKeeps ==
    ASSUME ListingInv, UNCHANGED <<mem, display, thread, raced>>, Seen',
           {km', analysing'} \subseteq BOOLEAN, events' \in 0..MaxEvents
    PROVE  ListingInv'
<1>1. /\ mem' = mem /\ stale' = stale /\ redraw' = redraw /\ raced' = raced
      /\ pending' = pending
  BY DEF display, thread
<1>2. /\ mem \in Words /\ {stale, raced} \subseteq BOOLEAN
      /\ redraw \in {"none", "taken", "copied"} /\ AutoTypeOK
  BY DEF ListingInv, AutoTypeOK, Words
<1>3. AutoTypeOK'
  BY <1>1, <1>2, AutoTypes
<1>4. QED
  BY <1>1, <1>3 DEF ListingInv, Asked

\* A redraw takes back its request before or after it copies the words.
LEMMA RedrawKeeps == ASSUME ListingInv, Redraw PROVE ListingInv'
<1>1. /\ mem \in Words /\ {stale, raced, km, analysing} \subseteq BOOLEAN
      /\ redraw \in {"none", "taken", "copied"} /\ AutoTypeOK /\ Seen
      /\ events \in 0..MaxEvents
  BY DEF ListingInv, AutoTypeOK, Words, Seen, Msgs
<1>2. /\ UNCHANGED <<thread, pending, events, km, analysing>>
      /\ UNCHANGED <<bound, files, told, listening, msgs, lost>>
  BY DEF Redraw, TakeBack, Copy, thread, watch, notices, engine
<1>3. Undrawn(pending) \in BOOLEAN /\ Undrawn(pending') = Undrawn(pending)
  BY <1>2 DEF Undrawn
<1>4. Seen'
  BY <1>1, <1>2 DEF Seen
<1>5. CASE TakeBack
  <2>1. /\ mem' \in Words /\ stale' = stale /\ raced' = raced
        /\ \/ redraw = "copied" /\ redraw' = "none"
           \/ redraw' = "taken"
    BY <1>1, <1>5 DEF TakeBack, Words
  <2>2. AutoTypeOK'
    BY <1>1, <1>2, <1>4, <2>1, AutoTypes
  <2>3. ~raced' /\ (stale' \/ Undrawn(pending')) => redraw' = "taken"
    BY <1>3, <2>1 DEF ListingInv
  <2>4. QED
    BY <1>2, <2>1, <2>2, <2>3 DEF ListingInv
<1>6. CASE Copy
  <2>1. /\ mem' = mem /\ stale' = FALSE /\ raced' = Undrawn(pending)
        /\ redraw' \in {"none", "copied"}
    BY <1>6 DEF Copy
  <2>2. AutoTypeOK'
    BY <1>1, <1>2, <1>3, <1>4, <2>1, AutoTypes
  <2>3. QED
    BY <1>2, <1>3, <2>1, <2>2 DEF ListingInv
<1>7. QED
  BY <1>5, <1>6 DEF Redraw

\* The thread issues stores: those the screen shows with a request.
LEMMA DecisionKeeps ==
    ASSUME ListingInv, NEW stores \in SUBSET Stores, Undrawn(stores) => refreshed \in stores,
           pending' = pending \cup stores, Overlap(Undrawn(stores)),
           UNCHANGED <<watch, engine, display, mem>>,
           {mounted', last_mounted'} \subseteq BOOLEAN, thread_pc' \in Pcs,
           thread_pc' \in Rounds => mounted'
    PROVE  ListingInv'
<1>1. /\ mem \in Words /\ {stale, raced} \subseteq BOOLEAN
      /\ redraw' = redraw /\ stale' = stale /\ mem' = mem
  BY DEF ListingInv, AutoTypeOK, Words, display
<1>2. raced' = (raced \/ (redraw = "copied" /\ Undrawn(stores)))
  BY DEF Overlap
<1>3. Undrawn(pending') <=> Undrawn(pending) \/ Undrawn(stores)
  BY DEF Undrawn
<1>4. pending' \subseteq Stores /\ raced' \in BOOLEAN
  BY <1>1, <1>2 DEF ListingInv, Undrawn
<1>5. pending' \subseteq (DOMAIN mem') \X (0..3)
  BY <1>1, <1>4 DEF Stores, Words
<1>6. AutoTypeOK'
  BY <1>1, <1>4, <1>5 DEF ListingInv, AutoTypeOK, watch, notices, engine, display, Pcs, Rounds
<1>7. (Asked => Asked') /\ (Undrawn(stores) => Asked')
  BY <1>1 DEF Asked
<1>8. ~raced' /\ (stale' \/ Undrawn(pending')) => redraw' = "taken" \/ Asked'
  BY <1>1, <1>2, <1>3, <1>7 DEF ListingInv
<1>9. ~raced' /\ redraw' = "copied" => ~stale' /\ ~Undrawn(pending')
  BY <1>1, <1>2, <1>3 DEF ListingInv
<1>10. QED
  BY <1>4, <1>6, <1>8, <1>9 DEF ListingInv

LEMMA ThreadKeeps == ASSUME ListingInv, Thread PROVE ListingInv'
<1>1. /\ {files, mounted, last_mounted, raced} \subseteq BOOLEAN
      /\ thread_pc \in Rounds => mounted
      /\ thread_pc \in Pcs
  BY DEF ListingInv, AutoTypeOK, Rounds, Pcs
<1>2. ASSUME NEW here \in Pcs, NEW next \in Pcs, NEW stores \in SUBSET Stores,
             At(here, next, stores), Undrawn(stores) => refreshed \in stores,
             next \in Rounds => here \in Rounds
      PROVE  ListingInv'
  <2>1. /\ thread_pc = here /\ thread_pc' = next /\ mounted' = mounted
        /\ last_mounted' \in {mounted, last_mounted} /\ pending' = pending \cup stores
        /\ Overlap(Undrawn(stores)) /\ UNCHANGED <<watch, engine, display, mem>>
    BY <1>2 DEF At
  <2>2. QED
    BY <1>1, <1>2, <2>1, DecisionKeeps
<1>3. CASE Wake
  <2>1. {} \in SUBSET Stores /\ ~Undrawn({}) /\ pending' = pending \cup {}
        /\ UNCHANGED <<watch, engine, display, mem>>
    BY <1>3 DEF Undrawn, Wake
  <2>2. Overlap(Undrawn({}))
    BY <1>1, <1>3, <2>1 DEF Overlap, Wake
  <2>3. /\ {mounted', last_mounted'} \subseteq BOOLEAN /\ thread_pc' \in Pcs
        /\ thread_pc' \in Rounds => mounted'
    BY <1>1, <1>3 DEF Wake, Pcs, Rounds
  <2>4. QED
    BY <2>1, <2>2, <2>3, DecisionKeeps
<1>4. CASE Kind3
  <2>1. PICK stores : /\ At("kind3", "kind2", stores)
                      /\ stores = {} \/ stores = {<<"usb2", 0>>, refreshed}
    BY <1>4 DEF Kind3, If
  <2>2. stores \in SUBSET Stores /\ ~Undrawn(stores)
    BY <2>1 DEF Stores, Undrawn, Shown, refreshed
  <2>3. QED
    BY <1>2, <2>1, <2>2 DEF Pcs, Rounds
<1>5. CASE Kind2
  <2>1. PICK next \in {"media", "register"} : At("kind2", next, {})
    BY <1>5 DEF Kind2
  <2>2. {} \in SUBSET Stores /\ ~Undrawn({})
    BY DEF Undrawn
  <2>3. QED
    BY <1>2, <2>1, <2>2 DEF Pcs, Rounds
<1>6. CASE Media
  <2>1. PICK stores : /\ At("media", "caution", stores)
                      /\ stores = {} \/ stores = {<<"media", 2>>, refreshed}
    BY <1>6 DEF Media, If, USB1
  <2>2. stores \in SUBSET Stores /\ (Undrawn(stores) => refreshed \in stores)
    BY <2>1 DEF Stores, Undrawn, refreshed
  <2>3. QED
    BY <1>2, <2>1, <2>2 DEF Pcs, Rounds
<1>7. CASE Caution
  <2>1. PICK stores : /\ At("caution", "register", stores)
                      /\ stores = {} \/ stores = {<<"caution", 0>>}
    BY <1>7 DEF Caution, If
  <2>2. stores \in SUBSET Stores /\ ~Undrawn(stores)
    BY <2>1 DEF Stores, Undrawn, Shown
  <2>3. QED
    BY <1>2, <2>1, <2>2 DEF Pcs, Rounds
<1>8. CASE Register
  <2>1. PICK stores : /\ At("register", "sleep", stores)
                      /\ \/ stores = {<<"usb1", 2>>, <<"usb2", 0>>, <<"media", 2>>,
                                      <<"dev", 3>>, refreshed}
                         \/ stores = {}
                         \/ stores = {<<"media", 2>>, <<"dev", 3>>, refreshed}
    BY <1>8 DEF Register, If, USB1, DEV_USB1
  <2>2. stores \in SUBSET Stores /\ (Undrawn(stores) => refreshed \in stores)
    BY <2>1 DEF Stores, Undrawn, refreshed
  <2>3. QED
    BY <1>2, <2>1, <2>2 DEF Pcs, Rounds
<1>9. CASE Detached
  <2>1. PICK stores : /\ At("detached", "sleep", stores)
                      /\ stores = {<<"usb1", 0>>, <<"usb2", 0>>, <<"media", 0>>, refreshed}
    BY <1>9 DEF Detached
  <2>2. stores \in SUBSET Stores /\ (Undrawn(stores) => refreshed \in stores)
    BY <2>1 DEF Stores, refreshed
  <2>3. QED
    BY <1>2, <2>1, <2>2 DEF Pcs, Rounds
<1>10. CASE \E s \in pending : Store(s)
  BY <1>10, StoreKeeps
<1>11. QED
  BY <1>3, <1>4, <1>5, <1>6, <1>7, <1>8, <1>9, <1>10 DEF Thread

LEMMA ListingNext ==
    ASSUME ListingInv, [AutoNext]_auto
    PROVE  ListingInv'
<1>1. /\ mem \in Words /\ {km, analysing, files} \subseteq BOOLEAN /\ Seen
      /\ events \in 0..MaxEvents
  BY DEF ListingInv, AutoTypeOK, Words, Seen, Msgs
<1>2. ASSUME Event PROVE events' \in 0..MaxEvents
  BY <1>1, <1>2, UsbAutoAssumption DEF Event
<1>3. ASSUME UNCHANGED notices PROVE Seen'
  BY <1>1, <1>3 DEF notices, Seen
<1>4. CASE Notice \/ Announce \/ RbpListen
  <2>1. Watch!Next
    BY <1>4 DEF Notice, Announce, RbpListen, Watch!Next
  <2>2. events' \in 0..MaxEvents
    BY <1>1, <1>2, <1>4 DEF Notice, Announce, RbpListen
  <2>3. UNCHANGED <<mem, display, thread, raced, km, analysing>>
    BY <1>4 DEF Notice, Announce, RbpListen, engine
  <2>4. QED
    BY <1>1, <2>1, <2>2, <2>3, SeenKeeps, QuietKeeps
<1>5. CASE KeyManager
  <2>1. /\ km' = TRUE /\ UNCHANGED <<notices, events>>
        /\ UNCHANGED <<mem, display, thread, raced, analysing>>
    BY <1>5 DEF KeyManager, watch
  <2>2. QED
    BY <1>1, <1>3, <2>1, QuietKeeps
<1>6. CASE RbpMessage
  <2>1. PICK w \in Words : Write(Recompute(w)) /\ w.refresh = mem.refresh
    <3>1. PICK caution \in {mem.caution, 1} :
             Write(Recompute(IF Head(msgs) = "mount"
                        THEN [mem EXCEPT !.usb2 = 1, !.caution = caution]
                        ELSE [mem EXCEPT !.usb1 = 0, !.usb2 = 0, !.caution = caution]))
      BY <1>6 DEF RbpMessage
    <3>2. /\ [mem EXCEPT !.usb2 = 1, !.caution = caution] \in Words
          /\ [mem EXCEPT !.usb1 = 0, !.usb2 = 0, !.caution = caution] \in Words
          /\ [mem EXCEPT !.usb2 = 1, !.caution = caution].refresh = mem.refresh
          /\ [mem EXCEPT !.usb1 = 0, !.usb2 = 0, !.caution = caution].refresh = mem.refresh
      BY <1>1 DEF Words
    <3>3. QED
      BY <3>1, <3>2
  <2>2. Recompute(w) \in Words /\ Recompute(w).refresh = 1
    BY Recomputed
  <2>3. Watch!Next /\ analysing' \in BOOLEAN
    BY <1>6 DEF RbpMessage, Watch!Next
  <2>4. UNCHANGED <<events, km, thread>>
    BY <1>6 DEF RbpMessage
  <2>5. QED
    BY <1>1, <2>1, <2>2, <2>3, <2>4, SeenKeeps, WriteKeeps
<1>7. CASE RbpAnalysed
  <2>1. [mem EXCEPT !.usb1 = 2] \in Words
    BY <1>1 DEF Words
  <2>2. PICK w \in Words : /\ Write(w) /\ w.refresh \in {mem.refresh, 1}
                           /\ w = mem \/ w.refresh = 1
    BY <1>1, <1>7, <2>1, Recomputed DEF RbpAnalysed
  <2>3. Differ(w, mem) => w.refresh = 1
    BY <2>2 DEF Differ
  <2>4. analysing' \in BOOLEAN /\ UNCHANGED <<notices, events, km, thread>>
    BY <1>7 DEF RbpAnalysed, watch
  <2>5. QED
    BY <1>1, <1>3, <2>2, <2>3, <2>4, WriteKeeps
<1>8. CASE RbpBrowse
  <2>1. PICK w \in Words : /\ Write(w) /\ w.refresh \in {mem.refresh, 1}
                           /\ Differ(w, mem) => w.refresh = 1
    <3>1. /\ [mem EXCEPT !.mode = LIST] \in Words
          /\ ~Differ([mem EXCEPT !.mode = LIST], mem)
          /\ [mem EXCEPT !.mode = LIST].refresh = mem.refresh
      BY <1>1 DEF Words, Differ, Shown
    <3>2. /\ [mem EXCEPT !.mode = SOURCE, !.dev = 0, !.refresh = 1] \in Words
          /\ [mem EXCEPT !.mode = SOURCE, !.dev = 0, !.refresh = 1].refresh = 1
      BY <1>1 DEF Words
    <3>3. QED
      BY <1>8, <3>1, <3>2 DEF RbpBrowse
  <2>2. events' \in 0..MaxEvents /\ UNCHANGED <<notices, km, analysing, thread>>
    BY <1>2, <1>8 DEF RbpBrowse, engine
  <2>3. QED
    BY <1>1, <1>3, <2>1, <2>2, WriteKeeps
<1>9. CASE Redraw
  BY <1>9, RedrawKeeps
<1>10. CASE Respawn
  <2>1. Seen' /\ events' \in 0..MaxEvents
    BY <1>1, <1>2, <1>10, SeenKeeps DEF Respawn, Watch!Next
  <2>2. /\ km' = FALSE /\ analysing' = FALSE /\ mem' = Cleared /\ stale' = FALSE
        /\ redraw' = "none" /\ raced' = FALSE
        /\ thread_pc' = "sleep" /\ pending' = {} /\ mounted' = FALSE /\ last_mounted' = FALSE
    BY <1>10 DEF Respawn
  <2>3. mem' \in Words
    BY <2>2 DEF Cleared, Words
  <2>4. AutoTypeOK'
    BY <2>1, <2>2, <2>3 DEF AutoTypeOK, Words, Seen, Msgs
  <2>5. pending' \subseteq Stores /\ ~stale' /\ ~Undrawn(pending')
    BY <2>2 DEF Undrawn
  <2>6. QED
    BY <2>2, <2>4, <2>5 DEF ListingInv
<1>11. CASE Thread
  BY <1>11, ThreadKeeps
<1>12. CASE UNCHANGED auto
  BY <1>1, <1>12, <1>3, QuietKeeps DEF auto, watch, engine
<1>13. QED
  BY <1>4, <1>5, <1>6, <1>7, <1>8, <1>9, <1>10, <1>11, <1>12 DEF AutoNext, Rbp

\* What usb_auto_thread stores and what rbp writes into the same words reaches
\* the screen, in whatever order the stores are seen, unless a redraw raced
\* with them: what is not shown has a redraw to copy it, asked for or still to
\* be asked for.
THEOREM ScreenKeepsUp == AutoSpec => []ScreenIsFresh
<1>1. ListingInv => ScreenIsFresh
  BY DEF ListingInv, ScreenIsFresh, Asked
<1>2. QED
  BY ListingInit, ListingNext, <1>1, PTL DEF AutoSpec

\* Every word rbp and usb_auto_thread share keeps its type, and the thread
\* registers a stick only in a round that saw its files.
THEOREM ListingTypes == AutoSpec => []AutoTypeOK
<1>1. ListingInv => AutoTypeOK
  BY DEF ListingInv
<1>2. QED
  BY ListingInit, ListingNext, <1>1, PTL DEF AutoSpec
=============================================================================
