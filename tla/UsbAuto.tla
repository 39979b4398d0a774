------------------------------- MODULE UsbAuto -------------------------------
(***************************************************************************)
(* usb_auto_thread of scripts/shims/knobshim2.c.  Every 100 ms it looks    *)
(* for the stick's database and corrects, by single stores and without a   *)
(* lock, engine variables that rbp's own threads write as well: rbp takes  *)
(* the rear port for its USB2 (kind 3), the thread makes it USB1 (kind 2). *)
(*                                                                         *)
(* The stores are plain or volatile and no barrier lies between them, so   *)
(* the cores of the ARM may see those of one round in any order, and after *)
(* the thread has read on: each is pending until it is seen.  All are seen *)
(* before the thread, which sleeps in the kernel, starts its next round.   *)
(*                                                                         *)
(* What rbp does with these variables is external and follows docs/06-usb  *)
(* (section 5).  A definition named Bad... is the one after it with a bug  *)
(* the code could have.                                                    *)
(***************************************************************************)
EXTENDS Naturals, Sequences

CONSTANTS
    MaxEvents,  \* bound: sticks rbp is told of, changes of its browse mode and
                \* restarts of it, together
    MaxMsgs     \* bound: messages rbp has not read

ASSUME UsbAutoAssumption == MaxEvents \in Nat /\ MaxMsgs \in Nat

USB1 == 2       \* the bit of USB1 in uiConnectedMedia; and a ready detect flag
SOURCE == 12    \* browse mode: the Source menu
LIST == 5       \* browse mode: the library
DEV_USB1 == 3

VARIABLES
    \* usb-watch.sh, as StickNotices has it; files: export.pdb is there.
    bound, files, told, listening, msgs, lost,
    \* Use of the bound.
    events,
    \* rbp: its KeyManager is there; the words the thread shares with it; the
    \* stick is being analysed; media or device changed since they were copied
    \* to the screen; a redraw has "taken" back the request or "copied" the
    \* words and is still to do the other, or there is "none".
    km, mem, analysing, stale, redraw,
    \* usb_auto_thread: what comes next, its stores <<word, value>> that nobody
    \* has seen yet, mounted and last_mounted.
    thread_pc, pending, mounted, last_mounted,
    \* History: when the latest redraw copied the words a store to them was
    \* pending, or one changed before that redraw took back the request; until
    \* all stores are seen, if they leave the screen as it is.
    raced

Watch == INSTANCE StickNotices WITH open <- listening

notices == <<bound, files, told, listening, msgs, lost>>
watch   == <<notices, events>>
engine  == <<km, analysing>>
display == <<stale, redraw>>
thread  == <<thread_pc, pending, mounted, last_mounted>>
auto    == <<watch, engine, display, mem, thread, raced>>

\* The words of an rbp that starts.
Cleared == [usb1 |-> 0, usb2 |-> 0, media |-> 0, mode |-> LIST, dev |-> 0,
            caution |-> 0, refresh |-> 0]

AutoInit ==
    /\ Watch!Init /\ lost = FALSE
    /\ events = 0
    /\ km = FALSE /\ analysing = FALSE /\ mem = Cleared
    /\ stale = FALSE /\ redraw = "none"
    /\ thread_pc = "sleep" /\ pending = {}
    /\ mounted = FALSE /\ last_mounted = FALSE /\ raced = FALSE

\* The words the screen shows, and whether two states of them differ there.
Shown == {"media", "dev"}
Differ(m, n) == \E w \in Shown : m[w] # n[w]

\* Stores that change them.
Undrawn(stores) == \E s \in stores : s[1] \in Shown

\* What changes after the copy is missed.
Overlap(changes) == raced' = (raced \/ (redraw = "copied" /\ changes))

-----------------------------------------------------------------------------
(* usb-watch.sh, by what it promises.                                      *)

Event == events < MaxEvents /\ events' = events + 1

Notice ==
    /\ \/ Watch!Show \/ Watch!Pull \/ Watch!Mount \/ Watch!Warn \/ Watch!Release
    /\ Len(msgs') <= MaxMsgs
    /\ UNCHANGED <<events, engine, display, mem, thread, raced>>
Announce ==
    /\ Watch!Reset /\ Event /\ Len(msgs') <= MaxMsgs
    /\ UNCHANGED <<engine, display, mem, thread, raced>>

-----------------------------------------------------------------------------
(* rbp.                                                                    *)

KeyManager ==
    ~km /\ km' = TRUE /\ UNCHANGED <<watch, mem, analysing, display, thread, raced>>

RbpListen == Watch!Open /\ UNCHANGED <<events, engine, display, mem, thread, raced>>

\* compConnectedMedia, followed by a redraw.
Recompute(m) ==
    [m EXCEPT !.media = (IF m.usb1 = 2 THEN USB1 ELSE 0) + (IF m.usb2 # 0 THEN 4 ELSE 0),
              !.refresh = 1]

\* rbp writes the shared words itself.
Write(m) ==
    /\ mem' = m /\ stale' = (stale \/ Differ(m, mem)) /\ Overlap(Differ(m, mem))
    /\ UNCHANGED redraw

\* A mount is detected as kind 3 and analysed; either may show a caution.
RbpMessage ==
    /\ km /\ Watch!Read
    /\ analysing' = (Head(msgs) = "mount")
    /\ \E caution \in {mem.caution, 1} :
          Write(Recompute(
              IF Head(msgs) = "mount"
              THEN [mem EXCEPT !.usb2 = 1, !.caution = caution]
              ELSE [mem EXCEPT !.usb1 = 0, !.usb2 = 0, !.caution = caution]))
    /\ UNCHANGED <<events, km, thread>>

\* Once the stick is analysed kind 2 is ready.
RbpAnalysed ==
    /\ analysing /\ analysing' = FALSE
    /\ Write(IF files THEN Recompute([mem EXCEPT !.usb1 = 2]) ELSE mem)
    /\ UNCHANGED <<watch, km, thread>>

\* The user opens the Source menu, which deselects the device, or leaves it.
RbpBrowse ==
    /\ km /\ Event
    /\ Write(IF mem.mode = SOURCE THEN [mem EXCEPT !.mode = LIST]
             ELSE [mem EXCEPT !.mode = SOURCE, !.dev = 0, !.refresh = 1])
    /\ UNCHANGED <<notices, engine, thread>>

\* gui_task draws when it is asked to: it takes back the request and copies
\* the words to the screen, in an order that is not known.
TakeBack ==
    /\ \/ redraw = "none" /\ mem.refresh = 1 /\ redraw' = "taken"
       \/ redraw = "copied" /\ redraw' = "none"
    /\ mem' = [mem EXCEPT !.refresh = 0]
    /\ UNCHANGED <<watch, engine, stale, thread, raced>>
Copy ==
    /\ \/ redraw = "none" /\ mem.refresh = 1 /\ redraw' = "copied"
       \/ redraw = "taken" /\ redraw' = "none"
    /\ stale' = FALSE /\ raced' = Undrawn(pending)
    /\ UNCHANGED <<watch, engine, mem, thread>>
Redraw == TakeBack \/ Copy

\* rbp is started again, and the thread with it; the stick stays bound.
Respawn ==
    /\ Watch!Restart /\ lost' = FALSE /\ Event
    /\ km' = FALSE /\ analysing' = FALSE /\ mem' = Cleared
    /\ stale' = FALSE /\ redraw' = "none"
    /\ thread_pc' = "sleep" /\ pending' = {}
    /\ mounted' = FALSE /\ last_mounted' = FALSE /\ raced' = FALSE

-----------------------------------------------------------------------------
(* usb_auto_thread.                                                        *)

\* A pending store is seen.  Those of a round to the same word have the same
\* value; one that still is pending takes in the next.
Store(s) ==
    /\ pending' = pending \ {s} /\ mem' = [mem EXCEPT ![s[1]] = s[2]]
    /\ stale' = (stale \/ Differ(mem', mem))
    /\ raced' = (raced /\ (stale' \/ Undrawn(pending')))
    /\ UNCHANGED <<watch, engine, redraw, thread_pc, mounted, last_mounted>>

\* At pc the thread reads, issues stores and goes to next; a round ends with
\* last_mounted = mounted.
At(here, next, stores) ==
    /\ thread_pc = here /\ thread_pc' = next
    /\ pending' = pending \cup stores /\ Overlap(Undrawn(stores))
    /\ last_mounted' = IF next = "sleep" THEN mounted ELSE last_mounted
    /\ UNCHANGED <<watch, engine, display, mem, mounted>>

If(c, stores) == IF c THEN stores ELSE {}
refreshed == <<"refresh", 1>>

\* A round ends, once its stores are seen, with the start of the next.
Wake ==
    /\ thread_pc = "sleep" /\ pending = {} /\ km
    /\ mounted' = files
    /\ thread_pc' = IF files THEN "kind3" ELSE IF last_mounted THEN "detached" ELSE "sleep"
    /\ UNCHANGED <<watch, engine, display, mem, pending, last_mounted, raced>>

BadKind3 == At("kind3", "kind2", If(mem.usb2 # 0 /\ mem.usb1 # 2, {<<"usb2", 0>>, refreshed}))
Kind3 == At("kind3", "kind2", If(mem.usb2 # 0, {<<"usb2", 0>>, refreshed}))

Kind2 == At("kind2", IF mem.usb1 = 2 THEN "media" ELSE "register", {})
BadMedia == At("media", "caution", If(mem.media # USB1, {<<"media", USB1>>}))
Media == At("media", "caution", If(mem.media # USB1, {<<"media", USB1>>, refreshed}))
Caution == At("caution", "register", If(mem.caution # 0, {<<"caution", 0>>}))

BadRegister ==
    At("register", "sleep",
       IF ~last_mounted
       THEN {<<"usb1", 2>>, <<"usb2", 0>>, <<"media", DEV_USB1>>, <<"dev", USB1>>, refreshed}
       ELSE If(mem.mode = SOURCE /\ mem.dev = 0,
               {<<"media", DEV_USB1>>, <<"dev", USB1>>, refreshed}))
Register ==
    At("register", "sleep",
       IF ~last_mounted
       THEN {<<"usb1", 2>>, <<"usb2", 0>>, <<"media", USB1>>, <<"dev", DEV_USB1>>, refreshed}
       ELSE If(mem.mode = SOURCE /\ mem.dev = 0,
               {<<"media", USB1>>, <<"dev", DEV_USB1>>, refreshed}))

BadDetached == At("detached", "sleep", {<<"usb1", 0>>, <<"usb2", 0>>, refreshed})
Detached ==
    At("detached", "sleep", {<<"usb1", 0>>, <<"usb2", 0>>, <<"media", 0>>, refreshed})

Thread ==
    \/ Wake \/ Kind3 \/ Kind2 \/ Media \/ Caution \/ Register \/ Detached
    \/ \E s \in pending : Store(s)

Rbp == KeyManager \/ RbpListen \/ RbpMessage \/ RbpAnalysed
AutoNext == Notice \/ Announce \/ Rbp \/ RbpBrowse \/ Redraw \/ Respawn \/ Thread

AutoSpec == AutoInit /\ [][AutoNext]_auto

\* The thread is an endless loop; rbp starts, handles its messages, analyses
\* a stick and redraws.
AutoFairSpec ==
    /\ AutoSpec
    /\ WF_thread(Thread) /\ WF_<<engine, listening, msgs>>(Rbp) /\ WF_redraw(Redraw)

-----------------------------------------------------------------------------
(* Properties.                                                             *)

AutoTypeOK ==
    /\ {bound, files, listening, lost, km, analysing, mounted, last_mounted,
      stale, raced}
         \subseteq BOOLEAN
    /\ told \in {"out", "reset", "in", "warned"} /\ (files => bound)
    /\ msgs \in Seq({"umount", "mount"})
    /\ mem \in [usb1 : {0, 2}, usb2 : {0, 1}, media : {0, 2, 4, 6},
                mode : {LIST, SOURCE}, dev : {0, DEV_USB1}, caution : {0, 1},
                refresh : {0, 1}]
    /\ redraw \in {"none", "taken", "copied"}
    /\ thread_pc \in {"sleep", "kind3", "kind2", "media", "caution", "register", "detached"}
    /\ pending \subseteq (DOMAIN mem) \X (0..3)
    /\ thread_pc \in {"kind3", "kind2", "media", "caution", "register"} => mounted
    /\ events \in 0..MaxEvents

\* Whatever order the thread's stores are seen in and whatever rbp writes in
\* between, a medium or device that is not on the screen is about to be drawn:
\* a redraw is still to copy it, was asked for or will be, by a pending store.
\* The exception is raced: a redraw that copied the words before the stores of
\* a round were all seen, and may have taken back the only request.
ScreenIsFresh ==
    stale /\ ~raced => redraw = "taken" \/ mem.refresh = 1 \/ refreshed \in pending

\* A stick that stays is listed as USB1 and as nothing else, without a
\* caution, selected in the Source menu and, unless the latest redraw raced
\* with the thread, on the screen, in whatever order the thread's stores and
\* rbp's detection, analysis and menu follow each other, also when rbp starts
\* with the stick in: if it hears what it is told.
StickIsListed ==
    <>[](files /\ told = "in" /\ ~lost) =>
        <>[](/\ mem.usb1 = 2 /\ mem.usb2 = 0 /\ mem.caution = 0 /\ mem.media = USB1
             /\ mem.mode = SOURCE => mem.dev = DEV_USB1
             /\ raced \/ ~stale)

\* A stick that was released is not listed any more, also when it was pulled
\* while rbp was told of it or the thread was registering it.
StickIsUnlisted ==
    <>[](~bound /\ ~lost) =>
        <>[](mem.usb1 = 0 /\ mem.usb2 = 0 /\ mem.media = 0 /\ (raced \/ ~stale))
=============================================================================
