------------------------------ MODULE NoteKeys ------------------------------
(***************************************************************************)
(* The buttons of scripts/shims/knobshim2.c: midi_thread reads their edges *)
(* from the sequencer FIFO and handle_note turns them into presses and     *)
(* releases of rbp's keys.  While rbp shows its Source menu and a          *)
(* rekordbox stick is mounted, two of the buttons are the USB1 key.        *)
(*                                                                         *)
(* A button is a (receive channel, note) pair, a slot a (key, send         *)
(* channel) pair: what the engine sees.  Several buttons may share a slot. *)
(***************************************************************************)
EXTENDS Integers, Sequences, FiniteSets

CONSTANTS
    Buttons,    \* the buttons of the surface
    Slots,      \* the engine's keys
    Usb1,       \* K_USB1 on CH_GLOBAL
    NoSlot,     \* key 0: the button is only logged
    NoteMap,    \* build_maps: a sequence of [button, slot] records
    Remapped,   \* channel 15, notes 4 (FWD) and 6 (browse knob)
    Lossy,      \* the sequencer may drop events
    MaxEdges,   \* bound: edges the buttons make in a behaviour
    QueueLen    \* events the sequencer FIFO holds

ASSUME NoteAssumption ==
    /\ NoteMap \in Seq([button : Buttons, slot : Slots \cup {NoSlot}])
    \* build_maps lists no button twice.
    /\ \A i, j \in 1..Len(NoteMap) : NoteMap[i].button = NoteMap[j].button => i = j
    /\ Usb1 \notin Slots /\ NoSlot \notin Slots \cup {Usb1}
    /\ Remapped \subseteq Buttons /\ Lossy \in BOOLEAN
    /\ MaxEdges \in Nat /\ QueueLen \in Nat \ {0}

Entries == DOMAIN NoteMap

VARIABLES
    down,      \* the buttons, as the fingers hold them
    queue,     \* sequencer FIFO of edges
    menu,      \* browse mode 12, the Source menu
    stick,     \* export.pdb is there
    pressed,   \* note_map[].pressed
    held,      \* what the engine counts: presses less releases of each slot
    edges,     \* edges made so far
    missed     \* history: buttons whose latest edge was dropped

vars == <<down, queue, menu, stick, pressed, held, edges, missed>>

Init ==
    /\ down = [b \in Buttons |-> FALSE] /\ queue = <<>>
    /\ menu = FALSE /\ stick \in BOOLEAN
    /\ pressed = [i \in Entries |-> FALSE]
    /\ held = [s \in Slots \cup {Usb1} |-> 0]
    /\ edges = 0 /\ missed = {}

-----------------------------------------------------------------------------
(* The surface and rbp.                                                    *)

\* A finger presses or releases a button; a full FIFO drops the event.
Edge(b) ==
    /\ edges < MaxEdges /\ edges' = edges + 1
    /\ down' = [down EXCEPT ![b] = ~@]
    /\ \/ /\ Len(queue) < QueueLen
          /\ queue' = Append(queue, [button |-> b, on |-> ~down[b]])
          /\ missed' = missed \ {b}
       \/ /\ Lossy /\ Len(queue) = QueueLen
          /\ missed' = missed \cup {b} /\ UNCHANGED queue
    /\ UNCHANGED <<menu, stick, pressed, held>>

\* rbp opens or leaves the Source menu (FWD opens it).
Browse ==
    /\ menu' = ~menu
    /\ UNCHANGED <<down, queue, stick, pressed, held, edges, missed>>

\* The stick is mounted or goes away.
Mounted ==
    /\ stick' = ~stick
    /\ UNCHANGED <<down, queue, menu, pressed, held, edges, missed>>

-----------------------------------------------------------------------------
(* handle_note.  A definition named Bad... is the definition after it with *)
(* a bug the code could have.                                              *)

\* The first entry of the map with this button, and the slot it sends.
EntryOf(b) ==
    CHOOSE i \in Entries : /\ NoteMap[i].button = b
                           /\ \A j \in 1..i-1 : NoteMap[j].button # b
SlotOf(b) == IF \E i \in Entries : NoteMap[i].button = b
             THEN NoteMap[EntryOf(b)].slot ELSE NoSlot

\* source_menu_with_usb1, for the two buttons it is asked for.
BadToUsb1(b) == menu /\ stick
ToUsb1(b) == b \in Remapped /\ menu /\ stick

\* A button without a key sends nothing, nor does an edge its entry has
\* already seen.
BadIsNews(b, on) == SlotOf(b) # NoSlot
IsNews(b, on) == SlotOf(b) # NoSlot /\ pressed[EntryOf(b)] # on

\* send_rx_key with OP_PRESS or OP_RELEASE.
Send(slot, on) == held' = [held EXCEPT ![slot] = IF on THEN @ + 1 ELSE @ - 1]

HandleNote ==
    /\ queue # <<>> /\ queue' = Tail(queue)
    /\ LET ev == Head(queue)
           b  == ev.button
       IN  \/ ToUsb1(b) /\ Send(Usb1, ev.on) /\ UNCHANGED pressed
           \/ /\ ~ToUsb1(b) /\ IsNews(b, ev.on)
              /\ pressed' = [pressed EXCEPT ![EntryOf(b)] = ev.on]
              /\ Send(SlotOf(b), ev.on)
           \/ ~ToUsb1(b) /\ ~IsNews(b, ev.on) /\ UNCHANGED <<pressed, held>>
    /\ UNCHANGED <<down, menu, stick, edges, missed>>

Next ==
    \/ \E b \in Buttons : Edge(b)
    \/ Browse \/ Mounted
    \/ HandleNote

Spec == Init /\ [][Next]_vars

-----------------------------------------------------------------------------
(* Properties.                                                             *)

TypeOK ==
    /\ down \in [Buttons -> BOOLEAN] /\ missed \subseteq Buttons
    /\ queue \in Seq([button : Buttons, on : BOOLEAN]) /\ Len(queue) <= QueueLen
    /\ menu \in BOOLEAN /\ stick \in BOOLEAN /\ edges \in 0..MaxEdges
    /\ pressed \in [Entries -> BOOLEAN]
    /\ held \in [Slots \cup {Usb1} -> -MaxEdges..MaxEdges]
    /\ \A s \in Slots : held[s] \in 0..Len(NoteMap)

\* Whatever the sequencer drops and however the menu comes and goes, the
\* engine holds a key exactly as often as handle_note has buttons pressed on
\* it: no press is sent twice and no release without its press.
HeldMatchesPressed ==
    \A s \in Slots :
        held[s] = Cardinality({i \in Entries : NoteMap[i].slot = s /\ pressed[i]})

\* A button that is not remapped is never stuck: once its latest edge is
\* handled, its entry agrees with the finger, though earlier edges were lost.
PressedFollowsButton ==
    \A b \in Buttons \ Remapped :
        /\ SlotOf(b) # NoSlot /\ b \notin missed
        /\ \A k \in DOMAIN queue : queue[k].button # b
        => pressed[EntryOf(b)] = down[b]

\* knobshim2.c:462, "Swallow BOTH edges so the generic SELECTOR/SOURCE
\* mapping below never fires for this gesture": both edges of a gesture go
\* the same way.  So once every finger is off the buttons and every edge is
\* handled, the engine holds no key.
BothEdgesSwallowed ==
    queue = <<>> /\ (\A b \in Buttons : ~down[b])
        => \A s \in Slots \cup {Usb1} : held[s] = 0
=============================================================================
