------------------------------ MODULE MCNoteKeys ------------------------------
(* The remapped FWD and browse knob, the two buttons of a deck that are both *)
(* K_ALOOP, the log-only PFL and a button build_maps leaves out.             *)
EXTENDS NoteKeys

MCMap == <<[button |-> "fwd",   slot |-> "SOURCE"],
           [button |-> "knob",  slot |-> "SELECTOR"],
           [button |-> "loops", slot |-> "ALOOP"],
           [button |-> "push",  slot |-> "ALOOP"],
           [button |-> "pfl",   slot |-> "none"]>>
=============================================================================
