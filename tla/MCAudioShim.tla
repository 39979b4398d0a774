---------------------------- MODULE MCAudioShim ----------------------------
(***************************************************************************)
(* AudioShim for TLC: outputs are told apart by their handles only, and    *)
(* master and audible headphone periods by being different.                *)
(***************************************************************************)
EXTENDS AudioShim, TLC

Symmetry == Permutations(Outputs) \cup Permutations(Masters)
                \cup Permutations(Cues \ {Silence})
=============================================================================
