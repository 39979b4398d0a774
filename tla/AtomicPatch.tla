---------------------------- MODULE AtomicPatch -----------------------------
(***************************************************************************)
(* What primebox-patch promises (src/primebox/patch/patch_rbp.py): a file  *)
(* is patched as a whole or not at all.  Patcher is the program.           *)
(***************************************************************************)
EXTENDS PatchTable

VARIABLE file    \* the contents of each path

Init == file \in [Files -> Image]

Patch(in, out) ==
    /\ Acceptable(file[in])
    /\ file' = [file EXCEPT ![out] = Patched(file[in])]

\* A run that is killed while it writes leaves the first n words.
Tear(in, out, n) ==
    /\ Acceptable(file[in])
    /\ file' = [file EXCEPT ![out] = SubSeq(Patched(file[in]), 1, n)]

Next ==
    \E in, out \in Files :
        Patch(in, out) \/ \E n \in 0..Len(file[in]) : Tear(in, out, n)

Spec == Init /\ [][Next]_file
=============================================================================
