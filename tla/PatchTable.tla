----------------------------- MODULE PatchTable -----------------------------
(***************************************************************************)
(* The patch table of src/primebox/patch/patch_rbp.py and what it means to *)
(* be patched.  A file is a sequence of words; the virtual address of a    *)
(* patch less the load bias is the index of its word.                      *)
(***************************************************************************)
EXTENDS Integers, Sequences

CONSTANTS
    Words,       \* the 32-bit words that occur
    Table,       \* PATCHES: a sequence of [at, old, new] records
    Files        \* the paths the tool may be given

Image == Seq(Words)

\* Every patch changes its word and no two patches touch one word.
ASSUME PatchAssumption ==
    /\ Table \in Seq([at : Nat \ {0}, old : Words, new : Words])
    /\ \A i \in 1..Len(Table) : Table[i].old # Table[i].new
    /\ \A i, j \in 1..Len(Table) : Table[i].at = Table[j].at => i = j

\* The patch is inside the file and finds the stock or the patched word.
Fits(img, p) == p.at \in 1..Len(img) /\ img[p.at] \in {p.old, p.new}
Acceptable(img) == \A i \in 1..Len(Table) : Fits(img, Table[i])

\* The image with the first n patches applied, and with all of them.
PatchedTo(img, n) ==
    [k \in 1..Len(img) |->
        IF \E i \in 1..n : Table[i].at = k
        THEN (Table[CHOOSE i \in 1..n : Table[i].at = k]).new
        ELSE img[k]]
Patched(img) == PatchedTo(img, Len(Table))
=============================================================================
