----------------------------- MODULE MCPatcher ------------------------------
(* A table of three patches over three words, two paths.                   *)
EXTENDS Patcher

MCTable == <<[at |-> 1, old |-> "stock", new |-> "nop"],
             [at |-> 3, old |-> "stock", new |-> "nop"],
             [at |-> 2, old |-> "nop", new |-> "stock"]>>

MCWords == {"stock", "nop", "foreign"}

\* Every binary of three words, and one that ends before the last patch.
MCImages == [1..3 -> MCWords] \cup {<<"stock", "stock">>}
=============================================================================
