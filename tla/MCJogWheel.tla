----------------------------- MODULE MCJogWheel -----------------------------
(* Values of the constants of JogWheel for TLC.                            *)
EXTENDS JogWheel

\* One deck turns forward or repeats its report, the other turns back.
ApartSteps == <<{0, 1}, {-1}>>

\* One deck that turns either way, or repeats its report.
UnitSteps == <<{-1, 0, 1}>>
=============================================================================
