------------------------------- MODULE Patcher -------------------------------
(***************************************************************************)
(* primebox-patch, src/primebox/patch/patch_rbp.py: main reads a binary,   *)
(* apply_patches walks the table and stops at the first word that is       *)
(* neither stock nor patched, and main writes the output only after the    *)
(* whole table went through and --check was not given.                     *)
(*                                                                         *)
(* The tool may be run again and again on any path, its own output         *)
(* included, and a run may be killed.                                      *)
(***************************************************************************)
EXTENDS PatchTable, FiniteSets

CONSTANT Images    \* what a file may hold at first

VARIABLES
    file,      \* the contents of each path
    pc,        \* "idle", "loop", "write"
    args,      \* [rbp, output, check] of the run
    data,      \* the bytearray
    next,      \* index of the patch the loop is at
    applied, already,
    rc,        \* exit status of the last run: 0, 2, or -1 when there is none
    start      \* history: the files when the run began

vars == <<file, pc, args, data, next, applied, already, rc, start>>

ASSUME ImagesAssumption == Images \subseteq Image

Init ==
    /\ file \in [Files -> Images] /\ pc = "idle"
    /\ args \in [rbp : Files, output : Files, check : {FALSE}]
    /\ data = <<>> /\ next = 1 /\ applied = 0 /\ already = 0 /\ rc = -1
    /\ start = file

-----------------------------------------------------------------------------
(* A definition named Bad... is the definition after it with a bug.        *)

\* main parses its arguments and reads the binary.
BadRun(a) ==
    /\ pc = "idle" /\ pc' = "loop" /\ args' = a /\ data' = file[a.rbp]
    /\ next' = 1 /\ rc' = -1 /\ start' = file
    /\ UNCHANGED <<file, applied, already>>
Run(a) ==
    /\ pc = "idle" /\ pc' = "loop" /\ args' = a /\ data' = file[a.rbp]
    /\ next' = 1 /\ applied' = 0 /\ already' = 0 /\ rc' = -1 /\ start' = file
    /\ UNCHANGED file

\* The two ValueErrors of apply_patches, which main turns into exit status 2.
BadMismatch(p) == p.at \notin 1..Len(data)
Mismatch(p) == ~Fits(data, p)

Reject ==
    /\ pc = "loop" /\ next <= Len(Table) /\ Mismatch(Table[next])
    /\ pc' = "idle" /\ rc' = 2
    /\ UNCHANGED <<file, args, data, next, applied, already, start>>

\* One iteration: a patched word is counted, a stock word replaced.
BadIteration(p) ==
    /\ data' = [data EXCEPT ![p.at] = p.new]
    /\ applied' = applied + 1 /\ UNCHANGED already
Iteration(p) ==
    IF data[p.at] = p.new
    THEN already' = already + 1 /\ UNCHANGED <<data, applied>>
    ELSE /\ data' = [data EXCEPT ![p.at] = p.new]
         /\ applied' = applied + 1 /\ UNCHANGED already

Apply ==
    /\ pc = "loop" /\ next <= Len(Table) /\ ~Mismatch(Table[next])
    /\ Iteration(Table[next])
    /\ next' = next + 1
    /\ UNCHANGED <<file, pc, args, rc, start>>

\* The table is done; --check stops here.
BadCheckLast ==
    /\ pc = "loop" /\ next >= Len(Table)
    /\ IF args.check THEN pc' = "idle" /\ rc' = 0
                     ELSE pc' = "write" /\ UNCHANGED rc
    /\ UNCHANGED <<file, args, data, next, applied, already, start>>
BadCheckFlag ==
    /\ pc = "loop" /\ next > Len(Table) /\ pc' = "write"
    /\ UNCHANGED <<file, args, data, next, applied, already, rc, start>>
Check ==
    /\ pc = "loop" /\ next > Len(Table)
    /\ IF args.check THEN pc' = "idle" /\ rc' = 0
                     ELSE pc' = "write" /\ UNCHANGED rc
    /\ UNCHANGED <<file, args, data, next, applied, already, start>>

Write ==
    /\ pc = "write" /\ pc' = "idle" /\ rc' = 0
    /\ file' = [file EXCEPT ![args.output] = data]
    /\ UNCHANGED <<args, data, next, applied, already, start>>

\* The process is killed.  While it writes, the output is a prefix.
Kill ==
    /\ pc # "idle" /\ pc' = "idle"
    /\ \/ UNCHANGED file
       \/ /\ pc = "write"
          /\ \E n \in 0..Len(data) :
                file' = [file EXCEPT ![args.output] = SubSeq(data, 1, n)]
    /\ UNCHANGED <<args, data, next, applied, already, rc, start>>

Next ==
    \/ \E a \in [rbp : Files, output : Files, check : BOOLEAN] : Run(a)
    \/ Reject \/ Apply \/ Check \/ Write \/ Kill

Spec == Init /\ [][Next]_vars

-----------------------------------------------------------------------------
(* Properties.                                                             *)

TypeOK ==
    /\ file \in [Files -> Image] /\ start \in [Files -> Image]
    /\ pc \in {"idle", "loop", "write"}
    /\ args \in [rbp : Files, output : Files, check : BOOLEAN]
    /\ data \in Image /\ next \in 1..Len(Table)+1
    /\ applied \in 0..Len(Table) /\ already \in 0..Len(Table)
    /\ rc \in {-1, 0, 2}

Abstract == INSTANCE AtomicPatch WITH file <- file

\* A file changes only into the patched form of an accepted binary (cut off
\* if the run is killed): no prefix of the table ever reaches a file, and
\* a binary with one foreign word leaves every file as it was.
AllOrNothing == Abstract!Spec

\* The counts the tool prints add up: at the end of an accepted run every
\* patch was applied or already present, and "applied" counts exactly the
\* words that were stock in the binary the run was given.
CountsAddUp ==
    rc = 0 =>
        /\ applied + already = Len(Table)
        /\ applied = Cardinality({i \in 1..Len(Table) :
               start[args.rbp][Table[i].at] = Table[i].old})

\* "Running it on an already-patched binary is a no-op and never
\* double-applies": a file an accepted run wrote is accepted again, and
\* patching it gives the same file.
Idempotent ==
    rc = 0 /\ ~args.check =>
        LET out == file[args.output]
        IN  Acceptable(out) /\ Patched(out) = out

\* A run that ends with status 2, or one with --check, changed no file.
RejectedUntouched == rc = 2 \/ (rc = 0 /\ args.check) => file = start
=============================================================================
