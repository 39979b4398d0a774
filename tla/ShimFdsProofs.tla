---------------------------- MODULE ShimFdsProofs ----------------------------
(***************************************************************************)
(* Proofs that the descriptor tables of the two libraries implement        *)
(* DeviceFiles and lose no descriptor, for every number of threads,        *)
(* descriptors, flags and slots and every interleaving of the calls.       *)
(***************************************************************************)
EXTENDS ShimFds, TLAPS, FiniteSetTheorems, WellFoundedInduction

Ops == {"none", "open", "close", "dup"} \cup TouchOps

\* The descriptors of the reader.
Ends == {evfd, out_pipe[1], out_pipe[2]} \ {None}

CallTypes ==
    call \in [Threads -> [op   : Ops,
                          fd   : Fds \cup {None},
                          from : Fds \cup {None},
                          dev  : {None, "gpio", "file", "touch"}]]

\* NoDescriptorLost, one descriptor at a time.
Accounted ==
    \A fd \in Fds : kern[fd] # None <=>
        held[fd] # None \/ fd \in Ends \/ \E t \in Threads : call[t].fd = fd

\* A descriptor is with rbp, with the reader or in one call, never in two of
\* them, so what is released under one owner is nobody else's.
Apart ==
    /\ \A fd \in Fds : held[fd] # None =>
           fd \notin Ends /\ \A t \in Threads : call[t].fd # fd
    /\ \A t \in Threads : call[t].fd \notin Ends
    /\ \A t, u \in Threads : call[t].fd = call[u].fd /\ call[t].fd # None => t = u
    /\ evfd # None => evfd \notin {out_pipe[1], out_pipe[2]}

\* What a call knows of its descriptor between its steps.
Steps ==
    \A t \in Threads :
        /\ call[t].fd = None <=> call[t].op \in {"none", "event", "pipe", "thread", "end"}
        /\ call[t].op = "open" =>
               call[t].dev \in {"gpio", "file"} /\ kern[call[t].fd] = call[t].dev
        /\ call[t].op = "dup" =>
               /\ call[t].from \in Tabled /\ call[t].dev # None
               /\ kern[call[t].fd] = call[t].dev /\ held[call[t].from] = call[t].dev
        /\ call[t].op = "slot" => kern[call[t].fd] = "touch"

\* The flags are right for the descriptors rbp has; only a dup that has not
\* come to its flag leaves one on a descriptor rbp does not have.
Flags ==
    /\ \A fd \in Fds : held[fd] # None =>
           (fd \in is_gpio <=> held[fd] = "gpio" /\ fd \in Tabled)
    /\ \A fd \in is_gpio : held[fd] # None \/
           \E t \in Threads : call[t].op = "dup" /\ call[t].fd = fd

\* ensure_reader: one thread, and what it has done so far.
Starting ==
    /\ \A t, u \in Threads : call[t].op \in TouchOps /\ call[u].op \in TouchOps => t = u
    /\ \A t \in Threads : call[t].op \in {"event", "pipe", "thread"} => ~reader_started
    /\ ~reader_started =>
           /\ evfd # None <=> \E t \in Threads : call[t].op \in {"pipe", "thread"}
           /\ out_pipe # NoPipe <=> \E t \in Threads : call[t].op = "thread"

Inv == TypeOK /\ CallTypes /\ Accounted /\ Apart /\ Steps /\ Flags /\ Starting

LEMMA Constants ==
    /\ Fds \subseteq Nat /\ None \notin Fds /\ Tabled \subseteq Fds
    /\ None \notin {"gpio", "file", "event", "touch", "pipe"}
BY ShimFdsAssumption DEF Fds, Tabled

LEMMA LowestIsIn == ASSUME NEW S \in SUBSET Nat, S # {} PROVE Lowest(S) \in S
<1>1. PICK fd \in S : \A other \in S : ~(<<other, fd>> \in OpToRel(<, Nat))
  BY NatLessThanWellFounded, WFMin
<1>2. \A other \in S : fd <= other
  <2>1. SUFFICES ASSUME NEW other \in S PROVE fd <= other
    OBVIOUS
  <2>2. ~(other < fd)
    BY <1>1 DEF OpToRel
  <2>3. fd \in Nat /\ other \in Nat
    OBVIOUS
  <2>4. QED
    BY <2>2
<1>3. QED
  BY <1>2 DEF Lowest

\* A free number is nobody's and is not flagged, and so is one the kernel gives.
LEMMA FreeIsNobodys ==
    ASSUME Inv, NEW new \in Free
    PROVE  /\ new \in Fds /\ new # None /\ kern[new] = None
           /\ held[new] = None /\ new \notin Ends /\ new \notin is_gpio
           /\ \A t \in Threads : call[t].fd # new
<1>1. new \in Fds /\ kern[new] = None
  BY DEF Free
<1>2. /\ held[new] = None /\ new \notin Ends
      /\ \A t \in Threads : call[t].fd # new
  BY <1>1 DEF Inv, Accounted
<1>3. new \notin is_gpio
  BY <1>2 DEF Inv, Flags
<1>4. QED
  BY <1>1, <1>2, <1>3, Constants

LEMMA NewIsNobodys ==
    ASSUME Inv, NEW S \in SUBSET Free, S # {}
    PROVE  LET new == Lowest(S)
           IN  /\ new \in S /\ new \in Fds /\ new # None /\ kern[new] = None
               /\ held[new] = None /\ new \notin Ends /\ new \notin is_gpio
               /\ \A t \in Threads : call[t].fd # new
<1>1. Lowest(S) \in S /\ Lowest(S) \in Free
  BY LowestIsIn, Constants DEF Free
<1>2. QED
  BY <1>1, FreeIsNobodys

LEMMA InitInv == Init => Inv
<1> SUFFICES ASSUME Init PROVE Inv
  OBVIOUS
<1>1. TypeOK /\ CallTypes
  BY DEF Init, TypeOK, CallTypes, Idle, Ops
<1>2. Accounted /\ Apart /\ Steps /\ Flags
  BY Constants DEF Init, Accounted, Apart, Steps, Flags, Ends, NoPipe, Idle
<1>3. Starting
  BY DEF Init, Starting, Idle, TouchOps
<1>4. QED
  BY <1>1, <1>2, <1>3 DEF Inv

LEMMA GotoIs ==
    ASSUME Inv, NEW t \in Threads, NEW op, Goto(t, op)
    PROVE  call' = [call EXCEPT ![t] = [op |-> op, fd |-> call[t].fd,
                                        from |-> call[t].from, dev |-> call[t].dev]]
<1>1. call[t] = [op |-> call[t].op, fd |-> call[t].fd,
                 from |-> call[t].from, dev |-> call[t].dev]
  BY DEF Inv, CallTypes
<1>2. [call[t] EXCEPT !.op = op] = [op |-> op, fd |-> call[t].fd,
                                    from |-> call[t].from, dev |-> call[t].dev]
  BY <1>1
<1>3. call' = [call EXCEPT ![t] = [call[t] EXCEPT !.op = op]]
  BY Zenon DEF Goto
<1>4. QED
  BY <1>2, <1>3, Zenon

LEMMA TwoFree ==
    ASSUME Cardinality(Free) > 1 PROVE Free # {} /\ Free \ {New} # {}
<1>1. Free # {}
  BY FS_EmptySet
<1>2. ASSUME Free \ {New} = {} PROVE FALSE
  <2>1. Free = {New}
    BY <1>1, <1>2
  <2>2. Cardinality({New}) = 1
    BY FS_Singleton
  <2>3. Cardinality(Free) = 1
    BY <2>1, <2>2
  <2>4. QED
    BY <2>3
<1>3. QED
  BY <1>2

-----------------------------------------------------------------------------
(* The steps of a call.  A descriptor leaves one owner and comes to the    *)
(* next in the same step, so Accounted and Apart go together; the flags    *)
(* change in the steps that give rbp a descriptor or take it.              *)

LEMMA OpenPathKeeps ==
    ASSUME Inv, NEW t \in Threads, NEW d \in {"gpio", "file"}, OpenPath(t, d)
    PROVE  Inv'
<1>1. TypeOK'
  BY NewIsNobodys DEF Inv, OpenPath, New, tables, TypeOK
<1>2. CallTypes'
  BY NewIsNobodys DEF Inv, OpenPath, Enter, New, CallTypes, Ops
<1>3. Accounted'
  BY Constants DEF Inv, OpenPath, At, Enter, tables, Accounted, CallTypes,
     TypeOK, Ends, Steps
<1>4. Apart'
  BY NewIsNobodys DEF Inv, OpenPath, Enter, New, tables, Apart, Ends
<1>5. Steps'
  BY NewIsNobodys DEF Inv, OpenPath, Enter, New, Steps, TypeOK
<1>6. Flags'
  BY DEF Inv, OpenPath, At, Enter, tables, Flags
<1>7. Starting'
  BY DEF Inv, OpenPath, At, Enter, tables, Starting, TouchOps
<1>8. QED
  BY <1>1, <1>2, <1>3, <1>4, <1>5, <1>6, <1>7 DEF Inv

LEMMA OpenFlagKeeps ==
    ASSUME Inv, NEW t \in Threads, OpenFlag(t)
    PROVE  Inv'
<1>1. TypeOK'
  BY DEF Inv, OpenFlag, At, TypeOK, Steps
<1>2. CallTypes'
  BY DEF Inv, OpenFlag, Leave, Idle, CallTypes, Ops
<1>3. Accounted'
  BY Constants DEF Inv, OpenFlag, At, Leave, Idle, Accounted, TypeOK, Ends,
     Steps
<1>4. Apart'
  BY Constants DEF Inv, OpenFlag, Leave, Idle, Apart, CallTypes, TypeOK, Ends
<1>a. /\ call[t].op = "open" /\ call[t].fd \in Fds /\ held[call[t].fd] = None
      /\ call' = [call EXCEPT ![t] = Idle] /\ kern' = kern
      /\ held' = [held EXCEPT ![call[t].fd] = call[t].dev]
  BY DEF OpenFlag, Inv, At, Leave, Steps, Apart, CallTypes
<1>5. Steps'
  BY <1>a DEF Inv, Steps, Idle
<1>6. Flags'
  BY Constants DEF Inv, OpenFlag, At, Leave, Flags, Steps, TypeOK, Apart
<1>7. Starting'
  BY DEF Inv, OpenFlag, At, Leave, Idle, Starting, TouchOps
<1>8. QED
  BY <1>1, <1>2, <1>3, <1>4, <1>5, <1>6, <1>7 DEF Inv

LEMMA CloseKeeps ==
    ASSUME Inv, NEW t \in Threads, NEW fd \in Fds, Close(t, fd)
    PROVE  Inv'
<1>0. slot' \in [0..Slots-1 -> Fds \cup {None}]
  BY DEF Inv, TypeOK, Close, Unslot
<1>1. TypeOK'
  BY <1>0 DEF Inv, Close, TypeOK
<1>2. CallTypes'
  BY DEF Inv, Close, Enter, CallTypes, Ops
<1>3. Accounted'
  BY Constants DEF Inv, Close, At, Enter, Accounted, CallTypes, Ends, Steps
<1>4. Apart'
  BY DEF Inv, Close, Enter, Apart, TypeOK, Ends
<1>5. Steps'
  BY DEF Inv, Close, At, Enter, Busy, Steps, Apart
<1>6. Flags'
  BY DEF Inv, Close, At, Enter, Flags, TypeOK
<1>7. Starting'
  BY DEF Inv, Close, At, Enter, Starting, TouchOps
<1>8. QED
  BY <1>1, <1>2, <1>3, <1>4, <1>5, <1>6, <1>7 DEF Inv

LEMMA RealCloseKeeps ==
    ASSUME Inv, NEW t \in Threads, RealClose(t)
    PROVE  Inv'
<1>1. TypeOK'
  BY DEF Inv, RealClose, Release, tables, TypeOK, Apart
<1>2. CallTypes'
  BY DEF Inv, RealClose, Leave, Idle, CallTypes, Ops
<1>3. Accounted'
  BY Constants DEF Inv, RealClose, Leave, Idle, Release, tables, Accounted,
     Apart, CallTypes, Ends
<1>4. Apart'
  BY Constants DEF Inv, RealClose, Leave, Idle, Release, tables, Apart,
     Accounted, Ends
<1>5. Steps'
  BY DEF Inv, RealClose, Leave, Idle, Release, Steps, Apart, CallTypes
<1>6. Flags'
  BY DEF Inv, RealClose, At, Leave, tables, Flags
<1>7. Starting'
  BY DEF Inv, RealClose, At, Leave, Idle, tables, Starting, TouchOps
<1>8. QED
  BY <1>1, <1>2, <1>3, <1>4, <1>5, <1>6, <1>7 DEF Inv

LEMMA DupKeeps ==
    ASSUME Inv, NEW t \in Threads, NEW fd \in Fds, NEW new \in Fds, Dup(t, fd, new)
    PROVE  Inv'
<1>1. TypeOK'
  BY DEF Inv, Dup, tables, TypeOK
<1>2. CallTypes'
  BY DEF Inv, Dup, Enter, CallTypes, TypeOK, Ops
<1>3. Accounted'
  BY Constants DEF Inv, Dup, At, Enter, Busy, tables, Accounted, CallTypes,
     TypeOK, Ends, Steps
<1>4. Apart'
  BY FreeIsNobodys DEF Inv, Dup, Enter, tables, Apart, TypeOK, Ends
<1>5. Steps'
  BY FreeIsNobodys DEF Inv, Dup, At, Enter, Busy, Steps, Apart, TypeOK
<1>6. Flags'
  BY DEF Inv, Dup, At, Enter, tables, Flags, CallTypes
<1>7. Starting'
  BY DEF Inv, Dup, At, Enter, tables, Starting, TouchOps
<1>8. QED
  BY <1>1, <1>2, <1>3, <1>4, <1>5, <1>6, <1>7 DEF Inv

LEMMA DupFlagKeeps ==
    ASSUME Inv, NEW t \in Threads, DupFlag(t)
    PROVE  Inv'
<1>1. TypeOK'
  BY DEF Inv, DupFlag, At, TypeOK, CallTypes, Steps
<1>2. CallTypes'
  BY DEF Inv, DupFlag, Leave, Idle, CallTypes, Ops
<1>3. Accounted'
  BY Constants DEF Inv, DupFlag, At, Leave, Idle, Accounted, Apart, TypeOK,
     Ends, Steps
<1>4. Apart'
  BY Constants DEF Inv, DupFlag, Leave, Idle, Apart, CallTypes, TypeOK, Ends
<1>e. call[t].op = "dup" /\ call[t].fd \in Fds /\ held[call[t].fd] = None
  BY DEF DupFlag, Inv, At, Steps, Apart, CallTypes
<1>f. /\ call' = [call EXCEPT ![t] = Idle] /\ kern' = kern
      /\ held' = [held EXCEPT ![call[t].fd] = call[t].dev]
  BY DEF DupFlag, Leave
<1>a. /\ call[t].op = "dup" /\ call[t].fd \in Fds /\ held[call[t].fd] = None
      /\ call' = [call EXCEPT ![t] = Idle] /\ kern' = kern
      /\ held' = [held EXCEPT ![call[t].fd] = call[t].dev]
  BY <1>e, <1>f
<1>5. Steps'
  BY <1>a DEF Inv, Steps, Idle
<1>c. \/ /\ call[t].fd \in Tabled /\ call[t].from \in is_gpio
         /\ is_gpio' = is_gpio \cup {call[t].fd}
      \/ /\ call[t].fd \in Tabled /\ call[t].from \notin is_gpio
         /\ is_gpio' = is_gpio \ {call[t].fd}
      \/ call[t].fd \notin Tabled /\ is_gpio' = is_gpio
  BY <1>a DEF DupFlag, Inv, Steps
<1>d. call[t].dev # None /\ (call[t].from \in is_gpio <=> call[t].dev = "gpio")
  <2>1. /\ call[t].from \in Fds /\ call[t].from \in Tabled
        /\ call[t].dev # None /\ held[call[t].from] = call[t].dev
    BY <1>e, Constants DEF Inv, Steps
  <2>2. QED
    BY <2>1 DEF Inv, Flags
<1>g. \A u \in Threads : u # t => call'[u] = call[u] /\ call[u].fd # call[t].fd
  BY <1>a, Constants DEF Inv, Apart
<1>h. \A fd \in Fds \ {call[t].fd} :
          held'[fd] = held[fd] /\ (fd \in is_gpio' <=> fd \in is_gpio)
  BY <1>a, <1>c
<1>i. held'[call[t].fd] = call[t].dev
  BY <1>a DEF Inv, TypeOK
<1>j. call[t].fd \notin Tabled => call[t].fd \notin is_gpio'
  BY <1>c DEF Inv, TypeOK
<1>6. Flags'
  <2>1. \A fd \in Fds : held'[fd] # None =>
            (fd \in is_gpio' <=> held'[fd] = "gpio" /\ fd \in Tabled)
    BY <1>c, <1>d, <1>h, <1>i, <1>j DEF Inv, Flags
  <2>2. is_gpio' \subseteq Fds
    BY <1>c, Constants DEF Inv, TypeOK
  <2>3. \A fd \in is_gpio' : held'[fd] # None \/
            \E u \in Threads : call'[u].op = "dup" /\ call'[u].fd = fd
    BY <1>d, <1>g, <1>h, <1>i, <2>2 DEF Inv, Flags
  <2>4. QED
    BY <2>1, <2>3 DEF Flags
<1>7. Starting'
  BY DEF Inv, DupFlag, At, Leave, Idle, Starting, TouchOps
<1>8. QED
  BY <1>1, <1>2, <1>3, <1>4, <1>5, <1>6, <1>7 DEF Inv

LEMMA OpenTouchKeeps ==
    ASSUME Inv, NEW t \in Threads, OpenTouch(t)
    PROVE  Inv'
<1>1. TypeOK'
  BY DEF Inv, OpenTouch, tables, TypeOK
<1>2. CallTypes'
  BY DEF Inv, OpenTouch, Enter, CallTypes, Ops, TouchOps
<1>3. Accounted'
  BY DEF Inv, OpenTouch, At, Enter, tables, Accounted, Ends, Steps
<1>4. Apart'
  BY DEF Inv, OpenTouch, At, Enter, tables, Apart, Ends, Steps
<1>5. Steps'
  BY DEF Inv, OpenTouch, Enter, Steps
<1>a. call[t].op = "none" /\ UNCHANGED <<is_gpio, held>>
  BY DEF OpenTouch, At, tables
<1>b. \A u \in Threads : call[u].op = "dup" => call'[u] = call[u]
  BY <1>a DEF OpenTouch, Enter
<1>6. Flags'
  BY <1>a, <1>b DEF Inv, Flags
<1>7. Starting'
  BY DEF Inv, OpenTouch, Enter, tables, Starting, TouchOps
<1>8. QED
  BY <1>1, <1>2, <1>3, <1>4, <1>5, <1>6, <1>7 DEF Inv

\* ensure_reader: the thread that runs it is alone, so evfd and out_pipe are
\* what its own steps left, and what a failure releases is the reader's.
LEMMA EventDeviceKeeps ==
    ASSUME Inv, NEW t \in Threads, EventDevice(t)
    PROVE  Inv'
<1>0. /\ call[t].op = "event" /\ ~reader_started /\ evfd = None /\ out_pipe = NoPipe
      /\ call[t].fd = None
      /\ UNCHANGED <<lib, is_gpio, slot, out_pipe, reader_started, held>>
  BY DEF EventDevice, At, Inv, Starting, TouchOps, Steps
<1>1. CASE /\ Free # {} /\ Goto(t, "pipe")
           /\ kern' = [kern EXCEPT ![New] = "event"] /\ evfd' = New
  <2>0. /\ New \in Fds /\ kern[New] = None /\ held[New] = None
        /\ New \notin Ends /\ New \notin is_gpio /\ New # None
        /\ \A u \in Threads : call[u].fd # New
    BY <1>1, NewIsNobodys DEF New
  <2>00. call' = [call EXCEPT ![t] = [op |-> "pipe", fd |-> call[t].fd,
                                      from |-> call[t].from, dev |-> call[t].dev]]
    BY <1>1, GotoIs
  <2>1. TypeOK'
    BY <1>0, <1>1, <2>0 DEF Inv, TypeOK
  <2>2. CallTypes'
    BY <2>00 DEF Inv, CallTypes, Ops, TouchOps
  <2>e. Ends' = Ends \cup {New}
    BY <1>0, <1>1, <2>0 DEF Ends, NoPipe
  <2>3. Accounted'
    BY <1>0, <1>1, <2>00, Constants, <2>e DEF Inv, Accounted, TypeOK
  <2>4. Apart'
    BY <1>0, <1>1, <2>0, <2>00 DEF Inv, Apart, Ends
  <2>5. Steps'
    BY <1>0, <1>1, <2>0, <2>00 DEF Inv, Steps
  <2>6. Flags'
    BY <1>0, <2>00 DEF Inv, Flags
  <2>d. \A u \in Threads : call'[u].op = IF u = t THEN "pipe" ELSE call[u].op
    BY <2>00 DEF Inv, CallTypes
  <2>h. \A u \in Threads : u # t => call[u].op \notin TouchOps
    BY <1>0 DEF Inv, Starting, TouchOps
  <2>7. Starting'
    BY <1>0, <1>1, <2>0, <2>d, <2>h DEF Starting, TouchOps
  <2>8. QED
    BY <2>1, <2>2, <2>3, <2>4, <2>5, <2>6, <2>7 DEF Inv
<1>2. CASE Leave(t) /\ UNCHANGED <<kern, evfd>>
  <2>1. TypeOK'
    BY <1>0, <1>2 DEF Inv, TypeOK
  <2>2. CallTypes'
    BY <1>2 DEF Inv, Leave, Idle, CallTypes, Ops
  <2>3. Accounted'
    BY <1>0, <1>2 DEF Inv, Leave, Idle, Accounted, Ends
  <2>4. Apart'
    BY <1>0, <1>2 DEF Inv, Leave, Idle, Apart, Ends
  <2>5. Steps'
    BY <1>0, <1>2 DEF Inv, Leave, Idle, Steps
  <2>d. \A u \in Threads : u # t => call'[u] = call[u]
    BY <1>2 DEF Leave
  <2>6. Flags'
    BY <1>0, <2>d DEF Inv, Flags
  <2>7. Starting'
    BY <1>0, <1>2 DEF Inv, Leave, Idle, Starting, TouchOps
  <2>8. QED
    BY <2>1, <2>2, <2>3, <2>4, <2>5, <2>6, <2>7 DEF Inv
<1>3. QED
  BY <1>1, <1>2 DEF EventDevice

LEMMA PipeKeeps ==
    ASSUME Inv, NEW t \in Threads, Pipe(t)
    PROVE  Inv'
<1>0. /\ call[t].op = "pipe" /\ ~reader_started /\ evfd \in Fds /\ out_pipe = NoPipe
      /\ call[t].fd = None
      /\ UNCHANGED <<lib, is_gpio, slot, reader_started, held>>
  BY DEF Pipe, At, Inv, Starting, TouchOps, Steps, TypeOK
<1>1. CASE /\ Cardinality(Free) > 1 /\ Goto(t, "thread") /\ UNCHANGED evfd
           /\ LET write == Lowest(Free \ {New})
              IN /\ kern' = [kern EXCEPT ![New] = "touch", ![write] = "pipe"]
                 /\ out_pipe' = <<New, write>>
  <2> DEFINE write == Lowest(Free \ {New})
  <2>a. Free # {} /\ Free \ {New} # {}
    BY <1>1, TwoFree
  <2>0. /\ New \in Fds /\ kern[New] = None /\ held[New] = None
        /\ New \notin Ends /\ New \notin is_gpio /\ New # None
        /\ \A u \in Threads : call[u].fd # New
    BY <2>a, NewIsNobodys DEF New
  <2>w. write \in Free \ {New} /\ Free \ {New} \subseteq Free
    BY <2>a, NewIsNobodys
  <2>b. /\ write \in Fds /\ kern[write] = None /\ held[write] = None
        /\ write \notin Ends /\ write \notin is_gpio /\ write # None
        /\ write # New /\ \A u \in Threads : call[u].fd # write
    BY <2>w, NewIsNobodys
  <2>00. call' = [call EXCEPT ![t] = [op |-> "thread", fd |-> call[t].fd,
                                      from |-> call[t].from, dev |-> call[t].dev]]
    BY <1>1, GotoIs
  <2>c. /\ kern' = [kern EXCEPT ![New] = "touch", ![write] = "pipe"]
        /\ out_pipe' = <<New, write>> /\ evfd' = evfd
    BY <1>1
  <2> HIDE DEF write
  <2>1. TypeOK'
    BY <1>0, <2>0, <2>b, <2>00, <2>c DEF Inv, TypeOK
  <2>2. CallTypes'
    BY <2>00 DEF Inv, CallTypes, Ops, TouchOps
  <2>e. Ends' = Ends \cup {New, write}
    BY <1>0, <2>0, <2>b, <2>c DEF Ends, NoPipe
  <2>3. Accounted'
    BY <1>0, <2>00, <2>c, Constants, <2>e DEF Inv, Accounted, TypeOK
  <2>4. Apart'
    BY <1>0, <2>0, <2>b, <2>00, <2>c DEF Inv, Apart, Ends
  <2>5. Steps'
    BY <1>0, <2>0, <2>b, <2>00, <2>c DEF Inv, Steps, CallTypes, TypeOK
  <2>6. Flags'
    BY <1>0, <2>00 DEF Inv, Flags
  <2>7. Starting'
    BY <1>0, <2>b, <2>00, <2>c DEF Inv, Starting, CallTypes, TouchOps, NoPipe
  <2>8. QED
    BY <2>1, <2>2, <2>3, <2>4, <2>5, <2>6, <2>7 DEF Inv
<1>2. CASE /\ Cardinality(Free) < 2 /\ Leave(t)
           /\ kern' = Release({evfd}) /\ evfd' = None /\ UNCHANGED out_pipe
  <2>1. TypeOK'
    BY <1>0, <1>2 DEF Inv, Release, TypeOK, Apart, Ends
  <2>2. CallTypes'
    BY <1>2 DEF Inv, Leave, Idle, CallTypes, Ops
  <2>3. Accounted'
    BY <1>0, <1>2, Constants DEF Inv, Leave, Idle, Release, Accounted, Apart,
       Ends
  <2>4. Apart'
    BY <1>0, <1>2 DEF Inv, Leave, Idle, Apart, Ends
  <2>5. Steps'
    BY <1>0, <1>2 DEF Inv, Leave, Idle, Release, Steps, Apart, CallTypes, Ends
  <2>6. Flags'
    BY <1>0, <1>2 DEF Inv, Leave, Flags
  <2>7. Starting'
    BY <1>0, <1>2 DEF Inv, Leave, Idle, Starting, CallTypes, TouchOps
  <2>8. QED
    BY <2>1, <2>2, <2>3, <2>4, <2>5, <2>6, <2>7 DEF Inv
<1>3. QED
  BY <1>1, <1>2 DEF Pipe

LEMMA StartReaderKeeps ==
    ASSUME Inv, NEW t \in Threads, StartReader(t)
    PROVE  Inv'
<1>0. /\ call[t].op = "thread" /\ ~reader_started
      /\ evfd \in Fds /\ out_pipe # NoPipe /\ out_pipe \in Fds \X Fds
      /\ call[t].fd = None
      /\ UNCHANGED <<lib, is_gpio, slot, held>>
  BY DEF StartReader, At, Inv, Starting, Steps, TypeOK
<1>1. CASE /\ Goto(t, "end") /\ reader_started' = TRUE
           /\ UNCHANGED <<kern, evfd, out_pipe>>
  <2>00. call' = [call EXCEPT ![t] = [op |-> "end", fd |-> call[t].fd,
                                      from |-> call[t].from, dev |-> call[t].dev]]
    BY <1>1, GotoIs
  <2>1. TypeOK'
    BY <1>0, <1>1 DEF Inv, TypeOK
  <2>2. CallTypes'
    BY <2>00 DEF Inv, CallTypes, Ops, TouchOps
  <2>3. Accounted'
    BY <1>0, <1>1, <2>00 DEF Inv, Accounted, Ends
  <2>4. Apart'
    BY <1>0, <1>1, <2>00 DEF Inv, Apart, Ends
  <2>5. Steps'
    BY <1>0, <1>1, <2>00 DEF Inv, Steps
  <2>6. Flags'
    BY <1>0, <2>00 DEF Inv, Flags
  <2>7. Starting'
    BY <1>0, <1>1, <2>00 DEF Inv, Starting, CallTypes, TouchOps
  <2>8. QED
    BY <2>1, <2>2, <2>3, <2>4, <2>5, <2>6, <2>7 DEF Inv
<1>2. CASE /\ Leave(t) /\ out_pipe' = NoPipe /\ evfd' = None
           /\ kern' = Release({evfd, out_pipe[1], out_pipe[2]})
           /\ UNCHANGED reader_started
  <2>0. Ends = {evfd, out_pipe[1], out_pipe[2]} /\ Ends' = {}
        /\ kern' = [fd \in Fds |-> IF fd \in Ends THEN None ELSE kern[fd]]
    BY <1>0, <1>2, Constants DEF Ends, NoPipe, Release
  <2>a. \A fd \in Fds : held[fd] # None => kern'[fd] = kern[fd]
    BY <2>0 DEF Inv, Apart
  <2>b. kern' \in [Fds -> {None, "gpio", "file", "event", "touch", "pipe"}]
    BY <2>0 DEF Inv, TypeOK
  <2>1. TypeOK'
    BY <1>0, <1>2, <2>a, <2>b DEF Inv, TypeOK
  <2>2. CallTypes'
    BY <1>2 DEF Inv, Leave, Idle, CallTypes, Ops
  <2>f. \A u \in Threads : call'[u].fd = call[u].fd
    BY <1>0, <1>2 DEF Leave, Idle
  <2>3. Accounted'
    <3> SUFFICES ASSUME NEW fd \in Fds
                 PROVE  kern'[fd] # None <=> \/ held'[fd] # None \/ fd \in Ends'
                                            \/ \E u \in Threads : call'[u].fd = fd
      BY DEF Accounted
    <3>1. fd \in Ends => held[fd] = None /\ \A u \in Threads : call[u].fd # fd
      BY DEF Inv, Apart
    <3>2. QED
      BY <1>0, <2>0, <2>f, <3>1 DEF Inv, Accounted
  <2>4. Apart'
    BY <1>0, <1>2, <2>0 DEF Inv, Leave, Idle, Apart
  <2>c. \A u \in Threads : call[u].fd \in Fds => kern'[call[u].fd] = kern[call[u].fd]
    BY <2>0 DEF Inv, Apart
  <2>d. \A u \in Threads : call'[u] = IF u = t THEN Idle ELSE call[u]
    BY <1>2 DEF Leave, Inv, CallTypes
  <2>5. Steps'
    BY <1>0, <2>c, <2>d DEF Inv, Steps, CallTypes, Idle
  <2>6. Flags'
    BY <1>0, <1>2 DEF Inv, Leave, Flags
  <2>7. Starting'
    BY <1>0, <1>2 DEF Inv, Leave, Idle, Starting, CallTypes, TouchOps
  <2>8. QED
    BY <2>1, <2>2, <2>3, <2>4, <2>5, <2>6, <2>7 DEF Inv
<1>3. QED
  BY <1>1, <1>2 DEF StartReader

LEMMA TouchEndKeeps ==
    ASSUME Inv, NEW t \in Threads, TouchEnd(t)
    PROVE  Inv'
<1>0. call[t].op = "end" /\ call[t].fd = None /\ UNCHANGED <<lib, tables, held>>
  BY DEF TouchEnd, At, Inv, Steps
<1>1. CASE /\ Free # {} /\ kern' = [kern EXCEPT ![New] = "touch"]
           /\ Enter(t, "slot", New, None, "touch")
  <2>0. /\ New \in Fds /\ kern[New] = None /\ held[New] = None
        /\ New \notin Ends /\ New \notin is_gpio /\ New # None
        /\ \A u \in Threads : call[u].fd # New
    BY <1>1, NewIsNobodys DEF New
  <2>1. TypeOK'
    BY <1>0, <1>1, <2>0 DEF Inv, tables, TypeOK
  <2>2. CallTypes'
    BY <1>1, <2>0 DEF Inv, Enter, CallTypes, Ops, TouchOps
  <2>3. Accounted'
    BY <1>0, <1>1, Constants DEF Inv, Enter, tables, Accounted, CallTypes,
       TypeOK, Ends
  <2>4. Apart'
    BY <1>0, <1>1, <2>0 DEF Inv, Enter, tables, Apart, Ends
  <2>5. Steps'
    BY <1>0, <1>1, <2>0 DEF Inv, Enter, Steps, TypeOK
  <2>6. Flags'
    BY <1>0, <1>1 DEF Inv, Enter, tables, Flags
  <2>7. Starting'
    BY <1>0, <1>1 DEF Inv, Enter, tables, Starting, TouchOps
  <2>8. QED
    BY <2>1, <2>2, <2>3, <2>4, <2>5, <2>6, <2>7 DEF Inv
<1>2. CASE Free = {} /\ Leave(t) /\ UNCHANGED kern
  <2>1. TypeOK'
    BY <1>0, <1>2 DEF Inv, tables, TypeOK
  <2>2. CallTypes'
    BY <1>2 DEF Inv, Leave, Idle, CallTypes, Ops
  <2>3. Accounted'
    BY <1>0, <1>2 DEF Inv, Leave, Idle, tables, Accounted, Ends
  <2>4. Apart'
    BY <1>0, <1>2 DEF Inv, Leave, Idle, tables, Apart, Ends
  <2>5. Steps'
    BY <1>0, <1>2 DEF Inv, Leave, Idle, Steps
  <2>6. Flags'
    BY <1>0, <1>2 DEF Inv, Leave, tables, Flags
  <2>7. Starting'
    BY <1>0, <1>2 DEF Inv, Leave, Idle, tables, Starting, TouchOps
  <2>8. QED
    BY <2>1, <2>2, <2>3, <2>4, <2>5, <2>6, <2>7 DEF Inv
<1>3. QED
  BY <1>1, <1>2 DEF TouchEnd

LEMMA TouchSlotKeeps ==
    ASSUME Inv, NEW t \in Threads, TouchSlot(t)
    PROVE  Inv'
<1>0. /\ call[t].op = "slot" /\ call[t].fd \in Fds /\ kern[call[t].fd] = "touch"
      /\ held[call[t].fd] = None
      /\ UNCHANGED <<lib, kern, is_gpio, evfd, out_pipe, reader_started>>
  BY DEF TouchSlot, At, Inv, Steps, CallTypes, Apart
<1>1. CASE /\ Unused # {} /\ Leave(t)
           /\ slot' = [slot EXCEPT ![Lowest(Unused)] = call[t].fd]
           /\ held' = [held EXCEPT ![call[t].fd] = "touch"]
  <2>0. slot' \in [0..Slots-1 -> Fds \cup {None}]
    BY <1>0, <1>1 DEF Inv, TypeOK
  <2>1. TypeOK'
    BY <1>0, <1>1 DEF Inv, TypeOK
  <2>2. CallTypes'
    BY <1>1 DEF Inv, Leave, Idle, CallTypes, Ops
  <2>3. Accounted'
    BY <1>0, <1>1, Constants DEF Inv, Leave, Idle, Accounted, TypeOK, Ends
  <2>4. Apart'
    BY <1>0, <1>1, Constants DEF Inv, Leave, Idle, Apart, CallTypes, Ends
  <2>5. Steps'
    BY <1>0, <1>1 DEF Inv, Leave, Idle, Steps
  <2>6. Flags'
    BY <1>0, <1>1 DEF Inv, Leave, Flags, Steps, Apart
  <2>7. Starting'
    BY <1>0, <1>1 DEF Inv, Leave, Idle, Starting, TouchOps
  <2>8. QED
    BY <2>1, <2>2, <2>3, <2>4, <2>5, <2>6, <2>7 DEF Inv
<1>2. CASE Unused = {} /\ Goto(t, "drop") /\ UNCHANGED <<slot, held>>
  <2>00. call' = [call EXCEPT ![t] = [op |-> "drop", fd |-> call[t].fd,
                                      from |-> call[t].from, dev |-> call[t].dev]]
    BY <1>2, GotoIs
  <2>1. TypeOK'
    BY <1>0, <1>2 DEF Inv, TypeOK
  <2>2. CallTypes'
    BY <2>00 DEF Inv, CallTypes, Ops, TouchOps
  <2>3. Accounted'
    BY <1>0, <1>2, <2>00 DEF Inv, Accounted, Ends
  <2>4. Apart'
    BY <1>0, <1>2, <2>00 DEF Inv, Apart, Ends
  <2>5. Steps'
    BY <1>0, <1>2, <2>00 DEF Inv, Steps
  <2>6. Flags'
    BY <1>0, <1>2, <2>00 DEF Inv, Flags
  <2>7. Starting'
    BY <1>0, <2>00 DEF Inv, Starting, TouchOps
  <2>8. QED
    BY <2>1, <2>2, <2>3, <2>4, <2>5, <2>6, <2>7 DEF Inv
<1>3. QED
  BY <1>1, <1>2 DEF TouchSlot

LEMMA TouchDropKeeps ==
    ASSUME Inv, NEW t \in Threads, TouchDrop(t)
    PROVE  Inv'
<1>1. TypeOK'
  BY DEF Inv, TouchDrop, Release, tables, TypeOK, Apart
<1>2. CallTypes'
  BY DEF Inv, TouchDrop, Leave, Idle, CallTypes, Ops
<1>3. Accounted'
  BY Constants DEF Inv, TouchDrop, Leave, Idle, Release, tables, Accounted,
     Apart, CallTypes, Ends
<1>4. Apart'
  BY Constants DEF Inv, TouchDrop, Leave, Idle, tables, Apart, Ends
<1>5. Steps'
  BY DEF Inv, TouchDrop, Leave, Idle, Release, Steps, Apart, CallTypes
<1>6. Flags'
  BY DEF Inv, TouchDrop, At, Leave, tables, Flags
<1>7. Starting'
  BY DEF Inv, TouchDrop, At, Leave, Idle, tables, Starting, TouchOps
<1>8. QED
  BY <1>1, <1>2, <1>3, <1>4, <1>5, <1>6, <1>7 DEF Inv

LEMMA ReaderKeeps == ASSUME Inv, Reader PROVE Inv'
<1>0. /\ reader_started
      /\ UNCHANGED <<lib, is_gpio, slot, out_pipe, reader_started, held, call>>
  BY DEF Reader
<1>1. CASE evfd # None /\ evfd' = None /\ kern' = Release({evfd})
  <2>1. TypeOK'
    BY <1>0, <1>1 DEF Inv, Release, TypeOK, Apart, Ends
  <2>2. CallTypes'
    BY <1>0 DEF Inv, CallTypes, Ops, TouchOps
  <2>3. Accounted'
    BY <1>0, <1>1 DEF Inv, Release, Accounted, Apart, Ends
  <2>4. Apart'
    BY <1>0, <1>1 DEF Inv, Apart, Ends
  <2>5. Steps'
    BY <1>0, <1>1 DEF Inv, Release, Steps, Apart, CallTypes, Ends
  <2>6. Flags'
    BY <1>0 DEF Inv, Flags
  <2>7. Starting'
    BY <1>0 DEF Inv, Starting
  <2>8. QED
    BY <2>1, <2>2, <2>3, <2>4, <2>5, <2>6, <2>7 DEF Inv
<1>2. CASE /\ evfd = None /\ Free # {}
           /\ evfd' = New /\ kern' = [kern EXCEPT ![New] = "event"]
  <2>0. /\ New \in Fds /\ kern[New] = None /\ held[New] = None
        /\ New \notin Ends /\ New \notin is_gpio /\ New # None
        /\ \A u \in Threads : call[u].fd # New
    BY <1>2, NewIsNobodys DEF New
  <2>1. TypeOK'
    BY <1>0, <1>2, <2>0 DEF Inv, TypeOK
  <2>2. CallTypes'
    BY <1>0 DEF Inv, CallTypes, Ops, TouchOps
  <2>e. Ends' = Ends \cup {New}
    BY <1>0, <1>2, <2>0 DEF Ends, NoPipe
  <2>3. Accounted'
    BY <1>0, <1>2, Constants, <2>e DEF Inv, Accounted, TypeOK
  <2>4. Apart'
    BY <1>0, <1>2, <2>0 DEF Inv, Apart, Ends
  <2>5. Steps'
    BY <1>0, <1>2, <2>0 DEF Inv, Steps
  <2>6. Flags'
    BY <1>0 DEF Inv, Flags
  <2>7. Starting'
    BY <1>0 DEF Inv, Starting
  <2>8. QED
    BY <2>1, <2>2, <2>3, <2>4, <2>5, <2>6, <2>7 DEF Inv
<1>3. QED
  BY <1>1, <1>2 DEF Reader

-----------------------------------------------------------------------------
(* The results.                                                            *)

LEMMA StutterKeeps == ASSUME Inv, UNCHANGED vars PROVE Inv'
BY DEF Inv, vars, tables, TypeOK, CallTypes, Accounted, Apart, Steps, Flags, Starting, Ends

LEMMA Invariance == Spec => []Inv
<1>1. Inv /\ [Next]_vars => Inv'
  <2> SUFFICES ASSUME Inv, [Next]_vars PROVE Inv'
    OBVIOUS
  <2>1. CASE Reader
    BY <2>1, ReaderKeeps
  <2>2. ASSUME NEW t \in Threads, Thread(t) PROVE Inv'
    BY <2>2, OpenPathKeeps, OpenFlagKeeps, CloseKeeps, RealCloseKeeps, DupKeeps,
       DupFlagKeeps, OpenTouchKeeps, EventDeviceKeeps, PipeKeeps, StartReaderKeeps,
       TouchEndKeeps, TouchSlotKeeps, TouchDropKeeps DEF Thread
  <2>3. CASE UNCHANGED vars
    BY <2>3, StutterKeeps
  <2>4. QED
    BY <2>1, <2>2, <2>3 DEF Next
<1>2. QED
  BY InitInv, <1>1, PTL DEF Spec

\* Every table keeps its type, and rbp has what the kernel has.
THEOREM DescriptorTypes == Spec => []TypeOK
<1>1. Inv => TypeOK
  BY DEF Inv
<1>2. QED
  BY Invariance, <1>1, PTL

\* No descriptor is lost, also when a step of ensure_reader fails or the
\* touch slots are full: close of what the failed call had goes through.
THEOREM DescriptorsKept == Spec => []NoDescriptorLost
<1>1. Inv => NoDescriptorLost
  BY Constants DEF Inv, Accounted, Ends, NoDescriptorLost, TypeOK, CallTypes
<1>2. QED
  BY Invariance, <1>1, PTL

\* While the invariant holds what a descriptor answers follows from its
\* device alone, so a step of the libraries is a step of DeviceFiles when
\* what it does to held is one.
Answers == [fd \in Fds |-> IF held[fd] = None THEN None
                           ELSE Promise!Right(fd, held[fd])]

LEMMA AnswerFollows == (Inv => Answer = Answers) /\ (Inv => Answer = Answers)'
<1>1. Inv => Answer = Answers
  <2> SUFFICES ASSUME Inv PROVE Answer = Answers
    OBVIOUS
  <2>1. \A fd \in Fds : held[fd] # None => Read(fd) = Promise!Right(fd, held[fd])
    BY DEF Inv, Flags, TypeOK, Read, Promise!Right
  <2>2. QED
    BY <2>1 DEF Answer, Answers
<1>2. QED
  BY <1>1, PTL

Gains(fd, d) == held[fd] = None /\ held' = [held EXCEPT ![fd] = d]
Loses(fd) == held[fd] # None /\ held' = [held EXCEPT ![fd] = None]

LEMMA GainIsOpen ==
    ASSUME Inv, Inv', NEW fd \in Fds, NEW d \in {"gpio", "file", "touch"}, Gains(fd, d)
    PROVE  Promise!Open(fd, d)
<1>1. DOMAIN held = Fds /\ d # None
  BY Constants DEF Inv, TypeOK
<1>2. Answer' = [Answer EXCEPT ![fd] = Promise!Right(fd, d)]
  BY <1>1, AnswerFollows DEF Answers, Gains
<1>3. QED
  BY <1>2 DEF Gains, Promise!Open

LEMMA LossIsClose ==
    ASSUME Inv, Inv', NEW fd \in Fds, Loses(fd)
    PROVE  Promise!Close(fd)
<1>1. DOMAIN held = Fds
  BY DEF Inv, TypeOK
<1>2. Answer' = [Answer EXCEPT ![fd] = None]
  BY <1>1, AnswerFollows DEF Answers, Loses
<1>3. QED
  BY <1>2 DEF Loses, Promise!Close

LEMMA SameIsStutter ==
    ASSUME Inv, Inv', UNCHANGED held
    PROVE  UNCHANGED <<held, Answer>>
BY AnswerFollows DEF Answers

LEMMA ThreadStep ==
    ASSUME Inv, NEW t \in Threads, Thread(t)
    PROVE  \/ UNCHANGED held
           \/ \E fd \in Fds : Loses(fd)
           \/ \E fd \in Fds, d \in {"gpio", "file", "touch"} : Gains(fd, d)
<1>1. CASE OpenFlag(t) \/ DupFlag(t)
  <2>1. /\ call[t].op \in {"open", "dup"} /\ call[t].fd \in Fds
        /\ held[call[t].fd] = None /\ call[t].dev \in {"gpio", "file", "touch"}
    BY <1>1 DEF Inv, OpenFlag, DupFlag, At, Steps, Apart, CallTypes
  <2>2. held' = [held EXCEPT ![call[t].fd] = call[t].dev]
    BY <1>1 DEF OpenFlag, DupFlag
  <2>3. QED
    BY <2>1, <2>2 DEF Gains
<1>2. CASE TouchSlot(t)
  <2>1. call[t].fd \in Fds /\ held[call[t].fd] = None
    BY <1>2 DEF Inv, TouchSlot, At, Steps, Apart, CallTypes
  <2>2. QED
    BY <1>2, <2>1 DEF TouchSlot, Gains
<1>3. ASSUME NEW fd \in Fds, Close(t, fd) PROVE Loses(fd)
  BY <1>3 DEF Close, Loses
<1>4. ASSUME NEW fd \in Fds, NEW new \in Fds, Dup(t, fd, new)
      PROVE  UNCHANGED held \/ Loses(new)
  <2>1. held' = [held EXCEPT ![new] = None]
    BY <1>4 DEF Dup
  <2>2. held[new] = None => held' = held
    BY <2>1 DEF Inv, TypeOK
  <2>3. QED
    BY <2>1, <2>2 DEF Loses
<1>5. CASE \/ \E d \in {"gpio", "file"} : OpenPath(t, d)
           \/ RealClose(t) \/ OpenTouch(t) \/ EventDevice(t) \/ Pipe(t)
           \/ StartReader(t) \/ TouchEnd(t) \/ TouchDrop(t)
  BY <1>5 DEF OpenPath, RealClose, OpenTouch, EventDevice, Pipe, StartReader,
              TouchEnd, TouchDrop
<1>6. QED
  BY <1>1, <1>2, <1>3, <1>4, <1>5 DEF Thread

\* The libraries keep their promise: whatever the threads open, close and
\* duplicate, a descriptor answers as the device rbp opened it on, from the
\* open to the close (the tables of fbshim-tsc.c and gpioshim.c).
THEOREM ShimsKeepPromise == Spec => AnswersAsOpened
<1>1. Init => Promise!Init
  BY DEF Init, Promise!Init, Answer
<1>2. Inv /\ Inv' /\ [Next]_vars => [Promise!Next]_<<held, Answer>>
  <2> SUFFICES ASSUME Inv, Inv', [Next]_vars
               PROVE  [Promise!Next]_<<held, Answer>>
    OBVIOUS
  <2>1. CASE Reader \/ UNCHANGED vars
    <3>1. UNCHANGED held
      BY <2>1 DEF Reader, vars
    <3>2. QED
      BY <3>1, SameIsStutter
  <2>2. ASSUME NEW t \in Threads, Thread(t)
        PROVE  [Promise!Next]_<<held, Answer>>
    <3>1. CASE UNCHANGED held
      BY <3>1, SameIsStutter
    <3>2. CASE \E fd \in Fds : Loses(fd)
      BY <3>2, LossIsClose DEF Promise!Next
    <3>3. CASE \E fd \in Fds, d \in {"gpio", "file", "touch"} : Gains(fd, d)
      BY <3>3, GainIsOpen DEF Promise!Next
    <3>4. QED
      BY <2>2, <3>1, <3>2, <3>3, ThreadStep
  <2>3. QED
    BY <2>1, <2>2 DEF Next
<1>3. QED
  BY Invariance, <1>1, <1>2, PTL DEF Spec, AnswersAsOpened, Promise!Spec
=============================================================================
