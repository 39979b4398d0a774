-------------------------- MODULE AudioShimProofs --------------------------
(***************************************************************************)
(* Proofs that the hardware has exactly one owner, that it plays whole     *)
(* periods and that the headphones get the cue, for every number of        *)
(* outputs, length of a period, order of opens and closes and interleaving *)
(* of the writes.                                                          *)
(***************************************************************************)
EXTENDS AudioShim, TLAPS, FiniteSetTheorems

\* What makes the ownership inductive.  An open is only tried at count 0, so
\* the count has to stay above 0 while anybody has the real or the null
\* handle; and the two are never out at the same time.
Ownership ==
    /\ real \in BOOLEAN /\ count \in Nat
    /\ DOMAIN handle = Outputs
    /\ real <=> \E o \in Outputs : handle[o] = "real"
    /\ \A o, q \in Outputs : handle[o] = "real" /\ handle[q] = "real" => o = q
    /\ \A o \in Outputs : handle[o] \in {"real", "null"} => count > 0
    /\ real => \A o \in Outputs : handle[o] # "null"

LEMMA OwnershipInit == Init => Ownership
<1> SUFFICES ASSUME Init PROVE Ownership
  OBVIOUS
<1>1. ~real /\ real \in BOOLEAN /\ count = 0
  BY DEF Init
<1>2. DOMAIN handle = Outputs /\ \A o \in Outputs : handle[o] = "closed"
  BY DEF Init
<1>3. QED
  BY <1>1, <1>2 DEF Ownership

\* The first output takes the hardware or, when nothing opens, null; the
\* others cannot disturb the owner.
LEMMA OpenKeeps ==
    ASSUME Ownership, NEW o \in Outputs, Open(o)
    PROVE  Ownership'
<1>1. CASE count = 0
  <2>1. \A q \in Outputs : handle[q] \notin {"real", "null"}
    BY <1>1 DEF Ownership
  <2>2. ~real /\ count' = 1
    BY <1>1, <2>1 DEF Ownership, Open
  <2>3. real' \in BOOLEAN /\ handle' = [handle EXCEPT ![o] =
                                            IF real' THEN "real" ELSE "null"]
    BY <1>1, <2>2 DEF Open, Ownership
  <2>4. QED
    BY <2>1, <2>2, <2>3 DEF Ownership
<1>2. CASE count # 0
  <2>1. \E h \in {"hp", "booth", "dummy"} : handle' = [handle EXCEPT ![o] = h]
    BY <1>2 DEF Open
  <2>2. handle[o] = "closed" /\ real' = real /\ count' = count + 1
    BY <1>2 DEF Open
  <2>3. QED
    BY <1>2, <2>1, <2>2 DEF Ownership
<1>3. QED
  BY <1>1, <1>2

\* Closing the owner frees the hardware; nobody can have the null handle
\* then, so the count may start again.
LEMMA CloseKeeps ==
    ASSUME Ownership, NEW o \in Outputs, Close(o)
    PROVE  Ownership'
<1>0. handle' = [handle EXCEPT ![o] = "closed"]
  BY DEF Close
<1>1. CASE handle[o] = "real"
  <2>1. real /\ real' = FALSE /\ count' = 0
    BY <1>1 DEF Close, Ownership
  <2>2. \A q \in Outputs : handle'[q] \notin {"real", "null"}
    BY <1>0, <1>1, <2>1 DEF Ownership
  <2>3. QED
    BY <1>0, <2>1, <2>2 DEF Ownership
<1>2. CASE handle[o] # "real"
  BY <1>0, <1>2 DEF Close, Ownership
<1>3. QED
  BY <1>1, <1>2

\* Setting the device up and writing to it touch none of this.
LEMMA OwnershipNext == Ownership /\ [Next]_vars => Ownership'
<1> SUFFICES ASSUME Ownership, [Next]_vars PROVE Ownership'
  OBVIOUS
<1>1. CASE UNCHANGED device
  BY <1>1 DEF device, Ownership
<1>2. CASE Card
  BY <1>2, <1>1 DEF Card
<1>3. CASE \E o \in Outputs : Open(o) \/ Close(o)
  BY <1>3, OpenKeeps, CloseKeeps
<1>4. CASE \E o \in Outputs, s \in Settings : Choose(o, s)
  BY <1>4, <1>1 DEF Choose
<1>5. CASE \E o \in Outputs : Restart(o) \/ Install(o)
  BY <1>5, <1>1 DEF Restart, Install
<1>6. CASE \E o \in Outputs, p \in Masters \cup Cues : Write(o, p)
  BY <1>6, <1>1 DEF Write
<1>7. CASE \E o \in Outputs : Copy(o) \/ Cued(o) \/ Play(o)
  BY <1>7, <1>1 DEF Copy, Cued, Play
<1>8. CASE UNCHANGED vars
  BY <1>8, <1>1 DEF vars
<1>9. QED
  BY <1>2, <1>3, <1>4, <1>5, <1>6, <1>7, <1>8 DEF Next

-----------------------------------------------------------------------------
\* However often and in whatever order rbp opens and closes its outputs, and
\* whenever another process has the card: the device is open exactly while
\* one output holds it, and then no other output writes to it.
THEOREM HardwareHasOneOwner == Spec => []OneOwner
<1>1. Ownership => OneOwner
  <2> SUFFICES ASSUME Ownership PROVE OneOwner
    OBVIOUS
  <2>1. CASE real
    <3>1. PICK o \in Outputs : handle[o] = "real"
      BY <2>1 DEF Ownership
    <3>2. Holders("real") = {o}
      BY <3>1 DEF Holders, Ownership
    <3>3. Cardinality(Holders("real")) = 1
      BY <3>2, FS_Singleton
    <3>4. QED
      BY <2>1, <3>3 DEF OneOwner, Holders, Ownership
  <2>2. CASE ~real
    <3>1. Holders("real") = {}
      BY <2>2 DEF Holders, Ownership
    <3>2. Cardinality(Holders("real")) = 0
      BY <3>1, FS_EmptySet
    <3>3. QED
      BY <2>2, <3>2 DEF OneOwner
  <2>3. QED
    BY <2>1, <2>2
<1>2. QED
  BY <1>1, OwnershipInit, OwnershipNext, PTL DEF Spec

-----------------------------------------------------------------------------
(* Types.                                                                  *)

\* A write keeps its handle while it runs and carries a period of its stream.
Typed ==
    /\ TypeOK
    /\ \A o \in Outputs : at[o] # 0 =>
          \/ handle[o] = "hp" /\ buf[o] \in Cues
          \/ handle[o] \in {"real", "null"} /\ buf[o] \in Masters

LEMMA TypedInit == Init => Typed
<1> SUFFICES ASSUME Init PROVE Typed
  OBVIOUS
<1>1. at = [o \in Outputs |-> 0] /\ Last \in Nat
  BY AudioAssumption DEF Init
<1>2. mix \in [Frames -> [m : Masters \cup {Silence}, h : Masters \cup Cues]]
  BY AudioAssumption DEF Init
<1>3. at \in [Outputs -> 0..Last + 1] /\ buf \in [Outputs -> Masters \cup Cues]
  BY <1>1, AudioAssumption DEF Init
<1>4. params \in [Settings -> Choices] /\ conf \in [Settings -> Choices]
  BY DEF Init, Unset, Choices
<1>5. /\ handle \in [Outputs -> {"closed", "real", "null", "hp", "booth", "dummy"}]
      /\ saw \in [Outputs -> BOOLEAN] /\ count \in 0..MaxOpens
  BY AudioAssumption DEF Init
<1>6. TypeOK
  BY <1>2, <1>3, <1>4, <1>5, AudioAssumption DEF Init, TypeOK
<1>7. QED
  BY <1>1, <1>6 DEF Typed

LEMMA DeviceTyped ==
    ASSUME Typed, NEW o \in Outputs, Open(o) \/ Close(o)
    PROVE  Typed'
<1>1. count' \in 0..MaxOpens
  BY AudioAssumption DEF Typed, TypeOK, Open, Close
<1>2. params' \in [Settings -> Choices] /\ conf' \in [Settings -> Choices]
  BY DEF Typed, TypeOK, Open, Close, setup, Unset, Choices
<1>3. real' \in BOOLEAN
  BY DEF Typed, TypeOK, Open, Close
<1>4. handle' \in [Outputs -> {"closed", "real", "null", "hp", "booth", "dummy"}]
  BY DEF Typed, TypeOK, Open, Close
<1>5. at[o] = 0 /\ \A q \in Outputs : q # o => handle'[q] = handle[q]
  BY DEF Typed, TypeOK, Open, Close
<1>6. UNCHANGED <<mix, at, buf, peak, has_hp, saw, cue, cleared, heard, played, busy>>
  BY DEF Open, Close, stream
<1>7. TypeOK'
  BY <1>1, <1>2, <1>3, <1>4, <1>6 DEF Typed, TypeOK
<1>8. QED
  BY <1>5, <1>6, <1>7 DEF Typed

LEMMA TypedNext == Typed /\ [Next]_vars => Typed'
<1> SUFFICES ASSUME Typed, [Next]_vars PROVE Typed'
  OBVIOUS
<1> USE DEF device, setup, stream
<1>1. CASE Card
  BY <1>1 DEF Card, Typed, TypeOK
<1>2. CASE \E o \in Outputs : Open(o) \/ Close(o)
  BY <1>2, DeviceTyped
<1>3. ASSUME NEW o \in Outputs, NEW s \in Settings, Choose(o, s) PROVE Typed'
  BY <1>3 DEF Choose, Asked, Choices, Typed, TypeOK
<1>4. ASSUME NEW o \in Outputs, Restart(o) \/ Install(o) PROVE Typed'
  BY <1>4 DEF Restart, Install, Unset, Choices, Typed, TypeOK
<1>5. ASSUME NEW o \in Outputs, NEW p \in Masters \cup Cues, Write(o, p)
      PROVE  Typed'
  <2>1. at' \in [Outputs -> 0..Last + 1] /\ buf' \in [Outputs -> Masters \cup Cues]
    BY <1>5, AudioAssumption DEF Write, Typed, TypeOK
  <2>2. saw' \in [Outputs -> BOOLEAN] /\ heard' \in {"no", "loud", "next", "yes"}
    BY <1>5 DEF Write, Typed, TypeOK
  <2>3. TypeOK'
    BY <1>5, <2>1, <2>2 DEF Write, Typed, TypeOK
  <2>4. QED
    BY <1>5, <2>3 DEF Write, Typed, TypeOK
<1>6. ASSUME NEW o \in Outputs, Copy(o) PROVE Typed'
  <2>1. at[o] \in Frames /\ at[o] # 0 /\ at[o] + 1 \in 0..Last + 1
    BY <1>6, AudioAssumption DEF Copy, Frames
  <2>2. mix[at[o]] \in [m : Masters \cup {Silence}, h : Masters \cup Cues]
    BY <2>1 DEF Typed, TypeOK
  <2>3. PICK seen \in {has_hp, saw[o]} :
          mix' = [mix EXCEPT ![at[o]] =
              IF handle[o] = "hp" THEN [m |-> @.m, h |-> buf[o]]
              ELSE [m |-> buf[o], h |-> Mirror(at[o], buf[o], seen)]]
    BY <1>6 DEF Copy
  <2>4. mix'[at[o]] \in [m : Masters \cup {Silence}, h : Masters \cup Cues]
    BY <2>1, <2>2, <2>3 DEF Typed, TypeOK, Mirror
  <2>5. mix' \in [Frames -> [m : Masters \cup {Silence}, h : Masters \cup Cues]]
    BY <2>1, <2>3, <2>4 DEF Typed, TypeOK
  <2>6. at' = [at EXCEPT ![o] = at[o] + 1]
    BY <1>6 DEF Copy
  <2>7. at' \in [Outputs -> 0..Last + 1]
    BY <2>1, <2>6 DEF Typed, TypeOK
  <2>8. TypeOK'
    BY <1>6, <2>5, <2>7 DEF Copy, Typed, TypeOK
  <2>9. QED
    BY <1>6, <2>1, <2>6, <2>8 DEF Copy, Typed, TypeOK
<1>7. ASSUME NEW o \in Outputs, Cued(o) \/ Play(o) PROVE Typed'
  <2>1. at' = [at EXCEPT ![o] = 0] /\ buf' = [buf EXCEPT ![o] = Silence]
    BY <1>7 DEF Cued, Play, Return
  <2>2. at' \in [Outputs -> 0..Last + 1] /\ buf' \in [Outputs -> Masters \cup Cues]
    BY <2>1, AudioAssumption DEF Typed, TypeOK
  <2>3. /\ saw' \in [Outputs -> BOOLEAN] /\ has_hp' \in BOOLEAN /\ played' \in BOOLEAN
        /\ peak' \in BOOLEAN /\ cleared' \in BOOLEAN
    BY <1>7 DEF Cued, Play, Return, Typed, TypeOK
  <2>4. cue' \in Cues /\ heard' \in {"no", "loud", "next", "yes"}
    BY <1>7, AudioAssumption DEF Cued, Play, Typed, TypeOK
  <2>5. TypeOK'
    BY <1>7, <2>2, <2>3, <2>4 DEF Cued, Play, Typed, TypeOK
  <2>6. QED
    BY <1>7, <2>1, <2>5 DEF Cued, Play, Typed, TypeOK
<1>8. CASE UNCHANGED vars
  BY <1>8 DEF vars, Typed, TypeOK
<1>9. QED
  BY <1>1, <1>2, <1>3, <1>4, <1>5, <1>6, <1>7, <1>8 DEF Next

\* The shim's variables keep their types.
THEOREM AudioTypes == Spec => []TypeOK
<1>1. Typed => TypeOK
  BY DEF Typed
<1>2. QED
  BY <1>1, TypedInit, TypedNext, PTL DEF Spec

-----------------------------------------------------------------------------
(* The cue.                                                                *)

Heard == heard \in {"next", "yes"}

\* The loop over an audible period lifts the peak, which only the master takes
\* down again, so that the test after the loop sets the flag.
Latching ==
    /\ heard # "no" => has_hp
    /\ \A o \in Outputs :
          Writing(o) /\ 1 < at[o] /\ buf[o] # Silence /\ ~cleared /\ ~has_hp => peak

\* CueIsHeard, of silent periods too.
Whole ==
    heard = "yes" => \A f \in Frames :
        mix[f].h \in {cue} \cup {buf[o] : o \in {q \in Outputs :
                                      handle[q] = "hp" /\ at[q] > f}}

\* A headphone write under way owns the headphone half of the frames it has
\* passed: the master leaves them alone, because it either reads the flag or
\* has read it, and no second headphone write runs.
Cueing ==
    /\ Heard => Older = {}
    /\ \A o, q \in Outputs : Writing(o) /\ Writing(q) => o = q
    /\ Heard => \A o \in Outputs : Writing(o) =>
          \A f \in Frames : f < at[o] => mix[f].h = buf[o]
    /\ Whole

LEMMA CueingInit == Init => Cueing
<1> SUFFICES ASSUME Init PROVE Cueing
  OBVIOUS
<1>1. heard = "no" /\ \A o \in Outputs : handle[o] = "closed"
  BY DEF Init
<1>2. QED
  BY <1>1 DEF Cueing, Whole, Writing, Heard

\* A step that changes no stream and no handle of a write under way.
LEMMA SameStreams ==
    ASSUME Cueing, UNCHANGED stream,
           \A o \in Outputs : handle'[o] = handle[o] \/ at[o] = 0
    PROVE  Cueing'
<1>1. /\ mix' = mix /\ at' = at /\ buf' = buf /\ has_hp' = has_hp
      /\ saw' = saw /\ cue' = cue /\ heard' = heard
  BY DEF stream
<1>2. \A o \in Outputs : Writing(o)' <=> Writing(o)
  BY <1>1 DEF Writing
<1>3. Older' = Older
  BY <1>1 DEF Older
<1>4. ASSUME heard = "yes", NEW f \in Frames, f \in Int, 0 < f
      PROVE  mix'[f].h \in {cue'} \cup {buf'[o] : o \in {q \in Outputs :
                                      handle'[q] = "hp" /\ at'[q] > f}}
  <2>1. CASE mix[f].h = cue
    BY <1>1, <2>1
  <2>2. ASSUME NEW q \in Outputs, handle[q] = "hp", at[q] > f, mix[f].h = buf[q]
        PROVE  handle'[q] = "hp" /\ at'[q] > f /\ mix'[f].h = buf'[q]
    BY <1>1, <1>4, <2>2
  <2>3. mix[f].h = cue \/ \E q \in Outputs :
            handle[q] = "hp" /\ at[q] > f /\ mix[f].h = buf[q]
    BY <1>4 DEF Cueing, Whole
  <2>4. QED
    BY <2>1, <2>2, <2>3
<1>5. \A f \in Frames : f \in Int /\ 0 < f
  BY AudioAssumption DEF Frames
<1>6. Whole'
  BY <1>1, <1>4, <1>5 DEF Whole
<1>7. QED
  BY <1>1, <1>2, <1>3, <1>6 DEF Cueing, Heard

\* A write that begins with the flag set has seen it.
LEMMA WriteKeeps ==
    ASSUME Typed, Cueing, Latching, NEW o \in Outputs, NEW p \in Masters \cup Cues, Write(o, p)
    PROVE  Cueing'
<1>1. /\ at' = [at EXCEPT ![o] = 1] /\ buf' = [buf EXCEPT ![o] = p]
      /\ saw' = [saw EXCEPT ![o] = has_hp] /\ at[o] = 0
      /\ mix' = mix /\ has_hp' = has_hp /\ cue' = cue /\ handle' = handle
  BY DEF Write, device
<1>2. /\ at \in [Outputs -> 0..Last + 1] /\ buf \in [Outputs -> Masters \cup Cues]
      /\ saw \in [Outputs -> BOOLEAN]
  BY DEF Typed, TypeOK
<1>3. heard' = heard \/ (heard = "loud" /\ heard' = "next" /\ Older = {})
  BY DEF Write
<1>4. Heard' => has_hp /\ Older = {}
  BY <1>3 DEF Cueing, Latching, Heard
<1>5. Heard' => has_hp' /\ Older' = {}
  BY <1>1, <1>2, <1>4 DEF Older
<1>6. \A q, r \in Outputs : Writing(q)' /\ Writing(r)' => q = r
  BY <1>1, <1>2 DEF Cueing, Writing, Write
<1>7. \A f \in Frames : f \in Int /\ 0 < f
  BY AudioAssumption DEF Frames
<1>8. ASSUME Heard', NEW q \in Outputs, Writing(q)',
             NEW f \in Frames, f < at'[q]
      PROVE  mix'[f].h = buf'[q]
  <2>1. q # o
    BY <1>1, <1>2, <1>7, <1>8
  <2>2. at'[q] = at[q] /\ buf'[q] = buf[q] /\ Writing(q) /\ handle[o] # "hp"
    BY <1>1, <1>2, <1>8, <2>1 DEF Writing, Write
  <2>3. Heard
    BY <1>8, <2>2 DEF Write, Heard
  <2>4. QED
    BY <1>1, <1>8, <2>2, <2>3 DEF Cueing
<1>9. Whole'
  <2> SUFFICES ASSUME heard' = "yes", NEW f \in Frames
               PROVE  mix'[f].h \in {cue'} \cup {buf'[r] : r \in {q \in Outputs :
                                      handle'[q] = "hp" /\ at'[q] > f}}
    BY DEF Whole
  <2>1. heard = "yes"
    BY <1>3
  <2>2. CASE mix[f].h = cue
    BY <1>1, <2>2
  <2>3. ASSUME NEW q \in Outputs, handle[q] = "hp", at[q] > f, mix[f].h = buf[q]
        PROVE  handle'[q] = "hp" /\ at'[q] > f /\ mix'[f].h = buf'[q]
    <3>1. q # o
      BY <1>1, <1>7, <2>3
    <3>2. QED
      BY <1>1, <1>2, <2>3, <3>1
  <2>4. mix[f].h = cue \/ \E q \in Outputs :
            handle[q] = "hp" /\ at[q] > f /\ mix[f].h = buf[q]
    BY <2>1 DEF Cueing, Whole
  <2>5. QED
    BY <2>2, <2>3, <2>4
<1>10. QED
  BY <1>5, <1>6, <1>8, <1>9 DEF Cueing

\* A frame of the headphones becomes theirs; a frame of the master leaves
\* them alone once the flag is set, whichever way it was read.
LEMMA CopyKeeps ==
    ASSUME Typed, Cueing, Latching, NEW o \in Outputs, Copy(o)
    PROVE  Cueing'
<1> DEFINE g == at[o]
<1>1. /\ g \in Frames /\ at' = [at EXCEPT ![o] = g + 1]
      /\ UNCHANGED <<handle, buf, has_hp, saw, cue, heard>>
  BY DEF Copy, device
<1>2. /\ at \in [Outputs -> 0..Last + 1] /\ saw \in [Outputs -> BOOLEAN]
      /\ DOMAIN mix = Frames /\ \A f \in Frames : f \in Int /\ 0 < f
  BY AudioAssumption DEF Typed, TypeOK, Frames
<1>3. PICK seen \in {has_hp, saw[o]} :
          mix' = [mix EXCEPT ![g] =
              IF handle[o] = "hp" THEN [m |-> @.m, h |-> buf[o]]
              ELSE [m |-> buf[o], h |-> Mirror(g, buf[o], seen)]]
  BY DEF Copy
<1>4. g # 0 /\ g + 1 # 0 /\ at'[o] = g + 1
  BY <1>1, <1>2
<1>5. \A q \in Outputs : Writing(q)' <=> Writing(q)
  BY <1>1, <1>2, <1>4 DEF Writing
<1>6. Older' = Older
  BY <1>1, <1>2, <1>4 DEF Older
<1>7. Heard => seen = TRUE
  BY <1>2, <1>3, <1>4 DEF Cueing, Latching, Older, Heard
<1>8. \A f \in Frames : f # g => mix'[f].h = mix[f].h
  BY <1>1, <1>2, <1>3
<1>9. mix'[g].h = IF handle[o] = "hp" THEN buf[o] ELSE Mirror(g, buf[o], seen)
  BY <1>1, <1>2, <1>3
<1>10. Heard /\ handle[o] # "hp" => mix'[g].h = mix[g].h
  BY <1>7, <1>9 DEF Mirror
<1>11. ASSUME Heard, NEW q \in Outputs, Writing(q),
              NEW f \in Frames, f < at'[q]
       PROVE  mix'[f].h = buf'[q]
  <2>1. CASE q = o
    <3>1. handle[o] = "hp"
      BY <1>11, <2>1 DEF Writing
    <3>2. f < g \/ f = g
      BY <1>1, <1>2, <1>4, <1>11, <2>1
    <3>3. QED
      BY <1>1, <1>8, <1>9, <1>11, <2>1, <3>1, <3>2 DEF Cueing
  <2>2. CASE q # o
    <3>1. handle[o] # "hp" /\ at'[q] = at[q]
      BY <1>1, <1>2, <1>4, <1>11, <2>2 DEF Cueing, Writing
    <3>2. QED
      BY <1>1, <1>8, <1>10, <1>11, <3>1 DEF Cueing
  <2>3. QED
    BY <2>1, <2>2
<1>12. Whole'
  <2> SUFFICES ASSUME heard = "yes", NEW f \in Frames
               PROVE  mix'[f].h \in {cue} \cup {buf[r] : r \in {q \in Outputs :
                                      handle[q] = "hp" /\ at'[q] > f}}
    BY <1>1 DEF Whole
  <2>1. CASE f = g /\ handle[o] = "hp"
    <3>1. at'[o] > f /\ mix'[f].h = buf[o]
      BY <1>2, <1>4, <1>9, <2>1
    <3>2. QED
      BY <2>1, <3>1
  <2>2. CASE ~(f = g /\ handle[o] = "hp")
    <3>1. mix'[f].h = mix[f].h
      BY <1>8, <1>10, <2>2 DEF Heard
    <3>2. mix[f].h = cue \/ \E q \in Outputs :
              handle[q] = "hp" /\ at[q] > f /\ mix[f].h = buf[q]
      BY DEF Cueing, Whole
    <3>3. ASSUME NEW q \in Outputs, at[q] > f PROVE at'[q] > f
      BY <1>1, <1>2, <3>3
    <3>4. QED
      BY <3>1, <3>2, <3>3
  <2>3. QED
    BY <2>1, <2>2
<1>13. QED
  BY <1>1, <1>5, <1>6, <1>11, <1>12 DEF Cueing, Heard

\* A headphone write that returns has passed every frame: all are its period.
LEMMA CuedKeeps ==
    ASSUME Typed, Cueing, Latching, NEW o \in Outputs, Cued(o)
    PROVE  Cueing'
<1>1. /\ at' = [at EXCEPT ![o] = 0] /\ buf' = [buf EXCEPT ![o] = Silence]
      /\ saw' = [saw EXCEPT ![o] = FALSE] /\ handle[o] = "hp" /\ at[o] = Last + 1
      /\ handle' = handle /\ mix' = mix /\ cue' = buf[o]
  BY DEF Cued, Return, device
<1>2. /\ at \in [Outputs -> 0..Last + 1] /\ buf \in [Outputs -> Masters \cup Cues]
      /\ saw \in [Outputs -> BOOLEAN]
  BY DEF Typed, TypeOK
<1>3. Heard' => Heard /\ heard' = "yes"
  BY DEF Cued, Typed, TypeOK, Heard
<1>4. \A f \in Frames : f \in Int /\ 0 < f /\ f < Last + 1
  BY AudioAssumption DEF Frames
<1>5. Writing(o)
  BY <1>1, AudioAssumption DEF Writing
<1>6. \A q \in Outputs : ~Writing(q)'
  BY <1>1, <1>2, <1>5 DEF Cueing, Writing
<1>7. Heard' => Older' = {}
  BY <1>1, <1>2, <1>3 DEF Cueing, Older
<1>8. heard' = "yes" => \A f \in Frames : mix[f].h = buf[o]
  BY <1>1, <1>3, <1>4, <1>5 DEF Cueing, Heard
<1>9. Whole'
  BY <1>1, <1>8 DEF Whole
<1>10. QED
  BY <1>6, <1>7, <1>9 DEF Cueing

\* The master's return leaves the headphone half as it is.
LEMMA PlayKeeps ==
    ASSUME Typed, Cueing, Latching, NEW o \in Outputs, Play(o)
    PROVE  Cueing'
<1>1. /\ at' = [at EXCEPT ![o] = 0] /\ buf' = [buf EXCEPT ![o] = Silence]
      /\ saw' = [saw EXCEPT ![o] = FALSE] /\ handle[o] # "hp"
      /\ UNCHANGED <<handle, mix, cue, has_hp, heard>>
  BY DEF Play, Return, device
<1>2. /\ at \in [Outputs -> 0..Last + 1] /\ buf \in [Outputs -> Masters \cup Cues]
      /\ saw \in [Outputs -> BOOLEAN]
  BY DEF Typed, TypeOK
<1>3. \A q \in Outputs : handle[q] = "hp" => at'[q] = at[q] /\ buf'[q] = buf[q]
  BY <1>1, <1>2
<1>4. \A q \in Outputs : Writing(q)' <=> Writing(q)
  BY <1>1, <1>3 DEF Writing
<1>5. Older' \subseteq Older
  BY <1>1, <1>2 DEF Older
<1>6. Whole'
  <2> SUFFICES ASSUME heard = "yes", NEW f \in Frames
               PROVE  mix[f].h \in {cue} \cup {buf'[r] : r \in {q \in Outputs :
                                      handle[q] = "hp" /\ at'[q] > f}}
    BY <1>1 DEF Whole
  <2>1. mix[f].h = cue \/ \E q \in Outputs :
            handle[q] = "hp" /\ at[q] > f /\ mix[f].h = buf[q]
    BY DEF Cueing, Whole
  <2>2. QED
    BY <1>3, <2>1
<1>7. \A q \in Outputs : Writing(q) => at'[q] = at[q] /\ buf'[q] = buf[q]
  BY <1>3 DEF Writing
<1>8. QED
  BY <1>1, <1>4, <1>5, <1>6, <1>7 DEF Cueing, Heard

LEMMA CueingNext == Typed /\ Cueing /\ Latching /\ [Next]_vars => Cueing'
<1> SUFFICES ASSUME Typed, Cueing, Latching, [Next]_vars PROVE Cueing'
  OBVIOUS
<1>1. CASE Card
  BY <1>1, SameStreams DEF Card, device
<1>2. ASSUME NEW o \in Outputs, Open(o) \/ Close(o) PROVE Cueing'
  <2>1. at[o] = 0 /\ \A q \in Outputs : q # o => handle'[q] = handle[q]
    BY <1>2 DEF Open, Close, Typed, TypeOK
  <2>2. UNCHANGED stream
    BY <1>2 DEF Open, Close
  <2>3. QED
    BY <2>1, <2>2, SameStreams
<1>3. CASE \E o \in Outputs, s \in Settings : Choose(o, s)
  BY <1>3, SameStreams DEF Choose, device
<1>4. CASE \E o \in Outputs : Restart(o) \/ Install(o)
  BY <1>4, SameStreams DEF Restart, Install, device
<1>5. CASE \E o \in Outputs, p \in Masters \cup Cues : Write(o, p)
  BY <1>5, WriteKeeps
<1>6. CASE \E o \in Outputs : Copy(o) \/ Cued(o) \/ Play(o)
  BY <1>6, CopyKeeps, CuedKeeps, PlayKeeps
<1>7. CASE UNCHANGED vars
  BY <1>7, SameStreams DEF vars, device
<1>8. QED
  BY <1>1, <1>2, <1>3, <1>4, <1>5, <1>6, <1>7 DEF Next

LEMMA LatchingInit == Init => Latching
<1> SUFFICES ASSUME Init PROVE Latching
  OBVIOUS
<1>1. heard = "no" /\ \A o \in Outputs : handle[o] = "closed"
  BY DEF Init
<1>2. QED
  BY <1>1 DEF Latching, Writing

LEMMA LatchingNext == Typed /\ Cueing /\ Latching /\ [Next]_vars => Latching'
<1> SUFFICES ASSUME Typed, Cueing, Latching, [Next]_vars PROVE Latching'
  OBVIOUS
<1>0. /\ at \in [Outputs -> 0..Last + 1] /\ buf \in [Outputs -> Masters \cup Cues]
      /\ {peak, has_hp, cleared} \subseteq BOOLEAN
  BY DEF Typed, TypeOK
<1>1. ASSUME UNCHANGED stream,
             \A o \in Outputs : handle'[o] = handle[o] \/ at[o] = 0
      PROVE  Latching'
  BY <1>1 DEF stream, Latching, Writing
<1>2. CASE Card
  BY <1>1, <1>2 DEF Card, device
<1>3. ASSUME NEW o \in Outputs, Open(o) \/ Close(o) PROVE Latching'
  <2>1. at[o] = 0 /\ \A q \in Outputs : q # o => handle'[q] = handle[q]
    BY <1>3 DEF Open, Close, Typed, TypeOK
  <2>2. UNCHANGED stream
    BY <1>3 DEF Open, Close
  <2>3. QED
    BY <1>1, <2>1, <2>2
<1>4. CASE \E o \in Outputs, s \in Settings : Choose(o, s)
  BY <1>1, <1>4 DEF Choose, device
<1>5. CASE \E o \in Outputs : Restart(o) \/ Install(o)
  BY <1>1, <1>5 DEF Restart, Install, device
<1>6. ASSUME NEW o \in Outputs, NEW p \in Masters \cup Cues, Write(o, p) PROVE Latching'
  <2>1. /\ at' = [at EXCEPT ![o] = 1] /\ buf' = [buf EXCEPT ![o] = p]
        /\ UNCHANGED <<handle, peak, has_hp, cleared>>
        /\ heard' # "no" => heard # "no"
    BY <1>6 DEF Write, device
  <2>2. ASSUME NEW q \in Outputs, Writing(q)', 1 < at'[q]
        PROVE  Writing(q) /\ at'[q] = at[q] /\ buf'[q] = buf[q]
    BY <1>0, <2>1, <2>2 DEF Writing
  <2>3. QED
    BY <2>1, <2>2 DEF Latching
<1>7. ASSUME NEW o \in Outputs, Copy(o) PROVE Latching'
  <2>1. /\ at' = [at EXCEPT ![o] = at[o] + 1]
        /\ UNCHANGED <<handle, buf, has_hp, cleared, heard>>
        /\ peak' = (peak \/ (handle[o] = "hp" /\ buf[o] # Silence /\ ~has_hp))
    BY <1>7 DEF Copy, device
  <2>2. ASSUME NEW q \in Outputs, q # o, Writing(q)', 1 < at'[q]
        PROVE  Writing(q) /\ 1 < at[q]
    BY <1>0, <2>1, <2>2 DEF Writing
  <2>3. ASSUME NEW q \in Outputs, Writing(q)', 1 < at'[q],
               buf'[q] # Silence, ~cleared', ~has_hp'
        PROVE  peak'
    BY <2>1, <2>2, <2>3 DEF Latching, Writing
  <2>4. QED
    BY <2>1, <2>3 DEF Latching
<1>8. ASSUME NEW o \in Outputs, Cued(o) PROVE Latching'
  <2>1. /\ handle[o] = "hp" /\ at[o] = Last + 1 /\ at' = [at EXCEPT ![o] = 0]
        /\ handle' = handle /\ has_hp' = (has_hp \/ peak)
        /\ heard' # "no" => heard # "no" \/ (buf[o] # Silence /\ ~cleared)
    BY <1>8 DEF Cued, Return, device
  <2>2. Writing(o) /\ 1 < at[o]
    BY <2>1, AudioAssumption DEF Writing
  <2>3. \A q \in Outputs : ~Writing(q)'
    BY <1>0, <2>1, <2>2 DEF Cueing, Writing
  <2>4. heard' # "no" => has_hp'
    BY <2>1, <2>2 DEF Latching
  <2>5. QED
    BY <2>3, <2>4 DEF Latching
<1>9. ASSUME NEW o \in Outputs, Play(o) PROVE Latching'
  <2>1. /\ at' = [at EXCEPT ![o] = 0] /\ buf' = [buf EXCEPT ![o] = Silence]
        /\ handle[o] # "hp" /\ UNCHANGED <<handle, has_hp, heard>>
        /\ \/ peak' = FALSE /\ cleared' = (heard = "no" /\ \E q \in Outputs : Writing(q))
           \/ UNCHANGED <<peak, cleared>>
    BY <1>9 DEF Play, Return, device
  <2>2. ASSUME NEW q \in Outputs, Writing(q)'
        PROVE  Writing(q) /\ at'[q] = at[q] /\ buf'[q] = buf[q]
    BY <1>0, <2>1, <2>2 DEF Writing
  <2>3. ASSUME NEW q \in Outputs, Writing(q)', 1 < at'[q],
               buf'[q] # Silence, ~cleared', ~has_hp'
        PROVE  peak'
    <3>1. Writing(q) /\ 1 < at[q] /\ buf[q] # Silence /\ heard = "no"
      BY <2>1, <2>2, <2>3 DEF Latching
    <3>2. UNCHANGED <<peak, cleared>>
      BY <2>1, <2>3, <3>1
    <3>3. QED
      BY <2>1, <2>3, <3>1, <3>2 DEF Latching
  <2>4. QED
    BY <2>1, <2>3 DEF Latching
<1>10. CASE UNCHANGED vars
  BY <1>1, <1>10 DEF vars, device
<1>11. QED
  BY <1>2, <1>3, <1>4, <1>5, <1>6, <1>7, <1>8, <1>9, <1>10 DEF Next

\* For every length of a period and however rbp's threads interleave in the
\* shared buffer: once an audible headphone period was written while the
\* master did not clear the peak, and its writes then under way have returned,
\* an audible period has the headphone channels and the master never does.
THEOREM CueReachesHeadphones == Spec => []CueIsHeard
<1> DEFINE Inv == Typed /\ Cueing /\ Latching
<1>1. Init => Inv
  BY TypedInit, CueingInit, LatchingInit
<1>2. Inv /\ [Next]_vars => Inv'
  BY TypedNext, CueingNext, LatchingNext
<1>3. Inv => CueIsHeard
  BY DEF Cueing, Whole, CueIsHeard
<1>4. QED
  BY <1>1, <1>2, <1>3, PTL DEF Spec

-----------------------------------------------------------------------------
(* The master.                                                             *)

IsMaster(o) == handle[o] \in {"real", "null"}

\* What makes a played period whole.  Only one output writes the master half,
\* the frames it has passed have its period, and no setting is ever rbp's.
Mastering ==
    /\ \A s \in Settings : params[s] \in {"open", "shim"}
    /\ conf \in {Unset, FourChannels}
    /\ \A o, q \in Outputs : IsMaster(o) /\ IsMaster(q) => o = q
    /\ \A o \in Outputs : IsMaster(o) =>
          \A f \in Frames : f < at[o] => mix[f].m = buf[o]

LEMMA MasteringInit == Init => Mastering
<1> SUFFICES ASSUME Init PROVE Mastering
  OBVIOUS
<1>1. \A o \in Outputs : ~IsMaster(o)
  BY DEF Init, IsMaster
<1>2. params = Unset /\ conf = Unset
  BY DEF Init
<1>3. QED
  BY <1>1, <1>2 DEF Mastering, Unset

\* An output that becomes the master is the only one, and has no write yet.
LEMMA OwnerMasters ==
    ASSUME Typed, Ownership, Mastering, NEW o \in Outputs, Open(o) \/ Close(o)
    PROVE  Mastering'
<1>1. /\ at[o] = 0 /\ at' = at /\ mix' = mix /\ buf' = buf
      /\ \A q \in Outputs : q # o => handle'[q] = handle[q]
  BY DEF Typed, TypeOK, Open, Close, stream
<1>2. /\ \A s \in Settings : params'[s] \in {"open", "shim"}
      /\ conf' \in {Unset, FourChannels}
  BY DEF Open, Close, setup, Mastering, Unset
<1>3. IsMaster(o)' => \A q \in Outputs : ~IsMaster(q)
  <2>1. CASE Close(o)
    BY <2>1 DEF Close, IsMaster, Typed, TypeOK
  <2>2. CASE Open(o)
    <3>1. IsMaster(o)' => count = 0
      BY <2>2 DEF Open, IsMaster, Typed, TypeOK
    <3>2. QED
      BY <3>1 DEF Ownership, IsMaster
  <2>3. QED
    BY <2>1, <2>2
<1>4. \A f \in Frames : f \in Int /\ ~(f < 0)
  BY AudioAssumption DEF Frames
<1>5. \A q \in Outputs : q # o => (IsMaster(q)' <=> IsMaster(q))
  BY <1>1 DEF IsMaster
<1>6. \A q, r \in Outputs : IsMaster(q)' /\ IsMaster(r)' => q = r
  BY <1>3, <1>5 DEF Mastering
<1>7. ASSUME NEW q \in Outputs, IsMaster(q)', NEW f \in Frames, f < at'[q]
      PROVE  mix'[f].m = buf'[q]
  <2>1. q # o
    BY <1>1, <1>4, <1>7
  <2>2. QED
    BY <1>1, <1>5, <1>7, <2>1 DEF Mastering
<1>8. QED
  BY <1>2, <1>6, <1>7 DEF Mastering

\* A step that leaves the handles and the settings alone disturbs no frame a
\* master has passed.
LEMMA SameMasters ==
    ASSUME Mastering, UNCHANGED <<handle, params, conf>>,
           \A o \in Outputs : IsMaster(o) => \A f \in Frames :
              f < at'[o] => mix'[f].m = buf'[o]
    PROVE  Mastering'
  BY DEF Mastering, IsMaster

LEMMA SettingMasters ==
    ASSUME Typed, Mastering, NEW o \in Outputs,
           (\E s \in Settings : Choose(o, s)) \/ Restart(o) \/ Install(o)
    PROVE  Mastering'
<1>1. /\ UNCHANGED <<handle, at, mix, buf>>
  BY DEF Choose, Restart, Install, device, stream
<1>2. params \in [Settings -> Choices]
  BY DEF Typed, TypeOK
<1>3. \A s \in Settings : params'[s] \in {"open", "shim"}
  BY <1>2 DEF Choose, Asked, Restart, Install, Unset, Mastering
<1>4. conf' \in {Unset, FourChannels}
  <2>1. CASE conf' = conf
    BY <2>1 DEF Mastering
  <2>2. CASE Install(o)
    <3>1. \A s \in Settings : params[s] = "shim"
      BY <2>2 DEF Install, Mastering
    <3>2. params = FourChannels
      BY <1>2, <3>1 DEF FourChannels
    <3>3. QED
      BY <2>2, <3>2 DEF Install
  <2>3. QED
    BY <2>1, <2>2 DEF Choose, Restart
<1>5. QED
  BY <1>1, <1>3, <1>4 DEF Mastering, IsMaster

LEMMA WriteMasters ==
    ASSUME Typed, Mastering, NEW o \in Outputs, NEW p \in Masters \cup Cues, Write(o, p)
    PROVE  Mastering'
<1>1. /\ at' = [at EXCEPT ![o] = 1] /\ buf' = [buf EXCEPT ![o] = p]
      /\ UNCHANGED <<handle, params, conf, mix>>
  BY DEF Write, device, setup
<1>2. at \in [Outputs -> 0..Last + 1] /\ buf \in [Outputs -> Masters \cup Cues]
  BY DEF Typed, TypeOK
<1>3. \A f \in Frames : f \in Int /\ ~(f < 1)
  BY AudioAssumption DEF Frames
<1>4. ASSUME NEW q \in Outputs, IsMaster(q), NEW f \in Frames, f < at'[q]
      PROVE  mix'[f].m = buf'[q]
  <2>1. q # o
    BY <1>1, <1>2, <1>3, <1>4
  <2>2. QED
    BY <1>1, <1>2, <1>4, <2>1 DEF Mastering
<1>5. QED
  BY <1>1, <1>4, SameMasters

\* The headphones' loop leaves the master half as it is.
LEMMA CopyMasters ==
    ASSUME Typed, Mastering, NEW o \in Outputs, Copy(o)
    PROVE  Mastering'
<1> DEFINE g == at[o]
<1>1. /\ g \in Frames /\ at' = [at EXCEPT ![o] = g + 1]
      /\ UNCHANGED <<handle, params, conf, buf>>
  BY DEF Copy, device, setup
<1>2. /\ at \in [Outputs -> 0..Last + 1]
      /\ DOMAIN mix = Frames /\ \A f \in Frames : f \in Int /\ 0 < f
  BY AudioAssumption DEF Typed, TypeOK, Frames
<1>3. PICK seen \in {has_hp, saw[o]} :
          mix' = [mix EXCEPT ![g] =
              IF handle[o] = "hp" THEN [m |-> @.m, h |-> buf[o]]
              ELSE [m |-> buf[o], h |-> Mirror(g, buf[o], seen)]]
  BY DEF Copy
<1>4. g # 0 /\ at'[o] = g + 1
  BY <1>1, <1>2
<1>5. handle[o] = "hp" \/ IsMaster(o)
  BY <1>4 DEF Typed, IsMaster
<1>6. /\ \A f \in Frames : f # g => mix'[f].m = mix[f].m
      /\ mix'[g].m = IF handle[o] = "hp" THEN mix[g].m ELSE buf[o]
  BY <1>1, <1>2, <1>3
<1>7. ASSUME NEW q \in Outputs, IsMaster(q), NEW f \in Frames, f < at'[q]
      PROVE  mix'[f].m = buf'[q]
  <2>1. CASE q = o
    <3>1. handle[o] # "hp"
      BY <1>7, <2>1 DEF IsMaster
    <3>2. f < g \/ f = g
      BY <1>1, <1>2, <1>4, <1>7, <2>1
    <3>3. QED
      BY <1>1, <1>6, <1>7, <2>1, <3>1, <3>2 DEF Mastering
  <2>2. CASE q # o
    <3>1. at'[q] = at[q] /\ handle[o] = "hp"
      BY <1>1, <1>2, <1>5, <1>7, <2>2 DEF Mastering
    <3>2. mix'[f].m = mix[f].m
      BY <1>6, <3>1
    <3>3. QED
      BY <1>1, <1>7, <3>1, <3>2 DEF Mastering
  <2>3. QED
    BY <2>1, <2>2
<1>8. QED
  BY <1>1, <1>7, SameMasters

LEMMA ReturnMasters ==
    ASSUME Typed, Mastering, NEW o \in Outputs, Cued(o) \/ Play(o)
    PROVE  Mastering'
<1>1. /\ at' = [at EXCEPT ![o] = 0] /\ buf' = [buf EXCEPT ![o] = Silence]
      /\ UNCHANGED <<handle, params, conf, mix>>
  BY DEF Cued, Play, Return, device, setup
<1>2. at \in [Outputs -> 0..Last + 1] /\ buf \in [Outputs -> Masters \cup Cues]
  BY DEF Typed, TypeOK
<1>3. \A f \in Frames : f \in Int /\ ~(f < 0)
  BY AudioAssumption DEF Frames
<1>4. ASSUME NEW q \in Outputs, IsMaster(q), NEW f \in Frames, f < at'[q]
      PROVE  mix'[f].m = buf'[q]
  <2>1. q # o
    BY <1>1, <1>2, <1>3, <1>4
  <2>2. QED
    BY <1>1, <1>2, <1>4, <2>1 DEF Mastering
<1>5. QED
  BY <1>1, <1>4, SameMasters

LEMMA MasteringNext ==
    ASSUME Typed, Ownership, Mastering, [Next]_vars
    PROVE  Mastering'
<1>1. ASSUME UNCHANGED <<device, setup, stream>> PROVE Mastering'
  BY <1>1 DEF device, setup, stream, Mastering, IsMaster
<1>2. CASE Card
  BY <1>1, <1>2 DEF Card
<1>3. CASE \E o \in Outputs : Open(o) \/ Close(o)
  BY <1>3, OwnerMasters
<1>4. CASE \E o \in Outputs, s \in Settings : Choose(o, s)
  BY <1>4, SettingMasters
<1>5. CASE \E o \in Outputs : Restart(o) \/ Install(o)
  BY <1>5, SettingMasters
<1>6. CASE \E o \in Outputs, p \in Masters \cup Cues : Write(o, p)
  BY <1>6, WriteMasters
<1>7. CASE \E o \in Outputs : Copy(o) \/ Cued(o) \/ Play(o)
  BY <1>7, CopyMasters, ReturnMasters
<1>8. CASE UNCHANGED vars
  BY <1>1, <1>8 DEF vars
<1>9. QED
  BY <1>2, <1>3, <1>4, <1>5, <1>6, <1>7, <1>8 DEF Next

\* The step that plays: its output is the master and has passed every frame.
LEMMA PlayIsWhole ==
    ASSUME Typed, Mastering, [Next]_vars, NEW o \in Outputs,
           at[o] = Last + 1, played' # played, at'[o] = 0
    PROVE  conf = FourChannels /\ \A f \in Frames : mix[f].m = buf[o]
<1>1. PICK q \in Outputs : Play(q)
  BY DEF Next, vars, stream, Card, Open, Close, Choose, Restart, Install, Write, Copy, Cued
<1>2. at \in [Outputs -> 0..Last + 1] /\ Last + 1 # 0
  BY AudioAssumption DEF Typed, TypeOK
<1>3. at' = [at EXCEPT ![q] = 0]
  BY <1>1 DEF Play, Return
<1>4. q = o
  BY <1>2, <1>3
<1>5. IsMaster(o) /\ conf # Unset
  BY <1>1, <1>4 DEF Play, IsMaster
<1>6. \A f \in Frames : f < at[o]
  BY AudioAssumption DEF Frames
<1>7. QED
  BY <1>5, <1>6 DEF Mastering

\* For every length of a period, every refusal of a setting and every order of
\* opens, closes and writes: what snd_pcm_writei hands to the hardware is one
\* period of one master, in the layout of the buffer.
THEOREM PeriodsAreWhole == Spec => FramesAreWhole
<1> DEFINE Inv == Typed /\ Ownership /\ Mastering
<1>1. Init => Inv
  BY TypedInit, OwnershipInit, MasteringInit
<1>2. Inv /\ [Next]_vars => Inv'
  BY TypedNext, OwnershipNext, MasteringNext
<1>3. Inv /\ [Next]_vars =>
      [\A o \in Outputs :
          at[o] = Last + 1 /\ played' # played /\ at'[o] = 0
          => conf = FourChannels /\ \A f \in Frames : mix[f].m = buf[o]]_vars
  BY PlayIsWhole
<1>4. QED
  BY <1>1, <1>2, <1>3, PTL DEF Spec, FramesAreWhole
=============================================================================
