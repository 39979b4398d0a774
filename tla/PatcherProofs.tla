--------------------------- MODULE PatcherProofs ----------------------------
(***************************************************************************)
(* primebox-patch implements its promise, for every table with distinct    *)
(* addresses, every binary and every history of runs and kills: a file is  *)
(* patched as a whole or not at all, and patching twice is patching once.  *)
(***************************************************************************)
EXTENDS Patcher, SequenceTheorems, FiniteSetTheorems, TLAPS

N == Len(Table)

\* What the assumption on the table says, without the sequence.
LEMMA TableFacts ==
    /\ N \in Nat
    /\ \A i \in 1..N : /\ Table[i] \in [at : Nat \ {0}, old : Words, new : Words]
                       /\ Table[i].at \in Nat \ {0}
                       /\ Table[i].old \in Words /\ Table[i].new \in Words
                       /\ Table[i].old # Table[i].new
    /\ \A i, j \in 1..N : Table[i].at = Table[j].at => i = j
<1>1. N \in Nat /\ \A i \in 1..N :
        Table[i] \in [at : Nat \ {0}, old : Words, new : Words]
  <2> DEFINE Row == [at : Nat \ {0}, old : Words, new : Words]
  <2>1. Table \in Seq(Row)
    BY PatchAssumption
  <2> HIDE DEF Row
  <2>2. N \in Nat /\ \A i \in 1..N : Table[i] \in Row
    BY <2>1, ElementOfSeq, LenProperties DEF N
  <2>3. QED
    BY <2>2 DEF Row
<1>2. QED
  BY <1>1, PatchAssumption DEF N

-----------------------------------------------------------------------------
(* The operators of PatchTable.                                            *)

\* A partly patched image has the length of the image, the patched word at
\* the addresses of the patches applied, and the image's word elsewhere.
LEMMA PatchedToWords ==
    ASSUME NEW img \in Image, NEW n \in 0..N
    PROVE  /\ PatchedTo(img, n) \in Image
           /\ Len(PatchedTo(img, n)) = Len(img)
           /\ \A i \in 1..n : Table[i].at \in 1..Len(img) =>
                PatchedTo(img, n)[Table[i].at] = Table[i].new
           /\ \A k \in 1..Len(img) : (\A i \in 1..n : Table[i].at # k) =>
                PatchedTo(img, n)[k] = img[k]
<1> DEFINE Pick(k) == CHOOSE i \in 1..n : Table[i].at = k
<1> DEFINE f == PatchedTo(img, n)
<1>1. Len(img) \in Nat /\ \A k \in 1..Len(img) : img[k] \in Words
  BY DEF Image
<1>2. 1..n \subseteq 1..N
  BY TableFacts
<1>3. \A i \in 1..n : Pick(Table[i].at) = i
  <2>1. TAKE i \in 1..n
  <2> DEFINE j == Pick(Table[i].at)
  <2>2. j \in 1..n /\ Table[j].at = Table[i].at
    OBVIOUS
  <2> HIDE DEF j
  <2>3. i \in 1..N /\ j \in 1..N
    BY <1>2, <2>2
  <2>4. i = j
    BY <2>2, <2>3, TableFacts
  <2>5. QED
    BY <2>4 DEF j
<1>4. f = [k \in 1..Len(img) |->
             IF \E i \in 1..n : Table[i].at = k THEN Table[Pick(k)].new
                                               ELSE img[k]]
  BY DEF PatchedTo
<1> HIDE DEF f, Pick
<1>5. ASSUME NEW k \in 1..Len(img) PROVE f[k] \in Words
  <2>1. CASE \E i \in 1..n : Table[i].at = k
    <3>1. PICK i \in 1..n : Table[i].at = k
      BY <2>1
    <3>2. f[k] = Table[i].new
      BY <1>3, <1>4, <2>1, <3>1
    <3>3. QED
      BY <1>2, <3>2, TableFacts
  <2>2. CASE ~\E i \in 1..n : Table[i].at = k
    BY <1>1, <1>4, <2>2
  <2>3. QED
    BY <2>1, <2>2
<1>6. f \in [1..Len(img) -> Words]
  BY <1>4, <1>5
<1>7. f \in Seq(Words) /\ Len(f) = Len(img)
  BY <1>1, <1>6, SeqDef
<1>8. ASSUME NEW i \in 1..n, Table[i].at \in 1..Len(img)
      PROVE  f[Table[i].at] = Table[i].new
  BY <1>3, <1>4, <1>8
<1>9. ASSUME NEW k \in 1..Len(img), \A i \in 1..n : Table[i].at # k
      PROVE  f[k] = img[k]
  BY <1>4, <1>9
<1>10. QED
  BY <1>7, <1>8, <1>9 DEF f, Image

\* Two images of one length with the same words are the same.
LEMMA SameImage ==
    ASSUME NEW a \in Image, NEW b \in Image, Len(a) = Len(b),
           \A k \in 1..Len(a) : a[k] = b[k]
    PROVE  a = b
  BY DEF Image

\* A patched image is accepted, and patching it again changes nothing.
LEMMA PatchedTwice ==
    ASSUME NEW img \in Image, Acceptable(img)
    PROVE  /\ Patched(img) \in Image /\ Acceptable(Patched(img))
           /\ Patched(Patched(img)) = Patched(img)
<1> DEFINE one == Patched(img)
<1> DEFINE two == Patched(one)
<1>1. N \in 0..N
  BY TableFacts
<1>2. /\ one \in Image /\ Len(one) = Len(img)
      /\ \A i \in 1..N : Table[i].at \in 1..Len(img)
                           /\ one[Table[i].at] = Table[i].new
  BY <1>1, PatchedToWords DEF Patched, N, Acceptable, Fits
<1> HIDE DEF one
<1>3. Acceptable(one)
  BY <1>2 DEF Acceptable, Fits, N
<1>4. /\ two \in Image /\ Len(two) = Len(one)
      /\ \A i \in 1..N : two[Table[i].at] = Table[i].new
      /\ \A k \in 1..Len(one) :
           (\A i \in 1..N : Table[i].at # k) => two[k] = one[k]
  BY <1>1, <1>2, PatchedToWords DEF Patched, N
<1> HIDE DEF two
<1>5. \A k \in 1..Len(two) : two[k] = one[k]
  BY <1>2, <1>4
<1>6. two = one
  BY <1>2, <1>4, <1>5, SameImage
<1>7. QED
  BY <1>2, <1>3, <1>6 DEF one, two

-----------------------------------------------------------------------------
(* The loop.                                                               *)

\* Inside a run no file has changed yet, and the bytearray is the binary
\* with the patches before "next" applied, each of which fitted.
InLoop ==
    pc # "idle" =>
        /\ file = start
        /\ data = PatchedTo(start[args.rbp], next - 1)
        /\ \A i \in 1..next-1 : Fits(start[args.rbp], Table[i])

\* Only a run without --check that saw the whole table writes.
AtWrite == pc = "write" => next = N + 1 /\ ~args.check

\* What the exit status of the last run says of the files.
AtExit ==
    /\ rc = 2 \/ (rc = 0 /\ args.check) => file = start
    /\ rc = 0 /\ ~args.check =>
         /\ Acceptable(start[args.rbp])
         /\ file[args.output] = Patched(start[args.rbp])
    /\ rc # -1 => pc = "idle"

\* Every patch the loop passed is counted once.
Counted == applied + already = next - 1

PatcherInv == TypeOK /\ Counted /\ InLoop /\ AtWrite /\ AtExit

\* What a killed run leaves is an image.
LEMMA PrefixIsImage ==
    ASSUME NEW img \in Image, NEW n \in 0..Len(img)
    PROVE  SubSeq(img, 1, n) \in Image
  BY SubSeqProperties, LenProperties DEF Image

LEMMA PatcherInit == Init => PatcherInv
<1> SUFFICES ASSUME Init PROVE PatcherInv
  OBVIOUS
<1>1. file \in [Files -> Image] /\ start = file
  BY ImagesAssumption DEF Init
<1>2. /\ data \in Image /\ next \in 1..N+1 /\ N \in Nat
      /\ applied \in 0..N /\ already \in 0..N
      /\ args \in [rbp : Files, output : Files, check : BOOLEAN]
  <2>1. <<>> \in Image
    BY EmptySeq DEF Image
  <2>2. N \in Nat
    BY TableFacts
  <2>3. args \in [rbp : Files, output : Files, check : BOOLEAN]
    BY DEF Init
  <2>4. QED
    BY <2>1, <2>2, <2>3 DEF Init
<1>3. TypeOK
  BY <1>1, <1>2 DEF Init, TypeOK, N
<1>4. QED
  BY <1>3 DEF Init, PatcherInv, Counted, InLoop, AtWrite, AtExit

LEMMA RunStep ==
    ASSUME PatcherInv, NEW a \in [rbp : Files, output : Files, check : BOOLEAN],
           Run(a)
    PROVE  PatcherInv'
<1>1. a.rbp \in Files /\ file[a.rbp] \in Image /\ N \in Nat
  BY TableFacts DEF PatcherInv, TypeOK
<1>2. TypeOK'
  BY <1>1 DEF PatcherInv, TypeOK, Run, N
<1>3. PatchedTo(file[a.rbp], 0) = file[a.rbp]
  <2> DEFINE img == file[a.rbp]
  <2>1. /\ PatchedTo(img, 0) \in Image /\ Len(PatchedTo(img, 0)) = Len(img)
        /\ \A k \in 1..Len(img) : PatchedTo(img, 0)[k] = img[k]
    BY <1>1, PatchedToWords
  <2> HIDE DEF img
  <2>2. QED
    BY <1>1, <2>1, SameImage DEF img
<1>4. InLoop'
  BY <1>1, <1>3 DEF Run, InLoop
<1>5. QED
  BY <1>2, <1>4 DEF Run, PatcherInv, Counted, AtWrite, AtExit

\* The patches have distinct addresses, so the word the loop looks at is
\* still the word of the binary, and one more replacement is one more patch.
LEMMA WordUntouched ==
    ASSUME PatcherInv, pc = "loop", next <= N
    PROVE  /\ next \in 1..N /\ start[args.rbp] \in Image
           /\ Len(data) = Len(start[args.rbp])
           /\ Table[next].at \in 1..Len(data) =>
                data[Table[next].at] = start[args.rbp][Table[next].at]
<1>1. /\ next \in 1..N /\ next - 1 \in 0..N /\ N \in Nat
      /\ \A i \in 1..next-1 : i \in 1..N /\ i # next
  BY TableFacts DEF PatcherInv, TypeOK, N
<1>2. /\ start[args.rbp] \in Image
      /\ data = PatchedTo(start[args.rbp], next - 1)
  BY DEF PatcherInv, TypeOK, InLoop
<1>3. \A i \in 1..next-1 : Table[i].at # Table[next].at
  BY <1>1, TableFacts
<1>4. QED
  BY <1>1, <1>2, <1>3, PatchedToWords

LEMMA ApplyStep ==
    ASSUME PatcherInv, Apply
    PROVE  PatcherInv'
<1> DEFINE img == start[args.rbp]
<1> DEFINE p == Table[next]
<1>1. pc = "loop" /\ next <= N /\ Fits(data, p) /\ next' = next + 1
  BY DEF Apply, Mismatch, N
<1>2. /\ next \in 1..N /\ img \in Image /\ Len(data) = Len(img)
      /\ p.at \in 1..Len(img) /\ data[p.at] = img[p.at] /\ Fits(img, p)
  BY <1>1, WordUntouched DEF Fits
<1>3. /\ N \in Nat /\ next - 1 \in 0..N /\ p.new \in Words /\ data \in Image
      /\ data = PatchedTo(img, next - 1)
      /\ \A i \in 1..next-1 : Fits(img, Table[i])
  BY <1>1, <1>2, TableFacts DEF PatcherInv, InLoop, TypeOK
<1> HIDE DEF img, p
<1>4. data' = [data EXCEPT ![p.at] = p.new]
  <2>1. CASE data[p.at] = p.new
    <3>1. data' = data
      BY <2>1 DEF Apply, Iteration, p
    <3>2. QED
      BY <1>3, <2>1, <3>1 DEF Image
  <2>2. CASE data[p.at] # p.new
    BY <2>2 DEF Apply, Iteration, p
  <2>3. QED
    BY <2>1, <2>2
<1>5. /\ data' \in Image /\ Len(data') = Len(data)
      /\ \A k \in 1..Len(data) : data'[k] = IF k = p.at THEN p.new ELSE data[k]
  <2>1. p.at \in 1..Len(data) /\ data \in Seq(Words)
    BY <1>2, <1>3 DEF Image
  <2>2. QED
    BY <1>3, <1>4, <2>1, ExceptSeq DEF Image
<1>6. data' = PatchedTo(img, next)
  <2> DEFINE q == PatchedTo(img, next)
  <2>1. /\ q \in Image /\ Len(q) = Len(img)
        /\ \A i \in 1..next : Table[i].at \in 1..Len(img) =>
             q[Table[i].at] = Table[i].new
        /\ \A k \in 1..Len(img) :
             (\A i \in 1..next : Table[i].at # k) => q[k] = img[k]
    BY <1>2, <1>3, PatchedToWords
  <2> HIDE DEF q
  <2>2. ASSUME NEW k \in 1..Len(img) PROVE data'[k] = q[k]
    <3>1. CASE k = p.at
      BY <1>2, <1>3, <1>5, <2>1, <3>1 DEF p
    <3>2. CASE k # p.at /\ \E i \in 1..next-1 : Table[i].at = k
      <4>1. PICK i \in 1..next-1 : Table[i].at = k
        BY <3>2
      <4>2. data[k] = Table[i].new
        BY <1>2, <1>3, <4>1, PatchedToWords
      <4>3. i \in 1..next
        BY <1>2, <1>3
      <4>4. QED
        BY <1>2, <1>5, <2>1, <3>2, <4>1, <4>2, <4>3
    <3>3. CASE k # p.at /\ ~\E i \in 1..next-1 : Table[i].at = k
      <4>1. data[k] = img[k]
        BY <1>2, <1>3, <3>3, PatchedToWords
      <4>2. \A i \in 1..next : Table[i].at # k
        BY <1>2, <1>3, <3>3 DEF p
      <4>3. QED
        BY <1>2, <1>5, <2>1, <3>3, <4>1, <4>2
    <3>4. QED
      BY <3>1, <3>2, <3>3
  <2>3. QED
    BY <1>2, <1>5, <2>1, <2>2, SameImage DEF q
<1>7. UNCHANGED <<file, pc, args, rc, start>>
  BY DEF Apply
<1>8. InLoop'
  <2>1. \A i \in 1..next : Fits(img, Table[i])
    BY <1>2, <1>3 DEF p
  <2>2. next' - 1 = next
    BY <1>1, <1>2, <1>3
  <2>3. QED
    BY <1>1, <1>6, <1>7, <2>1, <2>2 DEF InLoop, PatcherInv, img
<1>9. /\ next' \in 1..N+1 /\ applied' \in 0..N /\ already' \in 0..N
      /\ applied' + already' = next' - 1
  <2>1. /\ applied \in 0..N /\ already \in 0..N /\ applied + already = next - 1
    BY DEF PatcherInv, TypeOK, Counted, N
  <2>2. \/ applied' = applied /\ already' = already + 1
        \/ applied' = applied + 1 /\ already' = already
    BY DEF Apply, Iteration
  <2>3. next' = next + 1 /\ next \in 1..N /\ N \in Nat
    BY <1>1, <1>2, <1>3
  <2>4. applied + already + 1 = next /\ applied < N /\ already < N
    BY <2>1, <2>3
  <2>5. QED
    BY <2>1, <2>2, <2>3, <2>4
<1>10. TypeOK' /\ Counted'
  BY <1>3, <1>5, <1>7, <1>9 DEF PatcherInv, TypeOK, Counted, N
<1>11. AtWrite' /\ AtExit'
  BY <1>1, <1>7 DEF PatcherInv, AtWrite, AtExit
<1>12. QED
  BY <1>8, <1>10, <1>11 DEF PatcherInv

\* What is written is the whole patched binary.
LEMMA WriteIsWhole ==
    ASSUME PatcherInv, pc = "write"
    PROVE  /\ file = start /\ data = Patched(start[args.rbp])
           /\ Acceptable(start[args.rbp]) /\ ~args.check
<1>1. next - 1 = N
  BY TableFacts DEF PatcherInv, AtWrite
<1>2. QED
  BY <1>1 DEF PatcherInv, InLoop, AtWrite, Patched, Acceptable, N

LEMMA OtherSteps ==
    ASSUME PatcherInv, Reject \/ Check \/ Write \/ Kill \/ UNCHANGED vars
    PROVE  PatcherInv'
<1>1. CASE Reject
  BY <1>1 DEF Reject, PatcherInv, TypeOK, Counted, InLoop, AtWrite, AtExit
<1>2. CASE Check
  <2>1. next \in 1..N+1 /\ next > N /\ N \in Nat /\ N = Len(Table)
    BY <1>2, TableFacts DEF Check, PatcherInv, TypeOK, N
  <2>2. next = N + 1
    BY <2>1
  <2>3. /\ pc = "loop" /\ UNCHANGED <<file, args, data, next, applied, already, start>>
        /\ \/ args.check /\ pc' = "idle" /\ rc' = 0
           \/ ~args.check /\ pc' = "write" /\ rc' = rc
    BY <1>2 DEF Check
  <2>4. TypeOK' /\ Counted'
    BY <2>3 DEF PatcherInv, TypeOK, Counted
  <2>5. InLoop' /\ AtWrite' /\ AtExit'
    BY <2>2, <2>3 DEF PatcherInv, InLoop, AtWrite, AtExit
  <2>6. QED
    BY <2>4, <2>5 DEF PatcherInv
<1>3. CASE Write
  <2>1. /\ file = start /\ data = Patched(start[args.rbp])
        /\ Acceptable(start[args.rbp]) /\ ~args.check
    BY <1>3, WriteIsWhole DEF Write
  <2>2. /\ pc' = "idle" /\ rc' = 0 /\ file' = [file EXCEPT ![args.output] = data]
        /\ UNCHANGED <<args, data, next, applied, already, start>>
    BY <1>3 DEF Write
  <2>3. TypeOK' /\ Counted'
    BY <2>2 DEF PatcherInv, TypeOK, Counted
  <2>4. file'[args.output] = data
    BY <2>2 DEF PatcherInv, TypeOK
  <2>5. InLoop' /\ AtWrite' /\ AtExit'
    BY <2>1, <2>2, <2>4 DEF InLoop, AtWrite, AtExit
  <2>6. QED
    BY <2>3, <2>5 DEF PatcherInv
<1>4. CASE Kill
  <2>1. \A n \in 0..Len(data) : SubSeq(data, 1, n) \in Image
    BY PrefixIsImage DEF PatcherInv, TypeOK
  <2>2. file' \in [Files -> Image]
    BY <1>4, <2>1 DEF Kill, PatcherInv, TypeOK
  <2>3. rc = -1
    BY <1>4 DEF Kill, PatcherInv, AtExit
  <2>4. QED
    BY <1>4, <2>2, <2>3
       DEF Kill, PatcherInv, TypeOK, Counted, InLoop, AtWrite, AtExit
<1>5. CASE UNCHANGED vars
  BY <1>5 DEF vars, PatcherInv, TypeOK, Counted, InLoop, AtWrite, AtExit
<1>6. QED
  BY <1>1, <1>2, <1>3, <1>4, <1>5

LEMMA PatcherNext == PatcherInv /\ [Next]_vars => PatcherInv'
  BY RunStep, ApplyStep, OtherSteps DEF Next

LEMMA PatcherInvariant == Spec => []PatcherInv
  BY PatcherInit, PatcherNext, PTL DEF Spec

-----------------------------------------------------------------------------
(* The counts.                                                             *)

\* The patches among the first n whose word is stock in the run's binary.
Stock(n) == {i \in 1..n : start[args.rbp][Table[i].at] = Table[i].old}

\* "applied" counts the stock words the loop has passed.  It goes stale when
\* a run is killed or rejected, and is exact again at status 0, where the
\* loop has passed the whole table.
CountsStock ==
    /\ pc # "idle" \/ rc = 0 => applied = Cardinality(Stock(next - 1))
    /\ rc = 0 => next = N + 1

\* Passing one more patch adds it to the set if its word was stock.
LEMMA StockGrows ==
    ASSUME NEW n \in 1..N
    PROVE  Cardinality(Stock(n)) =
             Cardinality(Stock(n - 1))
             + (IF start[args.rbp][Table[n].at] = Table[n].old THEN 1 ELSE 0)
<1> DEFINE IsStock(i) == start[args.rbp][Table[i].at] = Table[i].old
<1>1. n \in Nat /\ n - 1 \in Nat /\ n = (n - 1) + 1
  BY TableFacts
<1>2. IsFiniteSet(Stock(n - 1)) /\ n \notin Stock(n - 1)
  <2>1. IsFiniteSet(1..n-1) /\ n \notin 1..n-1
    BY <1>1, FS_Interval
  <2>2. QED
    BY <2>1, FS_Subset DEF Stock
<1>3. Cardinality(Stock(n - 1)) \in Nat
  BY <1>2, FS_CardinalityType
<1>4. 1..n = (1..n-1) \cup {n}
  BY <1>1
<1>5. Stock(n) = IF IsStock(n) THEN Stock(n - 1) \cup {n} ELSE Stock(n - 1)
  <2>1. Stock(n) = {i \in (1..n-1) \cup {n} : IsStock(i)}
    BY <1>4 DEF Stock
  <2>2. QED
    BY <2>1 DEF Stock
<1>6. Cardinality(Stock(n - 1) \cup {n}) = Cardinality(Stock(n - 1)) + 1
  BY <1>2, FS_AddElement
<1>7. QED
  BY <1>3, <1>5, <1>6

LEMMA CountsInit == Init => CountsStock
  BY DEF Init, CountsStock

LEMMA CountsNext == PatcherInv /\ CountsStock /\ [Next]_vars => CountsStock'
<1> SUFFICES ASSUME PatcherInv, CountsStock, [Next]_vars PROVE CountsStock'
  OBVIOUS
<1>1. ASSUME NEW a \in [rbp : Files, output : Files, check : BOOLEAN], Run(a)
      PROVE  CountsStock'
  <2>1. applied' = 0 /\ next' - 1 = 0 /\ rc' = -1
    BY <1>1 DEF Run
  <2>2. Stock(next - 1)' = {}
    BY <2>1 DEF Stock
  <2>3. QED
    BY <2>1, <2>2, FS_EmptySet DEF CountsStock
<1>2. CASE Apply
  <2> DEFINE p == Table[next]
  <2> DEFINE word == start[args.rbp][p.at]
  <2>1. /\ pc = "loop" /\ pc' = "loop" /\ next <= N /\ Fits(data, p)
        /\ next' = next + 1 /\ UNCHANGED <<args, rc, start>> /\ Iteration(p)
    BY <1>2 DEF Apply, Mismatch, N
  <2>2. next \in 1..N /\ data[p.at] = word /\ word \in {p.old, p.new}
    BY <2>1, WordUntouched DEF Fits
  <2>3. p.old # p.new
    BY <2>2, TableFacts
  <2>4. applied' = applied + (IF word = p.old THEN 1 ELSE 0)
    <3>1. applied \in Nat
      BY TableFacts DEF PatcherInv, TypeOK, N
    <3>2. QED
      BY <2>1, <2>2, <2>3, <3>1 DEF Iteration
  <2>5. applied = Cardinality(Stock(next - 1))
    BY <2>1 DEF CountsStock
  <2>6. applied' = Cardinality(Stock(next))
    BY <2>2, <2>4, <2>5, StockGrows
  <2>7. Stock(next - 1)' = Stock(next)
    <3>1. next' - 1 = next
      BY <2>1, <2>2, TableFacts
    <3>2. QED
      BY <2>1, <3>1 DEF Stock
  <2>8. rc' # 0
    BY <2>1 DEF PatcherInv, AtExit
  <2>9. QED
    BY <2>6, <2>7, <2>8 DEF CountsStock
<1>3. CASE Reject \/ Kill
  <2>1. pc' = "idle" /\ rc' # 0
    BY <1>3 DEF Reject, Kill, PatcherInv, AtExit
  <2>2. QED
    BY <2>1 DEF CountsStock
<1>4. CASE Check \/ Write
  <2>1. /\ pc # "idle" /\ UNCHANGED <<args, next, applied, start>>
        /\ next = N + 1
    <3>1. CASE Write
      BY <3>1 DEF Write, PatcherInv, AtWrite
    <3>2. CASE Check
      <4>1. next \in 1..N+1 /\ next > N /\ N \in Nat
        BY <3>2, TableFacts DEF Check, PatcherInv, TypeOK, N
      <4>2. QED
        BY <3>2, <4>1 DEF Check
    <3>3. QED
      BY <1>4, <3>1, <3>2
  <2>2. Stock(next - 1)' = Stock(next - 1)
    BY <2>1 DEF Stock
  <2>3. QED
    BY <2>1, <2>2 DEF CountsStock, N
<1>5. CASE UNCHANGED vars
  <2>1. UNCHANGED <<pc, args, next, applied, rc, start>>
    BY <1>5 DEF vars
  <2>2. QED
    BY <2>1 DEF CountsStock, Stock
<1>6. QED
  BY <1>1, <1>2, <1>3, <1>4, <1>5 DEF Next

-----------------------------------------------------------------------------
(* What a reader should know.                                              *)

\* The bytearray stays a sequence of words, the indices and counts stay in
\* the table, and every path holds a file, also after a killed write.
THEOREM PatcherTypes == Spec => []TypeOK
<1>1. PatcherInv => TypeOK
  BY DEF PatcherInv
<1>2. QED
  BY PatcherInvariant, <1>1, PTL

\* The two counts the tool prints add up to the table, and "applied" counts
\* exactly the words that were stock in the binary the run was given.
THEOREM PrintedCountsAreExact == Spec => []CountsAddUp
<1>1. PatcherInv /\ CountsStock => CountsAddUp
  <2> SUFFICES ASSUME PatcherInv, CountsStock, rc = 0
               PROVE  /\ applied + already = Len(Table)
                      /\ applied = Cardinality(Stock(N))
    BY DEF CountsAddUp, Stock, N
  <2>1. next - 1 = N
    BY TableFacts DEF CountsStock
  <2>2. QED
    BY <2>1 DEF PatcherInv, Counted, CountsStock, N
<1>2. QED
  BY PatcherInvariant, CountsInit, CountsNext, <1>1, PTL DEF Spec

\* A file changes only from an accepted binary into its patched form, or is
\* lost with a killed run: the program implements AtomicPatch.
THEOREM PatcherImplementsAtomicPatch == Spec => AllOrNothing
<1>1. Init => Abstract!Init
  BY ImagesAssumption DEF Init, Abstract!Init, Image, Abstract!Image
<1>2. PatcherInv /\ [Next]_vars => [Abstract!Next]_file
  <2> SUFFICES ASSUME PatcherInv, [Next]_vars PROVE [Abstract!Next]_file
    OBVIOUS
  <2>1. CASE Write
    <3>2. /\ file = start /\ data = Patched(start[args.rbp])
          /\ Acceptable(start[args.rbp])
      BY <2>1, WriteIsWhole DEF Write
    <3>3. args.rbp \in Files /\ args.output \in Files
      BY DEF PatcherInv, TypeOK
    <3>4. Abstract!Patch(args.rbp, args.output)
      BY <2>1, <3>2
         DEF Write, Abstract!Patch, Acceptable, Abstract!Acceptable, Fits,
             Abstract!Fits, Patched, Abstract!Patched, PatchedTo,
             Abstract!PatchedTo
    <3>5. QED
      BY <3>3, <3>4 DEF Abstract!Next
  <2>2. CASE Kill
    <3>1. CASE UNCHANGED file
      BY <3>1
    <3>2. CASE pc = "write"
      <4>1. /\ file = start /\ data = Patched(start[args.rbp])
            /\ Acceptable(start[args.rbp]) /\ start[args.rbp] \in Image
            /\ args.rbp \in Files /\ args.output \in Files
        BY <3>2, WriteIsWhole DEF PatcherInv, TypeOK
      <4>2. Len(data) = Len(file[args.rbp])
        BY <4>1, TableFacts, PatchedToWords DEF Patched, N
      <4>3. ASSUME NEW n \in 0..Len(data),
                   file' = [file EXCEPT ![args.output] = SubSeq(data, 1, n)]
            PROVE  Abstract!Tear(args.rbp, args.output, n)
        BY <4>1, <4>3
           DEF Abstract!Tear, Acceptable, Abstract!Acceptable, Fits,
               Abstract!Fits, Patched, Abstract!Patched, PatchedTo,
               Abstract!PatchedTo
      <4>4. UNCHANGED file \/ \E n \in 0..Len(file[args.rbp]) :
                                Abstract!Tear(args.rbp, args.output, n)
        BY <2>2, <4>2, <4>3 DEF Kill
      <4>5. QED
        BY <4>1, <4>4 DEF Abstract!Next
    <3>3. QED
      BY <2>2, <3>1, <3>2 DEF Kill
  <2>3. CASE UNCHANGED file
    BY <2>3
  <2>4. ASSUME NEW a \in [rbp : Files, output : Files, check : BOOLEAN], Run(a)
        PROVE  UNCHANGED file
    BY <2>4 DEF Run
  <2>5. Reject \/ Apply \/ Check \/ UNCHANGED vars => UNCHANGED file
    BY DEF Reject, Apply, Check, vars
  <2>6. QED
    BY <2>1, <2>2, <2>3, <2>4, <2>5 DEF Next
<1>3. QED
  BY PatcherInvariant, <1>1, <1>2, PTL DEF Spec, AllOrNothing, Abstract!Spec

\* A run that rejects its binary, and a run with --check, changes no file.
THEOREM RejectionChangesNothing == Spec => []RejectedUntouched
<1>1. PatcherInv => RejectedUntouched
  BY DEF PatcherInv, AtExit, RejectedUntouched
<1>2. QED
  BY PatcherInvariant, <1>1, PTL

\* The file an accepted run wrote is accepted again, and patching it again
\* gives the same file.
THEOREM PatchingIsIdempotent == Spec => []Idempotent
<1>1. PatcherInv => Idempotent
  <2> SUFFICES ASSUME PatcherInv, rc = 0, ~args.check
               PROVE  /\ Acceptable(file[args.output])
                      /\ Patched(file[args.output]) = file[args.output]
    BY DEF Idempotent
  <2>1. /\ start[args.rbp] \in Image /\ Acceptable(start[args.rbp])
        /\ file[args.output] = Patched(start[args.rbp])
    BY DEF PatcherInv, TypeOK, AtExit
  <2>2. QED
    BY <2>1, PatchedTwice
<1>2. QED
  BY PatcherInvariant, <1>1, PTL
=============================================================================
