--------------------------- MODULE XedSweepProofs ---------------------------
(***************************************************************************)
(* The disassembly loop over sections of any size, any symbols and any     *)
(* answers of the decoder: it never offers bytes behind the section, and   *)
(* symbols are where decoding starts.  The symbol table of any size: its   *)
(* trees are AVL trees, and it answers as a map from addresses to names.   *)
(***************************************************************************)
EXTENDS XedSweep, TLAPS, WellFoundedInduction

allvars == <<sweepvars, symbols>>

LoopNext ==
    \/ sweep = "idle" /\ UNCHANGED sweepvars
    \/ (\E r \in Regions : Start(r)) /\ UNCHANGED symbols
    \/ Loop

(* While a client fills the table nothing has been chosen or shown; in the *)
(* loop the position is in the section.                                    *)
LoopInv ==
    /\ sweep \in {"idle", "loop", "finished"}
    /\ di \in RegionType
    /\ z \in Nat
    /\ sweep = "idle" => di = NoRegion /\ shown = {}
    /\ sweep = "loop" => z <= di.size
    /\ SymbolsAreStarts

-----------------------------------------------------------------------------
(* The offer is clipped to what is left of the section, and not empty.     *)
LEMMA Offer ==
    ASSUME LoopInv, sweep = "loop"
    PROVE  /\ ilim \in Nat
           /\ z + ilim <= di.size
           /\ ~AtEnd => ilim > 0
  <1>1. di.size \in Nat /\ z \in Nat /\ z <= di.size
    BY DEF LoopInv, RegionType
  <1>2. DecodeLimit \in Nat \ {0}
    BY SweepAssumption
  <1>3. ~AtEnd => z < di.size
    BY <1>1 DEF AtEnd
  <1> QED
    BY <1>1, <1>2, <1>3 DEF ilim

LEMMA EmptyRange == \A n \in Nat : n..(n - 1) = {}
  OBVIOUS

LEMMA FirstIsNat ==
    ASSUME NEW r \in RegionType
    PROVE  First(r) \in Nat
  <1>1. r.disas_start \in Nat /\ r.runtime_vaddr \in Nat
    BY DEF RegionType
  <1> QED
    BY <1>1 DEF First

(* A turn that steps over no symbol keeps the invariant.                   *)
LEMMA TurnKeepsInv ==
    ASSUME LoopInv,
           NEW step \in Nat \ {0}, NEW shows \in BOOLEAN,
           Turn(step, shows), UNCHANGED symbols,
           z + step <= di.size,
           di.decode_only /\ di.resync => \A x \in 1..(step - 1) : ~IsSymbol(z + x)
    PROVE  LoopInv'
  <1>1. di' = di /\ sweep' = sweep /\ sweep = "loop" /\ skipped' = skipped /\ z' = z + step
    BY DEF Turn
  <1>2. z \in Nat /\ First(di) \in Nat
    BY FirstIsNat DEF LoopInv
  <1>3. \A p : IsSymbol(p)' <=> IsSymbol(p)
    BY <1>1 DEF IsSymbol
  <1>4. ASSUME di.decode_only, di.resync  PROVE NoneInside'
    <2>1. \A x \in 1..(step - 1) : ~IsSymbol(z + x)
      BY <1>4
    <2>2. NoneInside
      BY <1>4 DEF LoopInv, SymbolsAreStarts
    <2>3. SUFFICES ASSUME NEW s \in shown', NEW p \in (s[1] + 1)..(s[2] - 1)
                   PROVE  ~IsSymbol(p)
      BY <1>3 DEF NoneInside
    <2>4. CASE s \in shown
      BY <2>2, <2>4 DEF NoneInside
    <2>5. CASE s = <<z, z + step>>
      <3>0. s[1] = z /\ s[2] = z + step
        BY <2>5
      <3>1. p \in Int /\ z + 1 <= p /\ p <= (z + step) - 1
        BY <3>0, <1>2
      <3>2. p - z \in 1..(step - 1) /\ z + (p - z) = p
        BY <3>1, <1>2
      <3> QED
        BY <2>1, <3>2
    <2> QED
      BY <2>4, <2>5 DEF Turn
  <1>5. ASSUME di.decode_only, di.resync  PROVE NonePassed'
    <2>1. \A x \in 1..(step - 1) : ~IsSymbol(z + x)
      BY <1>5
    <2>2. NonePassed
      BY <1>5 DEF LoopInv, SymbolsAreStarts
    <2>3. First(di)' = First(di)
      BY <1>1 DEF First
    <2>4. tried \subseteq tried'
      BY DEF Turn
    <2>5. ASSUME NEW p \in First(di)..((z + step) - 1), IsSymbol(p)
          PROVE  p \in tried' \cup skipped'
      <3>1. CASE p < z
        <4>1. p \in First(di)..(z - 1)
          BY <3>1, <1>2
        <4> QED
          BY <4>1, <2>2, <2>4, <2>5, <1>1 DEF NonePassed
      <3>2. CASE p = z
        BY <3>2, <2>5 DEF Turn
      <3>3. CASE p > z
        <4>1. p - z \in 1..(step - 1) /\ z + (p - z) = p
          BY <3>3, <1>2
        <4> QED
          BY <4>1, <2>1, <2>5
      <3> QED
        BY <3>1, <3>2, <3>3, <1>2
    <2>6. \A p \in First(di)..((z + step) - 1) : IsSymbol(p)' => p \in tried' \cup skipped'
      BY <2>5, <1>3
    <2>7. First(di)'..(z' - 1) = First(di)..((z + step) - 1)
      BY <2>3, <1>1
    <2> QED
      BY <2>6, <2>7 DEF NonePassed
  <1>6. SymbolsAreStarts'
    BY <1>1, <1>4, <1>5 DEF SymbolsAreStarts
  <1> QED
    BY <1>1, <1>2, <1>6 DEF LoopInv

(* No position behind the first byte holds a symbol where there is none to *)
(* synchronise on, and none before the first of them.                      *)
LEMMA NoneBefore ==
    ASSUME NEW length \in Nat, NEW x \in Nat, x <= length,
           \A y \in CheckResync(length) : x <= y,
           di.decode_only, di.resync
    PROVE  \A y \in 1..(x - 1) : ~IsSymbol(z + y)
  <1>1. SUFFICES ASSUME NEW y \in 1..(x - 1), IsSymbol(z + y)
                 PROVE  FALSE
    OBVIOUS
  <1>2. y \in 1..(length - 1) /\ ~(x <= y)
    OBVIOUS
  <1>3. y \in CheckResync(length)
    BY <1>1, <1>2 DEF CheckResync
  <1> QED
    BY <1>2, <1>3

-----------------------------------------------------------------------------
LEMMA StartKeepsInv ==
    ASSUME LoopInv, NEW r \in Regions, Start(r), UNCHANGED symbols
    PROVE  LoopInv'
  <1>1. r \in RegionType /\ First(r) \in Nat
    BY SweepAssumption, FirstIsNat
  <1>2. di' = r /\ z' = First(r) /\ shown' = {} /\ sweep' \in {"loop", "finished"}
    BY DEF LoopInv, Start
  <1>3. sweep' = "loop" => z' <= di'.size
    <2>1. r.size \in Nat
      BY <1>1 DEF RegionType
    <2>2. sweep' = "loop" => ~(First(r) >= r.size)
      BY DEF Start
    <2> QED
      BY <1>1, <1>2, <2>1, <2>2
  <1>4. NoneInside'
    BY <1>2 DEF NoneInside
  <1>5. NonePassed'
    <2>1. First(di)' = z'
      BY <1>2 DEF First
    <2>2. z' \in Nat
      BY <1>1, <1>2
    <2>3. First(di)'..(z' - 1) = {}
      BY <2>1, <2>2, EmptyRange
    <2> QED
      BY <2>3 DEF NonePassed
  <1> QED
    BY <1>1, <1>2, <1>3, <1>4, <1>5 DEF LoopInv, SymbolsAreStarts

LEMMA SkipKeepsInv ==
    ASSUME LoopInv, SkipZeros, UNCHANGED symbols
    PROVE  LoopInv'
  <1>1. di' = di /\ sweep' = sweep /\ sweep = "loop" /\ shown' = shown /\ tried' = tried
    BY DEF SkipZeros
  <1>2. z' = z + ilim /\ skipped' = skipped \cup z..(z + ilim - 1)
    BY DEF SkipZeros
  <1>3. ilim \in Nat /\ z + ilim <= di.size
    BY <1>1, Offer
  <1>4. z \in Nat /\ First(di) \in Nat /\ First(di)' = First(di)
    BY <1>1, FirstIsNat DEF LoopInv, First
  <1>5. \A p : IsSymbol(p)' <=> IsSymbol(p)
    BY <1>1 DEF IsSymbol
  <1>6. NoneInside => NoneInside'
    BY <1>1, <1>5 DEF NoneInside
  <1>7. NonePassed => NonePassed'
    <2>1. ASSUME NonePassed, NEW p \in First(di)..((z + ilim) - 1), IsSymbol(p)
          PROVE  p \in tried' \cup skipped'
      <3>1. CASE p < z
        <4>1. p \in First(di)..(z - 1)
          BY <3>1, <1>4
        <4> QED
          BY <4>1, <2>1, <1>1, <1>2 DEF NonePassed
      <3>2. CASE p >= z
        <4>1. p \in z..(z + ilim - 1)
          BY <3>2, <1>3, <1>4
        <4> QED
          BY <4>1, <1>2
      <3> QED
        BY <3>1, <3>2, <1>4
    <2>2. NonePassed => \A p \in First(di)..((z + ilim) - 1) : IsSymbol(p)' => p \in tried' \cup skipped'
      BY <2>1, <1>5
    <2>3. First(di)'..(z' - 1) = First(di)..((z + ilim) - 1)
      BY <1>2, <1>4
    <2> QED
      BY <2>2, <2>3 DEF NonePassed
  <1>8. SymbolsAreStarts'
    BY <1>1, <1>6, <1>7 DEF LoopInv, SymbolsAreStarts
  <1> QED
    BY <1>1, <1>2, <1>3, <1>4, <1>8 DEF LoopInv

LEMMA DecodeKeepsInv ==
    ASSUME LoopInv, Decode, UNCHANGED symbols
    PROVE  LoopInv'
  <1>1. PICK length \in 0..ilim :
            Resync(length) \/ (length > 0 /\ Accept(length)) \/ Reject(length)
    BY DEF Decode
  <1>2. sweep = "loop" /\ ~AtEnd
    BY <1>1 DEF Resync, Accept, Reject, Turn
  <1>3. ilim \in Nat /\ ilim > 0 /\ z + ilim <= di.size
    BY <1>2, Offer
  <1>4. z \in Nat /\ di.size \in Nat
    BY DEF LoopInv, RegionType
  <1>5. length \in Nat /\ length <= ilim
    BY <1>3
  <1>6. CASE Resync(length)
    <2>1. PICK x \in CheckResync(length) :
             (\A y \in CheckResync(length) : x <= y) /\ Turn(x, FALSE)
      BY <1>6 DEF Resync
    <2>2. x \in 1..(length - 1)
      BY DEF CheckResync
    <2>3. x \in Nat \ {0} /\ x <= length /\ z + x <= di.size
      BY <2>2, <1>3, <1>4, <1>5
    <2>4. di.decode_only /\ di.resync => \A y \in 1..(x - 1) : ~IsSymbol(z + y)
      BY <2>1, <2>3, <1>5, NoneBefore
    <2> QED
      BY <2>1, <2>3, <2>4, TurnKeepsInv
  <1>7. ASSUME CheckResync(length) = {}
        PROVE  di.decode_only /\ di.resync => \A y \in 1..(length - 1) : ~IsSymbol(z + y)
    BY <1>5, <1>7, NoneBefore
  <1>8. CASE length > 0 /\ Accept(length)
    <2>1. CheckResync(length) = {} /\ Turn(length, TRUE)
      BY <1>8 DEF Accept
    <2>2. length \in Nat \ {0} /\ z + length <= di.size
      BY <1>3, <1>4, <1>5, <1>8
    <2> QED
      BY <2>1, <2>2, <1>7, TurnKeepsInv
  <1>9. CASE Reject(length)
    <2>1. CheckResync(length) = {} /\ Turn(FailedLength(length), FALSE)
      BY <1>9 DEF Reject
    <2>2. FailedLength(length) \in Nat \ {0} /\ z + FailedLength(length) <= di.size
      BY <1>3, <1>4, <1>5 DEF FailedLength
    <2>3. FailedLength(length) = length \/ FailedLength(length) = 1
      BY DEF FailedLength
    <2>4. di.decode_only /\ di.resync =>
             \A y \in 1..(FailedLength(length) - 1) : ~IsSymbol(z + y)
      <3>1. CASE FailedLength(length) = length
        BY <3>1, <2>1, <1>7
      <3>2. CASE FailedLength(length) = 1
        BY <3>2
      <3> QED
        BY <2>3, <3>1, <3>2
    <2> QED
      BY <2>1, <2>2, <2>4, TurnKeepsInv
  <1> QED
    BY <1>1, <1>6, <1>8, <1>9

LEMMA DecodeEncodeKeepsInv ==
    ASSUME LoopInv, DecodeEncode, UNCHANGED symbols
    PROVE  LoopInv'
  <1>1. PICK length \in 1..ilim \cup {1}, shows \in BOOLEAN : Turn(length, shows)
    BY DEF DecodeEncode
  <1>2. sweep = "loop" /\ ~AtEnd /\ ~di.decode_only
    BY <1>1 DEF Turn, DecodeEncode
  <1>3. ilim \in Nat /\ ilim > 0 /\ z + ilim <= di.size
    BY <1>2, Offer
  <1>4. length \in Nat \ {0} /\ z + length <= di.size
    <2>1. z \in Nat /\ di.size \in Nat
      BY DEF LoopInv, RegionType
    <2> QED
      BY <2>1, <1>3
  <1> QED
    BY <1>1, <1>2, <1>4, TurnKeepsInv

-----------------------------------------------------------------------------
LEMMA InitLoop == SweepInit => LoopInv
  <1> SUFFICES ASSUME SweepInit PROVE LoopInv
    OBVIOUS
  <1>1. NoRegion \in RegionType
    BY DEF NoRegion, RegionType
  <1> QED
    BY <1>1 DEF SweepInit, LoopInv, SymbolsAreStarts, NoRegion

LEMMA LoopStep == LoopInv /\ [LoopNext]_allvars => LoopInv'
  <1> SUFFICES ASSUME LoopInv, [LoopNext]_allvars
               PROVE  LoopInv'
    OBVIOUS
  <1>1. CASE sweep = "idle" /\ UNCHANGED sweepvars
    BY <1>1 DEF LoopInv, sweepvars, SymbolsAreStarts, NoRegion
  <1>2. CASE (\E r \in Regions : Start(r)) /\ UNCHANGED symbols
    BY <1>2, StartKeepsInv
  <1>3. ASSUME Finish, UNCHANGED symbols  PROVE LoopInv'
    BY <1>3 DEF Finish, LoopInv, SymbolsAreStarts, NoneInside, NonePassed, IsSymbol, First
  <1>4. CASE Loop
    BY <1>3, <1>4, SkipKeepsInv, DecodeKeepsInv, DecodeEncodeKeepsInv DEF Loop
  <1>5. CASE UNCHANGED allvars
    BY <1>5 DEF allvars, sweepvars, LoopInv, SymbolsAreStarts, NoneInside, NonePassed,
                IsSymbol, First
  <1> QED
    BY <1>1, <1>2, <1>4, <1>5 DEF LoopNext

THEOREM LoopInvariant == LoopSpec => []LoopInv
  <1>1. LoopSpec => SweepInit /\ [][LoopNext]_allvars
    BY PTL DEF LoopSpec, LoopNext, allvars
  <1> QED
    BY <1>1, InitLoop, LoopStep, PTL

(* Whatever the decoder answers and wherever symbols are, no instruction   *)
(* shown has a symbol inside and none is passed over.                      *)
THEOREM SymbolsStartInstructions == LoopSpec => []SymbolsAreStarts
  <1>1. LoopInv => SymbolsAreStarts
    BY DEF LoopInv
  <1> QED
    BY <1>1, LoopInvariant, PTL

(* The decoder is never offered a byte behind the end of the section.      *)
THEOREM LoopStaysInSection == LoopSpec => []StaysInSection
  <1>1. LoopInv => StaysInSection
    <2>1. SUFFICES ASSUME LoopInv, sweep = "loop"
                   PROVE  z \in 0..di.size /\ z + ilim <= di.size
      BY DEF StaysInSection
    <2>2. z \in Nat /\ di.size \in Nat /\ z <= di.size
      BY <2>1 DEF LoopInv, RegionType
    <2> QED
      BY <2>1, <2>2, Offer
  <1> QED
    BY <1>1, LoopInvariant, PTL

-----------------------------------------------------------------------------
(***************************************************************************)
(* What has 0, and with a number the next, has all numbers; the pointers   *)
(* so many steps below one, for any number of steps.                       *)
(***************************************************************************)

LEMMA LeastNumber ==
    ASSUME NEW T, T \subseteq Nat, T # {}
    PROVE  \E x \in T : \A y \in T : x <= y
  <1>1. PICK x \in T : \A y \in T : ~(<<y, x>> \in OpToRel(<, Nat))
    BY NatLessThanWellFounded, WFMin
  <1>2. \A y \in T : ~(y < x)
    BY <1>1 DEF OpToRel
  <1> QED
    BY <1>2

(* A set that has 0, and with a number the next, has all numbers.          *)
LEMMA AllNumbers ==
    ASSUME NEW P, 0 \in P, \A n \in Nat : n \in P => n + 1 \in P
    PROVE  Nat \subseteq P
  <1> SUFFICES ASSUME NEW a \in Nat, a \notin P  PROVE FALSE
    OBVIOUS
  <1> DEFINE T == Nat \ P
  <1>1. PICK n \in T : \A y \in T : n <= y
    <2>1. T \subseteq Nat /\ T # {}
      OBVIOUS
    <2> QED
      BY <2>1, LeastNumber
  <1>2. n \in Nat /\ n # 0 /\ n \notin P
    BY <1>1
  <1>3. n - 1 \in Nat /\ (n - 1) + 1 = n /\ ~(n <= n - 1)
    BY <1>2
  <1>4. n - 1 \in P
    BY <1>1, <1>3
  <1> QED
    BY <1>2, <1>3, <1>4

-----------------------------------------------------------------------------
(* the pointers at most so many steps below one *)
WithinIs(t, w) == w = [steps \in Nat |-> IF steps = 0 THEN {t} ELSE {t} \cup Children(w[steps - 1])]
Within(t) == CHOOSE w : WithinIs(t, w)

LEMMA PointersAre == \A t : Pointers(t) = Within(t)[Height(t)]
  BY Zenon DEF Pointers, Within, WithinIs

UpTo(t, k, w) ==
    w = [steps \in 0..k |-> IF steps = 0 THEN {t} ELSE {t} \cup Children(w[steps - 1])]

LEMMA UpToValues ==
    ASSUME NEW t, NEW k \in Nat, NEW w, UpTo(t, k, w)
    PROVE  /\ w[0] = {t}
           /\ \A s \in Nat : s + 1 <= k => w[s + 1] = {t} \cup Children(w[s])
  <1>1. \A s \in 0..k : w[s] = IF s = 0 THEN {t} ELSE {t} \cup Children(w[s - 1])
    BY Zenon DEF UpTo
  <1>2. 0 \in 0..k /\ \A s \in Nat : s + 1 <= k => s + 1 \in 0..k /\ s + 1 # 0 /\ (s + 1) - 1 = s
    OBVIOUS
  <1> QED
    BY <1>1, <1>2, Zenon

LEMMA UpToNext ==
    ASSUME NEW t, NEW k \in Nat, NEW w, UpTo(t, k, w), NEW s \in Nat, s + 1 <= k
    PROVE  w[s + 1] = {t} \cup Children(w[s])
  BY UpToValues

LEMMA UpToAgree ==
    ASSUME NEW t, NEW k \in Nat, NEW l \in Nat, NEW v, NEW w, UpTo(t, k, v), UpTo(t, l, w)
    PROVE  \A s \in Nat : s <= k /\ s <= l => v[s] = w[s]
  <1> DEFINE P == {s \in Nat : s <= k /\ s <= l => v[s] = w[s]}
  <1>1. 0 \in P
    BY UpToValues
  <1>2. ASSUME NEW s \in Nat, s \in P  PROVE s + 1 \in P
    <2> SUFFICES ASSUME s + 1 <= k /\ s + 1 <= l  PROVE v[s + 1] = w[s + 1]
      OBVIOUS
    <2>1. s <= k /\ s <= l
      OBVIOUS
    <2>2. v[s] = w[s]
      BY <1>2, <2>1
    <2>3. v[s + 1] = {t} \cup Children(v[s])
      BY UpToNext
    <2>4. w[s + 1] = {t} \cup Children(w[s])
      BY UpToNext
    <2> QED
      BY <2>2, <2>3, <2>4, Zenon
  <1>3. Nat \subseteq P
    <2> HIDE DEF P
    <2> QED
      BY <1>1, <1>2, AllNumbers
  <1> QED
    BY <1>3

LEMMA UpToExists == ASSUME NEW t, NEW k \in Nat  PROVE \E w : UpTo(t, k, w)
  <1> DEFINE P == {n \in Nat : \E w : UpTo(t, n, w)}
  <1>1. 0 \in P
    <2> DEFINE w == [steps \in 0..0 |-> {t}]
               body(f) == [steps \in 0..0 |-> IF steps = 0 THEN {t} ELSE {t} \cup Children(f[steps - 1])]
    <2>1. \A s \in 0..0 : s = 0
      OBVIOUS
    <2>2. w = body(w)
      BY <2>1, Zenon
    <2> QED
      BY <2>2, Zenon DEF UpTo
  <1>2. ASSUME NEW n \in Nat, n \in P  PROVE n + 1 \in P
    <2>1. PICK w : UpTo(t, n, w)
      BY <1>2
    <2> DEFINE v == [steps \in 0..(n + 1) |-> IF steps = n + 1 THEN {t} \cup Children(w[n]) ELSE w[steps]]
               body(f) == [steps \in 0..(n + 1) |-> IF steps = 0 THEN {t} ELSE {t} \cup Children(f[steps - 1])]
    <2>2. ASSUME NEW s \in 0..(n + 1)  PROVE v[s] = body(v)[s]
      <3>1. CASE s = 0
        <4>1. s # n + 1 /\ 0 \in 0..(n + 1)
          BY <3>1
        <4> QED
          BY <2>1, <3>1, <4>1, UpToValues, Zenon
      <3>2. CASE s = n + 1
        <4>1. s # 0 /\ s - 1 = n /\ n \in 0..(n + 1) /\ n # n + 1
          BY <3>2
        <4> QED
          BY <3>2, <4>1, Zenon
      <3>3. CASE s # 0 /\ s # n + 1
        <4>1. s - 1 \in 0..(n + 1) /\ s - 1 # n + 1 /\ s - 1 \in Nat /\ (s - 1) + 1 = s /\ s <= n
          BY <3>3
        <4>2. PICK m \in Nat : m = s - 1
          BY <4>1
        <4>3. m + 1 = s /\ m + 1 <= n
          BY <4>1, <4>2
        <4>4. w[m + 1] = {t} \cup Children(w[m])
          BY <2>1, <4>3, UpToNext
        <4> QED
          BY <3>3, <4>1, <4>2, <4>3, <4>4, Zenon
      <3> QED
        BY <3>1, <3>2, <3>3
    <2>3. v = body(v)
      BY <2>2, Zenon
    <2> HIDE DEF v
    <2>4. UpTo(t, n + 1, v)
      BY <2>3, Zenon DEF UpTo
    <2> QED
      BY <2>4
  <1>3. Nat \subseteq P
    <2> HIDE DEF P
    <2> QED
      BY <1>1, <1>2, AllNumbers
  <1> QED
    BY <1>3

(* Children are found step by step, for any number of steps.               *)
LEMMA WithinSteps ==
    ASSUME NEW t
    PROVE  /\ Within(t)[0] = {t}
           /\ \A k \in Nat : Within(t)[k + 1] = {t} \cup Children(Within(t)[k])
  <1> DEFINE c(k) == CHOOSE w : UpTo(t, k, w)
             v == [k \in Nat |-> c(k)[k]]
             body(f) == [steps \in Nat |-> IF steps = 0 THEN {t} ELSE {t} \cup Children(f[steps - 1])]
  <1>1. \A k \in Nat : UpTo(t, k, c(k))
    BY UpToExists, Zenon
  <1> HIDE DEF c
  <1>2. ASSUME NEW s \in Nat  PROVE v[s] = body(v)[s]
    <2>1. CASE s = 0
      BY <1>1, <2>1, UpToValues
    <2>2. CASE s # 0
      <3>1. s - 1 \in Nat /\ (s - 1) + 1 = s /\ s - 1 <= s /\ s <= s
        BY <2>2
      <3>2. c(s)[s] = {t} \cup Children(c(s)[s - 1])
        <4>1. PICK m \in Nat : m = s - 1
          BY <3>1
        <4>2. m + 1 = s /\ m + 1 <= s /\ UpTo(t, s, c(s))
          BY <1>1, <3>1, <4>1
        <4>3. c(s)[m + 1] = {t} \cup Children(c(s)[m])
          BY <4>2, UpToNext
        <4> QED
          BY <4>1, <4>2, <4>3, Zenon
      <3>3. c(s)[s - 1] = c(s - 1)[s - 1]
        BY <1>1, <3>1, UpToAgree
      <3> QED
        BY <2>2, <3>1, <3>2, <3>3, Zenon
    <2> QED
      BY <2>1, <2>2
  <1>3. v = body(v)
    BY <1>2, Zenon
  <1> HIDE DEF v
  <1>4. WithinIs(t, v)
    BY <1>3, Zenon DEF WithinIs
  <1>5. WithinIs(t, Within(t))
    BY <1>4, Zenon DEF Within
  <1>6. \A s \in Nat : Within(t)[s] = IF s = 0 THEN {t} ELSE {t} \cup Children(Within(t)[s - 1])
    BY <1>5, Zenon DEF WithinIs
  <1>7. 0 \in Nat /\ \A k \in Nat : k + 1 \in Nat /\ k + 1 # 0 /\ (k + 1) - 1 = k
    OBVIOUS
  <1> QED
    BY <1>6, <1>7, Zenon

-----------------------------------------------------------------------------
(***************************************************************************)
(* What an AVL tree is: sound nodes, however far down.                     *)
(***************************************************************************)

Sound(n) ==
    /\ n = [key |-> n.key, data |-> n.data, height |-> n.height, balance |-> n.balance,
            left |-> n.left, right |-> n.right]
    /\ n.key \in Int
    /\ Height(n.left) \in Nat /\ Height(n.right) \in Nat
    /\ n.height = 1 + (IF Height(n.left) > Height(n.right) THEN Height(n.left) ELSE Height(n.right))
    /\ n.balance = Height(n.left) - Height(n.right)
    /\ n.balance \in -1..1
    /\ \A key \in Keys(n.left) : key < n.key
    /\ \A key \in Keys(n.right) : key > n.key

SoundAt(p) == p = <<>> \/ (p = <<p[1]>> /\ Sound(p[1]))

(* an AVL tree: every pointer in it, however far down, is to a sound node *)
Tree(t) == \A k \in Nat : \A p \in Within(t)[k] : SoundAt(p)

LEMMA ChildrenOfNothing == Children({<<>>}) = {}
  BY DEF Children

LEMMA WithinNothing == \A k \in Nat : Within(<<>>)[k] = {<<>>}
  <1> DEFINE P == {k \in Nat : Within(<<>>)[k] = {<<>>}}
  <1>1. 0 \in P
    BY WithinSteps
  <1>2. ASSUME NEW k \in Nat, k \in P  PROVE k + 1 \in P
    <2>1. Within(<<>>)[k + 1] = {<<>>} \cup Children({<<>>})
      BY <1>2, WithinSteps
    <2> QED
      BY <2>1, ChildrenOfNothing
  <1> HIDE DEF P
  <1>3. Nat \subseteq P
    BY <1>1, <1>2, AllNumbers
  <1> QED
    BY <1>3 DEF P

LEMMA ChildrenOfOne == ASSUME NEW n  PROVE Children({<<n>>}) = {n.left, n.right}
  <1>1. {<<n>>} \ {<<>>} = {<<n>>} /\ <<n>>[1] = n
    OBVIOUS
  <1>2. Children({<<n>>}) = UNION {{p[1].left, p[1].right} : p \in {<<n>>}}
    BY <1>1, Zenon DEF Children
  <1> QED
    BY <1>1, <1>2

LEMMA ChildrenOfAll ==
    ASSUME NEW A, NEW B, NEW C  PROVE Children(A \cup B \cup C) = Children(A) \cup Children(B) \cup Children(C)
  BY Zenon DEF Children

LEMMA WithinNode ==
    ASSUME NEW n
    PROVE  \A k \in Nat : Within(<<n>>)[k + 1] = {<<n>>} \cup Within(n.left)[k] \cup Within(n.right)[k]
  <1> DEFINE t == <<n>>
             l == n.left
             r == n.right
             P == {k \in Nat : Within(t)[k + 1] = {t} \cup Within(l)[k] \cup Within(r)[k]}
  <1>1. 0 \in P
    <2>1. Within(t)[0 + 1] = {t} \cup Children(Within(t)[0])
      BY WithinSteps
    <2>2. Within(t)[0] = {t} /\ Within(l)[0] = {l} /\ Within(r)[0] = {r}
      BY WithinSteps
    <2>3. Children({t}) = {l, r}
      BY ChildrenOfOne
    <2> QED
      BY <2>1, <2>2, <2>3
  <1>2. ASSUME NEW k \in Nat, k \in P  PROVE k + 1 \in P
    <2>1. Within(t)[k + 1] = {t} \cup Within(l)[k] \cup Within(r)[k]
      BY <1>2
    <2>2. Within(t)[(k + 1) + 1] = {t} \cup Children(Within(t)[k + 1])
      BY WithinSteps
    <2>3. Within(l)[k + 1] = {l} \cup Children(Within(l)[k])
      BY WithinSteps
    <2>4. Within(r)[k + 1] = {r} \cup Children(Within(r)[k])
      BY WithinSteps
    <2>5. Children(Within(t)[k + 1]) = {l,
          r} \cup Children(Within(l)[k]) \cup Children(Within(r)[k])
      <3> DEFINE A == Within(l)[k]
                 B == Within(r)[k]
                 T == {t}
      <3> HIDE DEF A, B, T
      <3>1. Children(T \cup A \cup B) = Children(T) \cup Children(A) \cup Children(B)
        BY ChildrenOfAll
      <3>2. Children({t}) = {l, r}
        BY ChildrenOfOne, Zenon
      <3> QED
        BY <2>1, <3>1, <3>2, Zenon DEF A, B, T
    <2>6. {t} \cup Children(Within(t)[k + 1]) = {t} \cup Within(l)[k + 1] \cup Within(r)[k + 1]
      BY <2>3, <2>4, <2>5
    <2>7. Within(t)[(k + 1) + 1] = {t} \cup Within(l)[k + 1] \cup Within(r)[k + 1]
      BY <2>2, <2>6, Zenon
    <2> QED
      BY <2>7
  <1>3. Nat \subseteq P
    <2> HIDE DEF P
    <2> QED
      BY <1>1, <1>2, AllNumbers
  <1> QED
    BY <1>3

LEMMA TreeIs == \A t : Tree(t) => SoundAt(t)
  BY WithinSteps DEF Tree

(* A tree is nothing, or a sound node over two trees.                      *)
LEMMA TreeNode == ASSUME NEW n  PROVE Tree(<<n>>) <=> Sound(n) /\ Tree(n.left) /\ Tree(n.right)
  <1>1. Sound(n) <=> SoundAt(<<n>>)
    BY DEF SoundAt
  <1>2. ASSUME Tree(<<n>>)  PROVE Sound(n) /\ Tree(n.left) /\ Tree(n.right)
    <2>1. \A k \in Nat : Within(n.left)[k] \cup Within(n.right)[k] \subseteq Within(<<n>>)[k + 1]
      BY WithinNode
    <2> QED
      BY <1>1, <1>2, <2>1, TreeIs DEF Tree
  <1>3. ASSUME Sound(n), Tree(n.left), Tree(n.right), NEW k \in Nat, NEW p \in Within(<<n>>)[k]
        PROVE  SoundAt(p)
    <2>1. CASE k = 0
      BY <1>1, <1>3, <2>1, WithinSteps
    <2>2. CASE k # 0
      <3>1. PICK m \in Nat : k = m + 1
        <4>1. k - 1 \in Nat /\ k = (k - 1) + 1
          BY <2>2
        <4> QED
          BY <4>1
      <3>2. p \in {<<n>>} \cup Within(n.left)[m] \cup Within(n.right)[m]
        BY <1>3, <3>1, WithinNode
      <3> QED
        BY <1>1, <1>3, <3>2 DEF Tree
    <2> QED
      BY <2>1, <2>2
  <1> QED
    BY <1>2, <1>3 DEF Tree

LEMMA TreeNothing == Tree(<<>>)
  BY WithinNothing DEF Tree, SoundAt

LEMMA TreeHeight ==
    ASSUME NEW t, Tree(t)
    PROVE  /\ Height(t) \in Nat
           /\ t # <<>> => /\ t = <<t[1]>> /\ Sound(t[1]) /\ Tree(t[1].left) /\ Tree(t[1].right)
                          /\ Height(t[1].left) < Height(t) /\ Height(t[1].right) < Height(t)
  <1>1. CASE t = <<>>
    BY <1>1 DEF Height
  <1>2. CASE t # <<>>
    <2>1. t = <<t[1]>> /\ Sound(t[1])
      BY <1>2, TreeIs DEF SoundAt
    <2>2. Tree(t[1].left) /\ Tree(t[1].right)
      BY <2>1, TreeNode, Zenon
    <2>3. Height(t) = t[1].height
      BY <1>2, Zenon DEF Height
    <2> DEFINE l == Height(t[1].left)
               r == Height(t[1].right)
    <2>4. l \in Nat /\ r \in Nat /\ Height(t) = 1 + (IF l > r THEN l ELSE r)
      BY <2>1, <2>3, Zenon DEF Sound
    <2> HIDE DEF l, r
    <2>5. Height(t) \in Nat /\ l < Height(t) /\ r < Height(t)
      BY <2>4
    <2> QED
      BY <1>2, <2>1, <2>2, <2>5 DEF l, r
  <1> QED
    BY <1>1, <1>2

-----------------------------------------------------------------------------
(***************************************************************************)
(* The pointers in a tree are its top and those in its two subtrees.       *)
(***************************************************************************)

LEMMA NoPointers == Pointers(<<>>) = {<<>>}
  <1>1. Height(<<>>) \in Nat
    BY DEF Height
  <1> QED
    BY <1>1, PointersAre, WithinNothing

(* No step below the height of a tree finds another pointer.               *)
LEMMA AllWithin ==
    \A t : Tree(t) => \A k \in Nat : Height(t) <= k => Within(t)[k] = Pointers(t)
  <1> DEFINE Ends(t, k) == Tree(t) /\ Height(t) <= k => Within(t)[k] = Pointers(t)
             P == {k \in Nat : \A t : Ends(t, k)}
  <1>1. ASSUME NEW k \in Nat, NEW t, Tree(t), t = <<>>  PROVE Within(t)[k] = Pointers(t)
    <2> QED
      BY <1>1, NoPointers, WithinNothing
  <1>2. 0 \in P
    <2> SUFFICES ASSUME NEW t, Tree(t), Height(t) <= 0  PROVE Within(t)[0] = Pointers(t)
      OBVIOUS
    <2>1. t = <<>>
      BY TreeHeight
    <2> QED
      BY <1>1, <2>1
  <1>3. ASSUME NEW k \in Nat, \A j \in 0..k : j \in P  PROVE k + 1 \in P
    <2> SUFFICES ASSUME NEW t, Tree(t), Height(t) <= k + 1, t # <<>>
                 PROVE  Within(t)[k + 1] = Pointers(t)
      BY <1>1
    <2> DEFINE l == t[1].left
               r == t[1].right
               h == Height(t)
    <2>1. /\ t = <<t[1]>> /\ Tree(l) /\ Tree(r) /\ h \in Nat /\ Height(l) \in Nat /\
             Height(r) \in Nat
          /\ Height(l) < h /\ Height(r) < h
      BY TreeHeight
    <2> HIDE DEF l, r, h
    <2>2. ASSUME NEW m \in 0..k, Height(l) <= m, Height(r) <= m
          PROVE  Within(t)[m + 1] = {t} \cup Pointers(l) \cup Pointers(r)
      <3>1. m \in P
        BY <1>3
      <3>2. Within(l)[m] = Pointers(l) /\ Within(r)[m] = Pointers(r)
        BY <2>1, <2>2, <3>1
      <3>3. Within(t)[m + 1] = {t} \cup Within(l)[m] \cup Within(r)[m]
        <4>1. m \in Nat
          OBVIOUS
        <4>2. Within(<<t[1]>>)[m + 1] =
                 {<<t[1]>>} \cup Within(t[1].left)[m] \cup Within(t[1].right)[m]
          BY <4>1, WithinNode, Zenon
        <4> QED
          BY <2>1, <4>2, Zenon DEF l, r
      <3> QED
        BY <3>2, <3>3
    <2>3. PICK m \in Nat : m + 1 = h
      <3>1. h - 1 \in Nat /\ (h - 1) + 1 = h
        BY <2>1
      <3> QED
        BY <3>1
    <2>4. m \in 0..k /\ Height(l) <= m /\ Height(r) <= m
      <3>1. h <= k + 1
        BY DEF h
      <3> QED
        BY <2>1, <2>3, <3>1
    <2>5. k \in 0..k /\ Height(l) <= k /\ Height(r) <= k
      BY <2>1, <2>4
    <2>6. Within(t)[m + 1] = Within(t)[k + 1]
      BY <2>2, <2>4, <2>5, Zenon
    <2>7. Pointers(t) = Within(t)[h]
      BY PointersAre, Zenon DEF h
    <2> QED
      BY <2>3, <2>6, <2>7, Zenon
  <1>4. Nat \subseteq P
    <2> DEFINE Q == {k \in Nat : \A j \in 0..k : j \in P}
    <2> HIDE DEF P
    <2>1. 0 \in Q
      BY <1>2
    <2>2. ASSUME NEW k \in Nat, k \in Q  PROVE k + 1 \in Q
      <3>1. k + 1 \in P
        BY <1>3, <2>2
      <3>2. \A j \in 0..(k + 1) : j = k + 1 \/ j \in 0..k
        OBVIOUS
      <3> QED
        BY <2>2, <3>1, <3>2
    <2>3. Nat \subseteq Q
      <3> HIDE DEF Q
      <3> QED
        BY <2>1, <2>2, AllNumbers
    <2>4. \A k \in Nat : k \in 0..k
      OBVIOUS
    <2> QED
      BY <2>3, <2>4
  <1> QED
    BY <1>4

(* The pointers in a tree are its top and those in its two subtrees.       *)
LEMMA PointersOf ==
    ASSUME NEW n, Tree(<<n>>)
    PROVE  Pointers(<<n>>) = {<<n>>} \cup Pointers(n.left) \cup Pointers(n.right)
  <1> DEFINE t == <<n>>
             l == n.left
             r == n.right
             h == Height(t)
  <1>1. /\ Tree(l) /\ Tree(r) /\ h \in Nat /\ Height(l) \in Nat /\ Height(r) \in Nat
        /\ Height(l) < h /\ Height(r) < h
    <2>1. t # <<>> /\ t[1] = n
      OBVIOUS
    <2> QED
      BY <2>1, TreeHeight
  <1> HIDE DEF l, r, h
  <1>2. Within(t)[h + 1] = {t} \cup Within(l)[h] \cup Within(r)[h]
    BY <1>1, WithinNode DEF l, r
  <1>3. Within(t)[h + 1] = Pointers(t) /\ Within(l)[h] = Pointers(l) /\ Within(r)[h] = Pointers(r)
    <2>1. h <= h + 1 /\ h + 1 \in Nat /\ Height(l) <= h /\ Height(r) <= h
      BY <1>1
    <2>2. Within(t)[h + 1] = Pointers(t)
      BY <1>1, <2>1, AllWithin DEF h
    <2>3. Within(l)[h] = Pointers(l) /\ Within(r)[h] = Pointers(r)
      BY <1>1, <2>1, AllWithin
    <2> QED
      BY <2>2, <2>3
  <1> QED
    BY <1>2, <1>3, Zenon DEF l, r

LEMMA NodesOf ==
    /\ Nodes(<<>>) = {} /\ Keys(<<>>) = {}
    /\ \A n : Tree(<<n>>) =>
          /\ Nodes(<<n>>) = {n} \cup Nodes(n.left) \cup Nodes(n.right)
          /\ Keys(<<n>>) = {n.key} \cup Keys(n.left) \cup Keys(n.right)
  <1>1. Nodes(<<>>) = {}
    BY NoPointers DEF Nodes
  <1>2. ASSUME NEW n, Tree(<<n>>)  PROVE Nodes(<<n>>) = {n} \cup Nodes(n.left) \cup Nodes(n.right)
    <2>1. <<n>> # <<>> /\ <<n>>[1] = n
      OBVIOUS
    <2>2. \A x : x \in Nodes(<<n>>) <=> \E p \in Pointers(<<n>>) \ {<<>>} : x = p[1]
      BY DEF Nodes
    <2>3. \A x : x \in Nodes(n.left) <=> \E p \in Pointers(n.left) \ {<<>>} : x = p[1]
      BY DEF Nodes
    <2>4. \A x : x \in Nodes(n.right) <=> \E p \in Pointers(n.right) \ {<<>>} : x = p[1]
      BY DEF Nodes
    <2>5. Pointers(<<n>>) = {<<n>>} \cup Pointers(n.left) \cup Pointers(n.right)
      BY <1>2, PointersOf
    <2>6. ASSUME NEW x \in Nodes(<<n>>)  PROVE x \in {n} \cup Nodes(n.left) \cup Nodes(n.right)
      <3>1. PICK p \in Pointers(<<n>>) \ {<<>>} : x = p[1]
        BY <2>2
      <3>2. CASE p = <<n>>
        BY <2>1, <3>1, <3>2
      <3>3. CASE p \in Pointers(n.left)
        BY <2>3, <3>1, <3>3, Zenon
      <3>4. CASE p \in Pointers(n.right)
        BY <2>4, <3>1, <3>4, Zenon
      <3> QED
        BY <2>5, <3>1, <3>2, <3>3, <3>4
    <2>7. n \in Nodes(<<n>>)
      BY <2>1, <2>2, <2>5
    <2>8. Nodes(n.left) \cup Nodes(n.right) \subseteq Nodes(<<n>>)
      <3>1. /\ Pointers(n.left) \ {<<>>} \subseteq Pointers(<<n>>) \ {<<>>}
            /\ Pointers(n.right) \ {<<>>} \subseteq Pointers(<<n>>) \ {<<>>}
        BY <2>5
      <3>2. Nodes(n.left) \subseteq Nodes(<<n>>)
        BY <2>2, <2>3, <3>1, Zenon
      <3>3. Nodes(n.right) \subseteq Nodes(<<n>>)
        BY <2>2, <2>4, <3>1, Zenon
      <3> QED
        BY <3>2, <3>3
    <2> QED
      BY <2>6, <2>7, <2>8
  <1>3. Keys(<<>>) = {}
    BY <1>1 DEF Keys
  <1>4. ASSUME NEW n, Tree(<<n>>)  PROVE Keys(<<n>>) = {n.key} \cup Keys(n.left) \cup Keys(n.right)
    BY <1>2, <1>4 DEF Keys
  <1> QED
    BY <1>1, <1>2, <1>3, <1>4

-----------------------------------------------------------------------------
(***************************************************************************)
(* Induction inside a tree, from its subtrees to its top.                  *)
(***************************************************************************)

(* What is proved of a tree from its subtrees, by the height of the tree.  *)
LEMMA PointerTrees ==
    \A t : Tree(t) => \A p \in Pointers(t) :
       Tree(p) /\ Pointers(p) \subseteq Pointers(t) /\ Height(p) <= Height(t)
  <1> DEFINE Closed(t) == \A p \in Pointers(t) :
                Tree(p) /\ Pointers(p) \subseteq Pointers(t) /\ Height(p) \in Nat /\
                    Height(p) <= Height(t)
             P == {k \in Nat : \A t : Tree(t) /\ Height(t) <= k => Closed(t)}
  <1>1. Closed(<<>>)
    BY NoPointers, TreeNothing DEF Height
  <1>2. 0 \in P
    <2> SUFFICES ASSUME NEW t, Tree(t), Height(t) <= 0  PROVE Closed(t)
      OBVIOUS
    <2>1. t = <<>>
      BY TreeHeight
    <2> HIDE DEF Closed
    <2> QED
      BY <1>1, <2>1
  <1>3. ASSUME NEW k \in Nat, k \in P  PROVE k + 1 \in P
    <2> SUFFICES ASSUME NEW t, Tree(t), Height(t) <= k + 1  PROVE Closed(t)
      OBVIOUS
    <2>1. CASE t = <<>>
      <3> HIDE DEF Closed
      <3> QED
        BY <1>1, <2>1
    <2>2. CASE t # <<>>
      <3> DEFINE l == t[1].left
                 r == t[1].right
      <3>1. /\ t = <<t[1]>> /\ Tree(l) /\ Tree(r) /\ Height(t) \in Nat /\ Height(l) \in Nat /\
               Height(r) \in Nat
            /\ Height(l) < Height(t) /\ Height(r) < Height(t)
        BY <2>2, TreeHeight
      <3>2. Pointers(t) = {t} \cup Pointers(l) \cup Pointers(r)
        <4>1. Tree(<<t[1]>>)
          BY <3>1, Zenon
        <4> QED
          BY <3>1, <4>1, PointersOf, Zenon
      <3> HIDE DEF l, r
      <3>3. Height(l) <= k /\ Height(r) <= k
        BY <3>1
      <3>4. Closed(l) /\ Closed(r)
        <4> HIDE DEF Closed
        <4> QED
          BY <1>3, <3>1, <3>3
      <3> SUFFICES ASSUME NEW p \in Pointers(t)
                   PROVE  /\ Tree(p) /\ Pointers(p) \subseteq Pointers(t)
                          /\ Height(p) \in Nat /\ Height(p) <= Height(t)
        OBVIOUS
      <3>5. CASE p = t
        BY <3>1, <3>5
      <3>6. CASE p \in Pointers(l)
        <4>1. Tree(p) /\ Pointers(p) \subseteq Pointers(l) /\ Height(p) \in Nat /\
              Height(p) <= Height(l)
          BY <3>4, <3>6
        <4> QED
          BY <3>1, <3>2, <4>1
      <3>7. CASE p \in Pointers(r)
        <4>1. Tree(p) /\ Pointers(p) \subseteq Pointers(r) /\ Height(p) \in Nat /\
              Height(p) <= Height(r)
          BY <3>4, <3>7
        <4> QED
          BY <3>1, <3>2, <4>1
      <3> QED
        BY <3>2, <3>5, <3>6, <3>7
    <2> QED
      BY <2>1, <2>2
  <1>4. Nat \subseteq P
    <2> HIDE DEF P
    <2> QED
      BY <1>2, <1>3, AllNumbers
  <1>5. ASSUME NEW t, Tree(t)  PROVE Closed(t)
    <2>1. Height(t) \in P /\ Height(t) <= Height(t)
      BY <1>4, <1>5, TreeHeight
    <2> HIDE DEF Closed
    <2> QED
      BY <1>5, <2>1
  <1> QED
    BY <1>5

LEMMA TreeOf ==
    ASSUME NEW t, Tree(t), NEW p \in Pointers(t), p # <<>>
    PROVE  /\ p = <<p[1]>> /\ Sound(p[1]) /\ Tree(p)
           /\ Tree(p[1].left) /\ Tree(p[1].right)
           /\ Height(p) \in Nat /\ Height(p[1].left) \in Nat /\ Height(p[1].right) \in Nat
           /\ Height(p[1].left) < Height(p) /\ Height(p[1].right) < Height(p)
           /\ Pointers(p) = {p} \cup Pointers(p[1].left) \cup Pointers(p[1].right)
           /\ Pointers(p) \subseteq Pointers(t)
  <1>1. Tree(p) /\ Pointers(p) \subseteq Pointers(t)
    BY PointerTrees
  <1>2. /\ p = <<p[1]>> /\ Sound(p[1])
        /\ Tree(p[1].left) /\ Tree(p[1].right)
        /\ Height(p) \in Nat
        /\ Height(p[1].left) < Height(p) /\ Height(p[1].right) < Height(p)
    BY <1>1, TreeHeight
  <1>3. Height(p[1].left) \in Nat /\ Height(p[1].right) \in Nat
    BY <1>2, TreeHeight
  <1>4. Tree(<<p[1]>>)
    BY <1>1, <1>2, Zenon
  <1>5. Pointers(p) = {p} \cup Pointers(p[1].left) \cup Pointers(p[1].right)
    BY <1>2, <1>4, PointersOf, Zenon
  <1> QED
    BY <1>1, <1>2, <1>3, <1>5

LEMMA TopIsPointer == \A t : Tree(t) => t \in Pointers(t)
  <1> SUFFICES ASSUME NEW t, Tree(t)  PROVE t \in Pointers(t)
    OBVIOUS
  <1>1. CASE t = <<>>
    BY <1>1, NoPointers
  <1>2. CASE t # <<>>
    <2>1. t = <<t[1]>>
      BY <1>2, TreeHeight
    <2>2. Tree(<<t[1]>>)
      BY <2>1, Zenon
    <2> QED
      BY <2>1, <2>2, PointersOf, Zenon
  <1> QED
    BY <1>1, <1>2

LEMMA ChildrenArePointers ==
    ASSUME NEW t, Tree(t), NEW p \in Pointers(t), p # <<>>
    PROVE  p[1].left \in Pointers(t) /\ p[1].right \in Pointers(t)
  BY TreeOf, TopIsPointer

(* A set that has the null pointer, and each pointer of a tree whose two   *)
(* children it has, has all of them.                                       *)
LEMMA AllPointers ==
    ASSUME NEW t, Tree(t), NEW S, <<>> \in S,
           \A p \in Pointers(t) \ {<<>>} : p[1].left \in S /\ p[1].right \in S => p \in S
    PROVE  Pointers(t) \subseteq S
  <1> DEFINE P == {k \in Nat : \A p \in Pointers(t) : Height(p) <= k => p \in S}
  <1>1. 0 \in P
    <2> SUFFICES ASSUME NEW p \in Pointers(t), Height(p) <= 0  PROVE p \in S
      OBVIOUS
    <2>1. p = <<>>
      BY TreeOf
    <2> QED
      BY <2>1
  <1>2. ASSUME NEW k \in Nat, k \in P  PROVE k + 1 \in P
    <2> SUFFICES ASSUME NEW p \in Pointers(t), Height(p) <= k + 1, p # <<>>  PROVE p \in S
      OBVIOUS
    <2>1. p[1].left \in Pointers(t) /\ p[1].right \in Pointers(t)
      BY ChildrenArePointers
    <2>2. Height(p[1].left) <= k /\ Height(p[1].right) <= k
      BY TreeOf
    <2> QED
      BY <1>2, <2>1, <2>2
  <1>3. Nat \subseteq P
    <2> HIDE DEF P
    <2> QED
      BY <1>1, <1>2, AllNumbers
  <1>4. \A p \in Pointers(t) : Height(p) \in Nat /\ Height(p) <= Height(p)
    BY PointerTrees, TreeHeight
  <1> QED
    BY <1>3, <1>4

LEMMA NothingIsPointer == \A t : Tree(t) => <<>> \in Pointers(t)
  <1> SUFFICES ASSUME NEW t, Tree(t), <<>> \notin Pointers(t)  PROVE FALSE
    OBVIOUS
  <1>1. \A p \in Pointers(t) \ {<<>>} : p[1].left \in {<<>>} /\
        p[1].right \in {<<>>} => p \in {<<>>}
    BY ChildrenArePointers
  <1>2. Pointers(t) \subseteq {<<>>}
    BY <1>1, AllPointers
  <1> QED
    BY <1>2, TopIsPointer

-----------------------------------------------------------------------------
(***************************************************************************)
(* The insertion as an equation: what it makes of a tree by what it makes  *)
(* of the subtrees.                                                        *)
(***************************************************************************)

(* what insert makes of a pointer, given what it makes of its children *)
Into(p, key, data, l, r) ==
    IF p = <<>> THEN <<MakeNode(key, data)>>
    ELSE LET n == p[1]
             m == IF n.key = key THEN [n EXCEPT !.data = data]
                  ELSE IF n.key > key THEN Updated([n EXCEPT !.left = l])
                  ELSE Updated([n EXCEPT !.right = r])
         IN  <<Updated(Rebalanced(m))>>

InsertsIn(X, key, data, f) ==
    f = [p \in X |-> Into(p, key, data, f[p[1].left], f[p[1].right])]

LEMMA InsertNodeIs ==
    \A t, key, data : InsertNode(t, key, data) = (CHOOSE f : InsertsIn(Pointers(t), key, data,
        f))[t]
  BY Zenon DEF InsertNode, InsertsIn, Into

LEMMA InsertsAt ==
    ASSUME NEW X, NEW key, NEW data, NEW f, InsertsIn(X, key, data, f), NEW p \in X
    PROVE  f[p] = Into(p, key, data, f[p[1].left], f[p[1].right])
  BY Zenon DEF InsertsIn

LEMMA IntoNothing == \A key, data, l, r : Into(<<>>, key, data, l, r) = <<MakeNode(key, data)>>
  BY DEF Into

(* There is only one answer, whatever else the function is of.             *)
LEMMA InsertsAgree ==
    ASSUME NEW t, Tree(t), NEW X, NEW Y, Pointers(t) \subseteq X, Pointers(t) \subseteq Y,
           NEW key, NEW data, NEW f, NEW g, InsertsIn(X, key, data, f), InsertsIn(Y, key, data, g)
    PROVE  \A p \in Pointers(t) : f[p] = g[p]
  <1> DEFINE S == {p \in Pointers(t) : f[p] = g[p]}
  <1>1. <<>> \in S
    <2>1. <<>> \in Pointers(t)
      BY NothingIsPointer
    <2>2. f[<<>>] = <<MakeNode(key, data)>>
      BY <2>1, InsertsAt, IntoNothing
    <2>3. g[<<>>] = <<MakeNode(key, data)>>
      BY <2>1, InsertsAt, IntoNothing
    <2> QED
      BY <2>1, <2>2, <2>3
  <1>2. ASSUME NEW p \in Pointers(t) \ {<<>>}, p[1].left \in S, p[1].right \in S
        PROVE  p \in S
    <2>1. f[p] = Into(p, key, data, f[p[1].left], f[p[1].right])
      BY <1>2, InsertsAt
    <2>2. g[p] = Into(p, key, data, g[p[1].left], g[p[1].right])
      BY <1>2, InsertsAt
    <2>3. f[p[1].left] = g[p[1].left] /\ f[p[1].right] = g[p[1].right]
      BY <1>2
    <2>4. f[p] = g[p]
      BY <2>1, <2>2, <2>3, Zenon
    <2> QED
      BY <1>2, <2>4
  <1>3. Pointers(t) \subseteq S
    <2> HIDE DEF S
    <2> QED
      BY <1>1, <1>2, AllPointers
  <1> QED
    BY <1>3

(* There is an answer for every tree.                                      *)
LEMMA InsertsExist ==
    ASSUME NEW t, Tree(t), NEW key, NEW data
    PROVE  \E f : InsertsIn(Pointers(t), key, data, f)
  <1> DEFINE S == {p \in Pointers(t) : \E f : InsertsIn(Pointers(p), key, data, f)}
  <1>1. <<>> \in S
    <2>1. <<>> \in Pointers(t)
      BY NothingIsPointer
    <2> DEFINE f == [p \in {<<>>} |-> <<MakeNode(key, data)>>]
               body == [p \in {<<>>} |-> Into(p, key, data, f[p[1].left], f[p[1].right])]
    <2>2. \A p \in {<<>>} : f[p] = body[p]
      BY IntoNothing
    <2>3. f = body
      BY <2>2
    <2>4. InsertsIn(Pointers(<<>>), key, data, f)
      BY <2>3, NoPointers, Zenon DEF InsertsIn
    <2> QED
      BY <2>1, <2>4
  <1>2. ASSUME NEW p \in Pointers(t) \ {<<>>}, p[1].left \in S, p[1].right \in S
        PROVE  p \in S
    <2> DEFINE l == p[1].left
               r == p[1].right
    <2>1. PICK f : InsertsIn(Pointers(l), key, data, f)
      BY <1>2
    <2>2. PICK g : InsertsIn(Pointers(r), key, data, g)
      BY <1>2
    <2>3. /\ p \in Pointers(t) /\ Tree(p) /\ Tree(l) /\ Tree(r)
          /\ Pointers(p) = {p} \cup Pointers(l) \cup Pointers(r)
          /\ Height(p) \in Nat /\ Height(l) \in Nat /\ Height(r) \in Nat
          /\ Height(l) < Height(p) /\ Height(r) < Height(p)
      BY <1>2, TreeOf
    <2>4. l \in Pointers(l) /\ r \in Pointers(r)
      BY <2>3, TopIsPointer
    <2>5. \A q \in Pointers(l) \cup Pointers(r) : q # p
      BY <2>3, PointerTrees, TreeHeight
    <2> DEFINE top == Into(p, key, data, f[l], g[r])
               h == [q \in Pointers(p) |-> IF q = p THEN top ELSE IF q \in Pointers(l) THEN f[q] ELSE g[q]]
    <2>6. \A q \in Pointers(l) : h[q] = f[q]
      BY <2>3, <2>5
    <2>7. \A q \in Pointers(r) : h[q] = g[q]
      <3> SUFFICES ASSUME NEW q \in Pointers(r), q \in Pointers(l)  PROVE f[q] = g[q]
        BY <2>3, <2>5
      <3>1. Tree(q) /\ Pointers(q) \subseteq Pointers(l) /\ Pointers(q) \subseteq Pointers(r) /\
            q \in Pointers(q)
        BY <2>3, PointerTrees, TopIsPointer
      <3> HIDE DEF l, r
      <3> QED
        BY <2>1, <2>2, <3>1, InsertsAgree
    <2>8. h[p] = Into(p, key, data, h[l], h[r])
      <3>1. h[p] = top
        BY <2>3
      <3>2. h[l] = f[l] /\ h[r] = g[r]
        BY <2>4, <2>6, <2>7
      <3> HIDE DEF h
      <3> QED
        BY <3>1, <3>2, Zenon
    <2> DEFINE body(q) == Into(q, key, data, h[q[1].left], h[q[1].right])
    <2> HIDE DEF h, l, r
    <2>9. ASSUME NEW q \in Pointers(p)  PROVE h[q] = body(q)
      <3>1. CASE q = p
        BY <2>8, <3>1, Zenon DEF l, r
      <3>2. CASE q = <<>>
        <4>1. <<>> \in Pointers(l) /\ f[<<>>] = <<MakeNode(key, data)>>
          BY <2>1, <2>3, NothingIsPointer, InsertsAt, IntoNothing
        <4> QED
          BY <2>6, <3>2, <4>1, IntoNothing
      <3>3. CASE q \in Pointers(l) /\ q # <<>>
        <4>1. q[1].left \in Pointers(l) /\ q[1].right \in Pointers(l)
          BY <2>3, <3>3, ChildrenArePointers
        <4>2. f[q] = Into(q, key, data, f[q[1].left], f[q[1].right])
          BY <2>1, <3>3, InsertsAt
        <4> QED
          BY <2>6, <3>3, <4>1, <4>2
      <3>4. CASE q \in Pointers(r) /\ q # <<>>
        <4>1. q[1].left \in Pointers(r) /\ q[1].right \in Pointers(r)
          BY <2>3, <3>4, ChildrenArePointers
        <4>2. g[q] = Into(q, key, data, g[q[1].left], g[q[1].right])
          BY <2>2, <3>4, InsertsAt
        <4> QED
          BY <2>7, <3>4, <4>1, <4>2
      <3> QED
        BY <2>3, <3>1, <3>2, <3>3, <3>4
    <2>10. h = [q \in Pointers(p) |-> body(q)]
      <3>1. h = [q \in Pointers(p) |-> h[q]]
        BY DEF h
      <3> HIDE DEF body
      <3> QED
        BY <2>9, <3>1
    <2>11. InsertsIn(Pointers(p), key, data, h)
      BY <2>10, Zenon DEF InsertsIn
    <2> QED
      BY <2>3, <2>11
  <1>3. Pointers(t) \subseteq S
    <2> HIDE DEF S
    <2> QED
      BY <1>1, <1>2, AllPointers
  <1>4. t \in S
    BY <1>3, TopIsPointer
  <1> QED
    BY <1>4

(* insert answers by what it answers for the subtrees.                     *)
LEMMA InsertOf ==
    ASSUME NEW key, NEW data
    PROVE  /\ InsertNode(<<>>, key, data) = <<MakeNode(key, data)>>
           /\ \A t : Tree(t) /\ t # <<>> =>
                 InsertNode(t, key, data) =
                    Into(t, key, data, InsertNode(t[1].left, key, data), InsertNode(t[1].right,
                        key, data))
  <1> DEFINE f(t) == CHOOSE g : InsertsIn(Pointers(t), key, data, g)
  <1>1. \A t : InsertNode(t, key, data) = f(t)[t]
    BY InsertNodeIs, Zenon
  <1>2. \A t : Tree(t) => InsertsIn(Pointers(t), key, data, f(t))
    BY InsertsExist, Zenon
  <1> HIDE DEF f
  <1>3. InsertNode(<<>>, key, data) = <<MakeNode(key, data)>>
    <2>1. <<>> \in Pointers(<<>>) /\ InsertsIn(Pointers(<<>>), key, data, f(<<>>))
      BY <1>2, TreeNothing, NothingIsPointer
    <2>2. f(<<>>)[<<>>] = <<MakeNode(key, data)>>
      BY <2>1, InsertsAt, IntoNothing
    <2> QED
      BY <1>1, <2>2
  <1>4. ASSUME NEW t, Tree(t), t # <<>>
        PROVE  InsertNode(t, key, data) =
                  Into(t, key, data, InsertNode(t[1].left, key, data), InsertNode(t[1].right,
                      key, data))
    <2> DEFINE l == t[1].left
               r == t[1].right
    <2>1. t \in Pointers(t) /\ l \in Pointers(t) /\ r \in Pointers(t) /\ Tree(l) /\ Tree(r)
      BY <1>4, TopIsPointer, ChildrenArePointers, TreeOf
    <2>2. l \in Pointers(l) /\ r \in Pointers(r) /\ Pointers(l) \subseteq Pointers(t) /\
          Pointers(r) \subseteq Pointers(t)
      BY <1>4, <2>1, TopIsPointer, PointerTrees
    <2>3. f(t)[t] = Into(t, key, data, f(t)[l], f(t)[r])
      BY <1>2, <1>4, <2>1, InsertsAt
    <2> HIDE DEF l, r
    <2>4. f(t)[l] = f(l)[l] /\ f(t)[r] = f(r)[r]
      <3> DEFINE top == f(t)
                 lower == f(l)
                 upper == f(r)
      <3>1. InsertsIn(Pointers(t), key, data, top)
        BY <1>2, <1>4
      <3>2. InsertsIn(Pointers(l), key, data, lower) /\ InsertsIn(Pointers(r), key, data, upper)
        BY <1>2, <2>1
      <3> HIDE DEF top, lower, upper
      <3>3. \A p \in Pointers(l) : top[p] = lower[p]
        BY <2>1, <2>2, <3>1, <3>2, InsertsAgree
      <3>4. \A p \in Pointers(r) : top[p] = upper[p]
        BY <2>1, <2>2, <3>1, <3>2, InsertsAgree
      <3>5. top[l] = lower[l] /\ top[r] = upper[r]
        BY <2>2, <3>3, <3>4
      <3> QED
        BY <3>5 DEF top, lower, upper
    <2> QED
      BY <1>1, <2>3, <2>4, Zenon DEF l, r
  <1> QED
    BY <1>3, <1>4

-----------------------------------------------------------------------------
(***************************************************************************)
(* The nodes that updating and the turns make.                             *)
(***************************************************************************)

Entries(t) == {<<n.key, n.data>> : n \in Nodes(t)}

IsRecord(n) ==
    n = [key |-> n.key, data |-> n.data, height |-> n.height, balance |-> n.balance,
         left |-> n.left, right |-> n.right]

Higher(l, r) == IF Height(l) > Height(r) THEN Height(l) ELSE Height(r)

(* a node whose height and balance are those of its children *)
NodeOf(key, data, l, r) ==
    [key |-> key, data |-> data, height |-> 1 + Higher(l, r), balance |-> Height(l) - Height(r),
     left |-> l, right |-> r]

Ordered(key, l, r) == (\A k \in Keys(l) : k < key) /\ (\A k \in Keys(r) : k > key)

LEMMA FieldsOfNode ==
    ASSUME NEW key, NEW data, NEW l, NEW r, NEW n, n = NodeOf(key, data, l, r)
    PROVE  /\ n.key = key /\ n.data = data /\ n.left = l /\ n.right = r
           /\ n.height = 1 + Higher(l, r) /\ n.balance = Height(l) - Height(r)
           /\ IsRecord(n)
  BY DEF NodeOf, IsRecord

LEMMA UpdatedIs == ASSUME NEW n, IsRecord(n)  PROVE Updated(n) = NodeOf(n.key, n.data, n.left,
    n.right)
  <1> DEFINE a == 1 + Higher(n.left, n.right)
             b == Height(n.left) - Height(n.right)
             m == [n EXCEPT !.height = a]
             u == [m EXCEPT !.balance = b]
  <1>1. Updated(n) = [n EXCEPT !.height = a, !.balance = b]
    BY Zenon DEF Updated, Higher
  <1> HIDE DEF a, b
  <1>2. [n EXCEPT !.height = a, !.balance = b] = u
    OBVIOUS
  <1>3. m = [key |-> n.key, data |-> n.data, height |-> a, balance |-> n.balance,
             left |-> n.left, right |-> n.right]
    BY DEF IsRecord
  <1> HIDE DEF m
  <1>4. u = [key |-> m.key, data |-> m.data, height |-> m.height, balance |-> b,
             left |-> m.left, right |-> m.right]
    BY <1>3
  <1>5. m.key = n.key /\ m.data = n.data /\ m.height = a /\ m.left = n.left /\ m.right = n.right
    BY <1>3
  <1>6. u = [key |-> n.key, data |-> n.data, height |-> a, balance |-> b,
             left |-> n.left, right |-> n.right]
    BY <1>4, <1>5, Zenon
  <1> QED
    BY <1>1, <1>2, <1>6, Zenon DEF NodeOf, a, b

LEMMA WithLeft ==
    ASSUME NEW n, IsRecord(n), NEW l, NEW m, m = [n EXCEPT !.left = l]
    PROVE  IsRecord(m) /\ m.key = n.key /\ m.data = n.data /\ m.left = l /\ m.right = n.right
           /\ m.balance = n.balance
  BY DEF IsRecord

LEMMA WithRight ==
    ASSUME NEW n, IsRecord(n), NEW r, NEW m, m = [n EXCEPT !.right = r]
    PROVE  IsRecord(m) /\ m.key = n.key /\ m.data = n.data /\ m.left = n.left /\ m.right = r
           /\ m.balance = n.balance
  BY DEF IsRecord

LEMMA UpdatedWithLeft ==
    ASSUME NEW n, IsRecord(n), NEW l
    PROVE  Updated([n EXCEPT !.left = l]) = NodeOf(n.key, n.data, l, n.right)
  <1> DEFINE m == [n EXCEPT !.left = l]
  <1>1. IsRecord(m) /\ m.key = n.key /\ m.data = n.data /\ m.left = l /\ m.right = n.right
    BY WithLeft
  <1>2. Updated(m) = NodeOf(m.key, m.data, m.left, m.right)
    BY <1>1, UpdatedIs
  <1> QED
    BY <1>1, <1>2, Zenon

LEMMA UpdatedWithRight ==
    ASSUME NEW n, IsRecord(n), NEW r
    PROVE  Updated([n EXCEPT !.right = r]) = NodeOf(n.key, n.data, n.left, r)
  <1> DEFINE m == [n EXCEPT !.right = r]
  <1>1. IsRecord(m) /\ m.key = n.key /\ m.data = n.data /\ m.left = n.left /\ m.right = r
    BY WithRight
  <1>2. Updated(m) = NodeOf(m.key, m.data, m.left, m.right)
    BY <1>1, UpdatedIs
  <1> QED
    BY <1>1, <1>2, Zenon

LEMMA OneOf == \A n : <<n>>[1] = n /\ <<n>> # <<>>
  OBVIOUS

(* The turns, as the nodes they make.                                      *)
LEMMA LeftLeftIs ==
    ASSUME NEW n, IsRecord(n), NEW x, IsRecord(x), n.left = <<x>>
    PROVE  LeftLeft(n) = NodeOf(x.key, x.data, x.left, <<NodeOf(n.key, n.data, x.right, n.right)>>)
  <1>1. n.left[1] = x
    BY OneOf
  <1>2. Updated([n EXCEPT !.left = x.right]) = NodeOf(n.key, n.data, x.right, n.right)
    BY UpdatedWithLeft
  <1> DEFINE low == NodeOf(n.key, n.data, x.right, n.right)
  <1>3. Updated([x EXCEPT !.right = <<low>>]) = NodeOf(x.key, x.data, x.left, <<low>>)
    BY UpdatedWithRight
  <1> QED
    BY <1>1, <1>2, <1>3, Zenon DEF LeftLeft

LEMMA RightRightIs ==
    ASSUME NEW n, IsRecord(n), NEW x, IsRecord(x), n.right = <<x>>
    PROVE  RightRight(n) = NodeOf(x.key, x.data, <<NodeOf(n.key, n.data, n.left, x.left)>>, x.right)
  <1>1. n.right[1] = x
    BY OneOf
  <1>2. Updated([n EXCEPT !.right = x.left]) = NodeOf(n.key, n.data, n.left, x.left)
    BY UpdatedWithRight
  <1> DEFINE low == NodeOf(n.key, n.data, n.left, x.left)
  <1>3. Updated([x EXCEPT !.left = <<low>>]) = NodeOf(x.key, x.data, <<low>>, x.right)
    BY UpdatedWithLeft
  <1> QED
    BY <1>1, <1>2, <1>3, Zenon DEF RightRight

LEMMA LeftTwiceIs ==
    ASSUME NEW n, IsRecord(n), NEW x, IsRecord(x), n.left = <<x>>, NEW y, IsRecord(y),
        x.right = <<y>>
    PROVE  LeftLeft(LeftRight(n)) =
              NodeOf(y.key, y.data, <<NodeOf(x.key, x.data, x.left, y.left)>>,
                     <<NodeOf(n.key, n.data, y.right, n.right)>>)
  <1>1. n.left[1] = x /\ x.right[1] = y
    BY OneOf
  <1> DEFINE low == NodeOf(x.key, x.data, x.left, y.left)
             mid == NodeOf(y.key, y.data, <<low>>, y.right)
             m == [n EXCEPT !.left = <<mid>>]
  <1>2. Updated([x EXCEPT !.right = y.left]) = low
    BY UpdatedWithRight
  <1>3. Updated([y EXCEPT !.left = <<low>>]) = mid
    BY UpdatedWithLeft
  <1>4. LeftRight(n) = m
    BY <1>1, <1>2, <1>3, Zenon DEF LeftRight
  <1>5. IsRecord(m) /\ m.key = n.key /\ m.data = n.data /\ m.left = <<mid>> /\ m.right = n.right
    BY WithLeft
  <1>6. IsRecord(mid) /\ mid.key = y.key /\ mid.data = y.data /\ mid.left = <<low>> /\
        mid.right = y.right
    <2>1. mid = NodeOf(y.key, y.data, <<low>>, y.right)
      OBVIOUS
    <2> HIDE DEF mid, low
    <2> QED
      BY <2>1, FieldsOfNode
  <1> HIDE DEF m, mid, low
  <1>7. LeftLeft(m) = NodeOf(mid.key, mid.data, mid.left, <<NodeOf(m.key, m.data, mid.right,
        m.right)>>)
    BY <1>5, <1>6, LeftLeftIs
  <1> QED
    BY <1>4, <1>5, <1>6, <1>7, Zenon DEF low

LEMMA RightTwiceIs ==
    ASSUME NEW n, IsRecord(n), NEW x, IsRecord(x), n.right = <<x>>, NEW y, IsRecord(y),
        x.left = <<y>>
    PROVE  RightRight(RightLeft(n)) =
              NodeOf(y.key, y.data, <<NodeOf(n.key, n.data, n.left, y.left)>>,
                     <<NodeOf(x.key, x.data, y.right, x.right)>>)
  <1>1. n.right[1] = x /\ x.left[1] = y
    BY OneOf
  <1> DEFINE low == NodeOf(x.key, x.data, y.right, x.right)
             mid == NodeOf(y.key, y.data, y.left, <<low>>)
             m == [n EXCEPT !.right = <<mid>>]
  <1>2. Updated([x EXCEPT !.left = y.right]) = low
    BY UpdatedWithLeft
  <1>3. Updated([y EXCEPT !.right = <<low>>]) = mid
    BY UpdatedWithRight
  <1>4. RightLeft(n) = m
    BY <1>1, <1>2, <1>3, Zenon DEF RightLeft
  <1>5. IsRecord(m) /\ m.key = n.key /\ m.data = n.data /\ m.left = n.left /\ m.right = <<mid>>
    BY WithRight
  <1>6. IsRecord(mid) /\ mid.key = y.key /\ mid.data = y.data /\ mid.left = y.left /\
        mid.right = <<low>>
    <2>1. mid = NodeOf(y.key, y.data, y.left, <<low>>)
      OBVIOUS
    <2> HIDE DEF mid, low
    <2> QED
      BY <2>1, FieldsOfNode
  <1> HIDE DEF m, mid, low
  <1>7. RightRight(m) = NodeOf(mid.key, mid.data, <<NodeOf(m.key, m.data, m.left, mid.left)>>,
        mid.right)
    BY <1>5, <1>6, RightRightIs
  <1> QED
    BY <1>4, <1>5, <1>6, <1>7, Zenon DEF low

-----------------------------------------------------------------------------
(***************************************************************************)
(* A tree taken apart and put together.                                    *)
(***************************************************************************)

LEMMA SoundIs ==
    ASSUME NEW n
    PROVE  Sound(n) <=>
              /\ IsRecord(n) /\ n.key \in Int /\ Height(n.left) \in Nat /\ Height(n.right) \in Nat
              /\ n.height = 1 + Higher(n.left, n.right)
              /\ n.balance = Height(n.left) - Height(n.right) /\ n.balance \in -1..1
              /\ Ordered(n.key, n.left, n.right)
  BY Zenon DEF Sound, IsRecord, Higher, Ordered

LEMMA KeysAreNumbers == \A t : Tree(t) => Keys(t) \subseteq Int
  <1> SUFFICES ASSUME NEW t, Tree(t), NEW n \in Nodes(t)  PROVE n.key \in Int
    BY DEF Keys
  <1>1. PICK p \in Pointers(t) \ {<<>>} : n = p[1]
    BY DEF Nodes
  <1> QED
    BY <1>1, TreeOf DEF Sound

LEMMA EntriesOf ==
    /\ Entries(<<>>) = {}
    /\ \A n : Tree(<<n>>) => Entries(<<n>>) = {<<n.key,
        n.data>>} \cup Entries(n.left) \cup Entries(n.right)
  <1>1. Entries(<<>>) = {}
    BY NodesOf DEF Entries
  <1>2. ASSUME NEW n, Tree(<<n>>)
        PROVE  Entries(<<n>>) = {<<n.key, n.data>>} \cup Entries(n.left) \cup Entries(n.right)
    <2>1. Nodes(<<n>>) = {n} \cup Nodes(n.left) \cup Nodes(n.right)
      BY <1>2, NodesOf
    <2> QED
      BY <2>1 DEF Entries
  <1> QED
    BY <1>1, <1>2

(* A node over two trees of about the same height, whose keys lie to its   *)
(* left and right, makes a tree.                                           *)
LEMMA NodeTree ==
    ASSUME NEW key \in Int, NEW data, NEW l, NEW r, Tree(l), Tree(r), Ordered(key, l, r),
           Height(l) - Height(r) \in -1..1, NEW t, t = <<NodeOf(key, data, l, r)>>
    PROVE  /\ Tree(t) /\ t # <<>> /\ Height(t) = 1 + Higher(l, r) /\
              t[1].balance = Height(l) - Height(r)
           /\ Keys(t) = {key} \cup Keys(l) \cup Keys(r)
           /\ Entries(t) = {<<key, data>>} \cup Entries(l) \cup Entries(r)
  <1> DEFINE n == NodeOf(key, data, l, r)
  <1>1. /\ n.key = key /\ n.data = data /\ n.left = l /\ n.right = r
        /\ n.height = 1 + Higher(l, r) /\ n.balance = Height(l) - Height(r)
        /\ IsRecord(n)
    <2>1. n = NodeOf(key, data, l, r)
      OBVIOUS
    <2> HIDE DEF n
    <2> QED
      BY <2>1, FieldsOfNode
  <1>2. t = <<n>> /\ t # <<>> /\ t[1] = n
    BY OneOf
  <1> HIDE DEF n
  <1>3. Height(l) \in Nat /\ Height(r) \in Nat
    BY TreeHeight
  <1>4. Sound(n)
    BY <1>1, <1>3, SoundIs, Zenon
  <1>5. Tree(t)
    BY <1>1, <1>2, <1>4, TreeNode, Zenon
  <1>6. Height(t) = n.height
    BY <1>2 DEF Height
  <1>7. Keys(t) = {key} \cup Keys(l) \cup Keys(r)
    BY <1>1, <1>2, <1>5, NodesOf, Zenon
  <1>8. Entries(t) = {<<key, data>>} \cup Entries(l) \cup Entries(r)
    BY <1>1, <1>2, <1>5, EntriesOf, Zenon
  <1> QED
    BY <1>1, <1>2, <1>5, <1>6, <1>7, <1>8

(* What a tree is made of.                                                 *)
LEMMA TreeParts ==
    ASSUME NEW t, Tree(t), t # <<>>
    PROVE  LET n == t[1]
           IN  /\ t = <<n>> /\ IsRecord(n) /\ n.key \in Int
               /\ Tree(n.left) /\ Tree(n.right) /\ Ordered(n.key, n.left, n.right)
               /\ Height(t) \in Nat /\ Height(n.left) \in Nat /\ Height(n.right) \in Nat
               /\ Height(t) = 1 + Higher(n.left, n.right)
               /\ n.balance = Height(n.left) - Height(n.right) /\ n.balance \in -1..1
               /\ Keys(t) = {n.key} \cup Keys(n.left) \cup Keys(n.right)
               /\ Entries(t) = {<<n.key, n.data>>} \cup Entries(n.left) \cup Entries(n.right)
  <1> DEFINE n == t[1]
  <1>1. t = <<n>> /\ Sound(n) /\ Tree(n.left) /\ Tree(n.right) /\ Height(t) \in Nat
    BY TreeHeight
  <1>2. Height(t) = n.height
    BY DEF Height
  <1> HIDE DEF n
  <1>3. Tree(<<n>>)
    BY <1>1, Zenon
  <1>4. Keys(t) = {n.key} \cup Keys(n.left) \cup Keys(n.right)
    BY <1>1, <1>3, NodesOf, Zenon
  <1>5. Entries(t) = {<<n.key, n.data>>} \cup Entries(n.left) \cup Entries(n.right)
    BY <1>1, <1>3, EntriesOf, Zenon
  <1>6. /\ IsRecord(n) /\ n.key \in Int /\ Height(n.left) \in Nat /\ Height(n.right) \in Nat
        /\ n.height = 1 + Higher(n.left, n.right)
        /\ n.balance = Height(n.left) - Height(n.right) /\ n.balance \in -1..1
        /\ Ordered(n.key, n.left, n.right)
    BY <1>1, SoundIs
  <1> QED
    BY <1>1, <1>2, <1>4, <1>5, <1>6, Zenon DEF n

-----------------------------------------------------------------------------
(***************************************************************************)
(* A single turn gives a tree of the same keys and data, as high as the    *)
(* higher side.                                                            *)
(***************************************************************************)

(* t is the tree of what the node and its two subtrees hold *)
Holds(t, key, data, l, r) ==
    /\ Tree(t) /\ t # <<>>
    /\ Keys(t) = {key} \cup Keys(l) \cup Keys(r)
    /\ Entries(t) = {<<key, data>>} \cup Entries(l) \cup Entries(r)

LEMMA NothingHigh == Height(<<>>) = 0
  BY DEF Height

(* The single turns.                                                       *)
LEMMA TurnedRight ==
    ASSUME NEW k \in Int, NEW d, NEW l, NEW r, Tree(l), Tree(r), Ordered(k, l, r),
           Height(l) - Height(r) = 2, l[1].balance = 1,
           NEW m, IsRecord(m), m.key = k, m.data = d, m.left = l, m.right = r,
           NEW t, t = <<LeftLeft(m)>>
    PROVE  Holds(t, k, d, l, r) /\ Height(t) = Height(l)
  <1> DEFINE x == l[1]
  <1>1. l # <<>> /\ Height(l) \in Nat /\ Height(r) \in Nat
    BY TreeHeight, NothingHigh
  <1>2. /\ l = <<x>> /\ IsRecord(x) /\ x.key \in Int
        /\ Tree(x.left) /\ Tree(x.right) /\ Ordered(x.key, x.left, x.right)
        /\ Height(x.left) \in Nat /\ Height(x.right) \in Nat
        /\ Height(l) = 1 + Higher(x.left, x.right)
        /\ x.balance = Height(x.left) - Height(x.right)
        /\ Keys(l) = {x.key} \cup Keys(x.left) \cup Keys(x.right)
        /\ Entries(l) = {<<x.key, x.data>>} \cup Entries(x.left) \cup Entries(x.right)
    BY <1>1, TreeParts, Zenon
  <1>3. x.balance = 1
    OBVIOUS
  <1> HIDE DEF x
  <1>4. LeftLeft(m) = NodeOf(x.key, x.data, x.left, <<NodeOf(k, d, x.right, r)>>)
    BY <1>2, LeftLeftIs, Zenon
  <1>5. /\ Height(x.left) = Height(x.right) + 1 /\ Height(r) = Height(x.right)
        /\ Height(l) = Height(x.left) + 1
    BY <1>1, <1>2, <1>3 DEF Higher
  <1>6. /\ Ordered(k, x.right, r) /\ x.key < k /\ (\A j \in Keys(x.left) : j < k)
        /\ (\A j \in Keys(r) : j > x.key)
    <2>1. /\ x.key < k /\ (\A j \in Keys(x.left) : j < x.key)
          /\ (\A j \in Keys(x.right) : j < k) /\ (\A j \in Keys(r) : j > k)
      BY <1>2 DEF Ordered
    <2>2. Keys(x.left) \subseteq Int /\ Keys(r) \subseteq Int
      BY <1>2, KeysAreNumbers
    <2> QED
      BY <1>2, <2>1, <2>2 DEF Ordered
  <1> DEFINE low == <<NodeOf(k, d, x.right, r)>>
  <1>7. /\ Tree(low) /\ Height(low) = 1 + Higher(x.right, r)
        /\ Keys(low) = {k} \cup Keys(x.right) \cup Keys(r)
        /\ Entries(low) = {<<k, d>>} \cup Entries(x.right) \cup Entries(r)
    <2>1. Height(x.right) - Height(r) \in -1..1
      BY <1>2, <1>5
    <2> QED
      BY <1>2, <1>6, <2>1, NodeTree
  <1>8. t = <<NodeOf(x.key, x.data, x.left, low)>>
    BY <1>4
  <1> HIDE DEF low
  <1>9. Height(low) = Height(x.left)
    BY <1>2, <1>5, <1>7 DEF Higher
  <1>10. Ordered(x.key, x.left, low)
    BY <1>2, <1>6, <1>7 DEF Ordered
  <1>11. /\ Tree(t) /\ t # <<>> /\ Height(t) = 1 + Higher(x.left, low)
         /\ Keys(t) = {x.key} \cup Keys(x.left) \cup Keys(low)
         /\ Entries(t) = {<<x.key, x.data>>} \cup Entries(x.left) \cup Entries(low)
    <2>1. Height(x.left) - Height(low) \in -1..1
      BY <1>2, <1>9
    <2> QED
      BY <1>2, <1>7, <1>8, <1>10, <2>1, NodeTree
  <1>12. Height(t) = Height(l)
    BY <1>2, <1>5, <1>9, <1>11 DEF Higher
  <1> QED
    BY <1>2, <1>7, <1>11, <1>12 DEF Holds

LEMMA TurnedLeft ==
    ASSUME NEW k \in Int, NEW d, NEW l, NEW r, Tree(l), Tree(r), Ordered(k, l, r),
           Height(l) - Height(r) = -2, r[1].balance = -1,
           NEW m, IsRecord(m), m.key = k, m.data = d, m.left = l, m.right = r,
           NEW t, t = <<RightRight(m)>>
    PROVE  Holds(t, k, d, l, r) /\ Height(t) = Height(r)
  <1> DEFINE x == r[1]
  <1>1. r # <<>> /\ Height(l) \in Nat /\ Height(r) \in Nat
    BY TreeHeight, NothingHigh
  <1>2. /\ r = <<x>> /\ IsRecord(x) /\ x.key \in Int
        /\ Tree(x.left) /\ Tree(x.right) /\ Ordered(x.key, x.left, x.right)
        /\ Height(x.left) \in Nat /\ Height(x.right) \in Nat
        /\ Height(r) = 1 + Higher(x.left, x.right)
        /\ x.balance = Height(x.left) - Height(x.right)
        /\ Keys(r) = {x.key} \cup Keys(x.left) \cup Keys(x.right)
        /\ Entries(r) = {<<x.key, x.data>>} \cup Entries(x.left) \cup Entries(x.right)
    BY <1>1, TreeParts, Zenon
  <1>3. x.balance = -1
    OBVIOUS
  <1> HIDE DEF x
  <1>4. RightRight(m) = NodeOf(x.key, x.data, <<NodeOf(k, d, l, x.left)>>, x.right)
    BY <1>2, RightRightIs, Zenon
  <1>5. /\ Height(x.right) = Height(x.left) + 1 /\ Height(l) = Height(x.left)
        /\ Height(r) = Height(x.right) + 1
    BY <1>1, <1>2, <1>3 DEF Higher
  <1>6. Ordered(k, l, x.left) /\ k < x.key /\ (\A j \in Keys(l) : j < x.key)
    <2>1. k < x.key /\ (\A j \in Keys(x.left) : j > k) /\ (\A j \in Keys(l) : j < k)
      BY <1>2 DEF Ordered
    <2>2. Keys(l) \subseteq Int
      BY KeysAreNumbers
    <2> QED
      BY <1>2, <2>1, <2>2 DEF Ordered
  <1> DEFINE low == <<NodeOf(k, d, l, x.left)>>
  <1>7. /\ Tree(low) /\ Height(low) = 1 + Higher(l, x.left)
        /\ Keys(low) = {k} \cup Keys(l) \cup Keys(x.left)
        /\ Entries(low) = {<<k, d>>} \cup Entries(l) \cup Entries(x.left)
    <2>1. Height(l) - Height(x.left) \in -1..1
      BY <1>2, <1>5
    <2> QED
      BY <1>2, <1>6, <2>1, NodeTree
  <1>8. t = <<NodeOf(x.key, x.data, low, x.right)>>
    BY <1>4
  <1> HIDE DEF low
  <1>9. Height(low) = Height(x.right)
    BY <1>2, <1>5, <1>7 DEF Higher
  <1>10. Ordered(x.key, low, x.right)
    BY <1>2, <1>6, <1>7 DEF Ordered
  <1>11. /\ Tree(t) /\ t # <<>> /\ Height(t) = 1 + Higher(low, x.right)
         /\ Keys(t) = {x.key} \cup Keys(low) \cup Keys(x.right)
         /\ Entries(t) = {<<x.key, x.data>>} \cup Entries(low) \cup Entries(x.right)
    <2>1. Height(low) - Height(x.right) \in -1..1
      BY <1>2, <1>9
    <2> QED
      BY <1>2, <1>7, <1>8, <1>10, <2>1, NodeTree
  <1>12. Height(t) = Height(r)
    BY <1>2, <1>5, <1>9, <1>11 DEF Higher
  <1> QED
    BY <1>2, <1>7, <1>11, <1>12 DEF Holds

-----------------------------------------------------------------------------
(***************************************************************************)
(* So does a double turn.                                                  *)
(***************************************************************************)

(* The double turns.                                                       *)
LEMMA TurnedTwiceRight ==
    ASSUME NEW k \in Int, NEW d, NEW l, NEW r, Tree(l), Tree(r), Ordered(k, l, r),
           Height(l) - Height(r) = 2, l[1].balance = -1,
           NEW m, IsRecord(m), m.key = k, m.data = d, m.left = l, m.right = r,
           NEW t, t = <<LeftLeft(LeftRight(m))>>
    PROVE  Holds(t, k, d, l, r) /\ Height(t) = Height(l)
  <1> DEFINE x == l[1]
             y == x.right[1]
  <1>1. l # <<>> /\ Height(l) \in Nat /\ Height(r) \in Nat
    BY TreeHeight, NothingHigh
  <1>2. /\ l = <<x>> /\ IsRecord(x) /\ x.key \in Int
        /\ Tree(x.left) /\ Tree(x.right) /\ Ordered(x.key, x.left, x.right)
        /\ Height(x.left) \in Nat /\ Height(x.right) \in Nat
        /\ Height(l) = 1 + Higher(x.left, x.right)
        /\ x.balance = Height(x.left) - Height(x.right)
        /\ Keys(l) = {x.key} \cup Keys(x.left) \cup Keys(x.right)
        /\ Entries(l) = {<<x.key, x.data>>} \cup Entries(x.left) \cup Entries(x.right)
    BY <1>1, TreeParts, Zenon
  <1>3. x.balance = -1
    OBVIOUS
  <1>4. /\ Height(x.right) = Height(x.left) + 1 /\ Height(r) = Height(x.left)
        /\ Height(l) = Height(x.left) + 2 /\ x.right # <<>>
    BY <1>1, <1>2, <1>3, NothingHigh DEF Higher
  <1>5. /\ x.right = <<y>> /\ IsRecord(y) /\ y.key \in Int
        /\ Tree(y.left) /\ Tree(y.right) /\ Ordered(y.key, y.left, y.right)
        /\ Height(y.left) \in Nat /\ Height(y.right) \in Nat
        /\ Height(x.right) = 1 + Higher(y.left, y.right)
        /\ y.balance = Height(y.left) - Height(y.right) /\ y.balance \in -1..1
        /\ Keys(x.right) = {y.key} \cup Keys(y.left) \cup Keys(y.right)
        /\ Entries(x.right) = {<<y.key, y.data>>} \cup Entries(y.left) \cup Entries(y.right)
    BY <1>2, <1>4, TreeParts, Zenon
  <1> HIDE DEF x, y
  <1> DEFINE below == NodeOf(x.key, x.data, x.left, y.left)
             above == NodeOf(k, d, y.right, r)
             low == <<below>>
             high == <<above>>
  <1>6. t = <<NodeOf(y.key, y.data, low, high)>>
    BY <1>2, <1>5, LeftTwiceIs, Zenon
  <1>7. /\ Height(x.left) = 1 + Height(y.left) \/ Height(x.left) = Height(y.left)
        /\ Height(x.left) = 1 + Height(y.right) \/ Height(x.left) = Height(y.right)
    BY <1>2, <1>4, <1>5 DEF Higher
  <1>8. /\ x.key < y.key /\ y.key < k
        /\ Ordered(x.key, x.left, y.left) /\ Ordered(k, y.right, r)
        /\ (\A j \in Keys(x.left) : j < y.key) /\ (\A j \in Keys(r) : j > y.key)
    <2>1. /\ x.key < y.key /\ y.key < k
          /\ (\A j \in Keys(x.left) : j < x.key) /\ (\A j \in Keys(y.left) : j > x.key)
          /\ (\A j \in Keys(y.right) : j < k) /\ (\A j \in Keys(r) : j > k)
      BY <1>2, <1>5 DEF Ordered
    <2>2. Keys(x.left) \subseteq Int /\ Keys(r) \subseteq Int
      BY <1>2, KeysAreNumbers
    <2> QED
      BY <1>2, <1>5, <2>1, <2>2 DEF Ordered
  <1>9. /\ Tree(low) /\ Height(low) = 1 + Higher(x.left, y.left)
        /\ Keys(low) = {x.key} \cup Keys(x.left) \cup Keys(y.left)
        /\ Entries(low) = {<<x.key, x.data>>} \cup Entries(x.left) \cup Entries(y.left)
    <2>1. Height(x.left) - Height(y.left) \in -1..1
      BY <1>2, <1>5, <1>7
    <2> QED
      BY <1>2, <1>5, <1>8, <2>1, NodeTree
  <1>10. /\ Tree(high) /\ Height(high) = 1 + Higher(y.right, r)
         /\ Keys(high) = {k} \cup Keys(y.right) \cup Keys(r)
         /\ Entries(high) = {<<k, d>>} \cup Entries(y.right) \cup Entries(r)
    <2>1. Height(y.right) - Height(r) \in -1..1
      BY <1>2, <1>4, <1>5, <1>7
    <2> QED
      BY <1>5, <1>8, <2>1, NodeTree
  <1> HIDE DEF below, above, low, high
  <1>11. Height(low) = Height(x.left) + 1 /\ Height(high) = Height(x.left) + 1
    BY <1>2, <1>4, <1>5, <1>7, <1>9, <1>10 DEF Higher
  <1>12. Ordered(y.key, low, high)
    BY <1>5, <1>8, <1>9, <1>10 DEF Ordered
  <1>13. /\ Tree(t) /\ t # <<>> /\ Height(t) = 1 + Higher(low, high)
         /\ Keys(t) = {y.key} \cup Keys(low) \cup Keys(high)
         /\ Entries(t) = {<<y.key, y.data>>} \cup Entries(low) \cup Entries(high)
    <2>1. Height(low) - Height(high) \in -1..1
      BY <1>2, <1>11
    <2> QED
      BY <1>5, <1>6, <1>9, <1>10, <1>12, <2>1, NodeTree
  <1>14. Height(t) = Height(l)
    BY <1>2, <1>4, <1>11, <1>13 DEF Higher
  <1>15. Keys(t) = {k} \cup Keys(l) \cup Keys(r)
    BY <1>2, <1>5, <1>9, <1>10, <1>13
  <1>16. Entries(t) = {<<k, d>>} \cup Entries(l) \cup Entries(r)
    BY <1>2, <1>5, <1>9, <1>10, <1>13
  <1> QED
    BY <1>13, <1>14, <1>15, <1>16 DEF Holds

LEMMA TurnedTwiceLeft ==
    ASSUME NEW k \in Int, NEW d, NEW l, NEW r, Tree(l), Tree(r), Ordered(k, l, r),
           Height(l) - Height(r) = -2, r[1].balance = 1,
           NEW m, IsRecord(m), m.key = k, m.data = d, m.left = l, m.right = r,
           NEW t, t = <<RightRight(RightLeft(m))>>
    PROVE  Holds(t, k, d, l, r) /\ Height(t) = Height(r)
  <1> DEFINE x == r[1]
             y == x.left[1]
  <1>1. r # <<>> /\ Height(l) \in Nat /\ Height(r) \in Nat
    BY TreeHeight, NothingHigh
  <1>2. /\ r = <<x>> /\ IsRecord(x) /\ x.key \in Int
        /\ Tree(x.left) /\ Tree(x.right) /\ Ordered(x.key, x.left, x.right)
        /\ Height(x.left) \in Nat /\ Height(x.right) \in Nat
        /\ Height(r) = 1 + Higher(x.left, x.right)
        /\ x.balance = Height(x.left) - Height(x.right)
        /\ Keys(r) = {x.key} \cup Keys(x.left) \cup Keys(x.right)
        /\ Entries(r) = {<<x.key, x.data>>} \cup Entries(x.left) \cup Entries(x.right)
    BY <1>1, TreeParts, Zenon
  <1>3. x.balance = 1
    OBVIOUS
  <1>4. /\ Height(x.left) = Height(x.right) + 1 /\ Height(l) = Height(x.right)
        /\ Height(r) = Height(x.right) + 2 /\ x.left # <<>>
    BY <1>1, <1>2, <1>3, NothingHigh DEF Higher
  <1>5. /\ x.left = <<y>> /\ IsRecord(y) /\ y.key \in Int
        /\ Tree(y.left) /\ Tree(y.right) /\ Ordered(y.key, y.left, y.right)
        /\ Height(y.left) \in Nat /\ Height(y.right) \in Nat
        /\ Height(x.left) = 1 + Higher(y.left, y.right)
        /\ y.balance = Height(y.left) - Height(y.right) /\ y.balance \in -1..1
        /\ Keys(x.left) = {y.key} \cup Keys(y.left) \cup Keys(y.right)
        /\ Entries(x.left) = {<<y.key, y.data>>} \cup Entries(y.left) \cup Entries(y.right)
    BY <1>2, <1>4, TreeParts, Zenon
  <1> HIDE DEF x, y
  <1> DEFINE below == NodeOf(k, d, l, y.left)
             above == NodeOf(x.key, x.data, y.right, x.right)
             low == <<below>>
             high == <<above>>
  <1>6. t = <<NodeOf(y.key, y.data, low, high)>>
    BY <1>2, <1>5, RightTwiceIs, Zenon
  <1>7. /\ Height(x.right) = 1 + Height(y.left) \/ Height(x.right) = Height(y.left)
        /\ Height(x.right) = 1 + Height(y.right) \/ Height(x.right) = Height(y.right)
    BY <1>2, <1>4, <1>5 DEF Higher
  <1>8. /\ k < y.key /\ y.key < x.key
        /\ Ordered(k, l, y.left) /\ Ordered(x.key, y.right, x.right)
        /\ (\A j \in Keys(l) : j < y.key) /\ (\A j \in Keys(x.right) : j > y.key)
    <2>1. /\ k < y.key /\ y.key < x.key
          /\ (\A j \in Keys(l) : j < k) /\ (\A j \in Keys(y.left) : j > k)
          /\ (\A j \in Keys(y.right) : j < x.key) /\ (\A j \in Keys(x.right) : j > x.key)
      BY <1>2, <1>5 DEF Ordered
    <2>2. Keys(l) \subseteq Int /\ Keys(x.right) \subseteq Int
      BY <1>2, KeysAreNumbers
    <2> QED
      BY <1>2, <1>5, <2>1, <2>2 DEF Ordered
  <1>9. /\ Tree(low) /\ Height(low) = 1 + Higher(l, y.left)
        /\ Keys(low) = {k} \cup Keys(l) \cup Keys(y.left)
        /\ Entries(low) = {<<k, d>>} \cup Entries(l) \cup Entries(y.left)
    <2>1. Height(l) - Height(y.left) \in -1..1
      BY <1>2, <1>4, <1>5, <1>7
    <2> QED
      BY <1>5, <1>8, <2>1, NodeTree
  <1>10. /\ Tree(high) /\ Height(high) = 1 + Higher(y.right, x.right)
         /\ Keys(high) = {x.key} \cup Keys(y.right) \cup Keys(x.right)
         /\ Entries(high) = {<<x.key, x.data>>} \cup Entries(y.right) \cup Entries(x.right)
    <2>1. Height(y.right) - Height(x.right) \in -1..1
      BY <1>2, <1>5, <1>7
    <2> QED
      BY <1>2, <1>5, <1>8, <2>1, NodeTree
  <1> HIDE DEF below, above, low, high
  <1>11. Height(low) = Height(x.right) + 1 /\ Height(high) = Height(x.right) + 1
    BY <1>2, <1>4, <1>5, <1>7, <1>9, <1>10 DEF Higher
  <1>12. Ordered(y.key, low, high)
    BY <1>5, <1>8, <1>9, <1>10 DEF Ordered
  <1>13. /\ Tree(t) /\ t # <<>> /\ Height(t) = 1 + Higher(low, high)
         /\ Keys(t) = {y.key} \cup Keys(low) \cup Keys(high)
         /\ Entries(t) = {<<y.key, y.data>>} \cup Entries(low) \cup Entries(high)
    <2>1. Height(low) - Height(high) \in -1..1
      BY <1>2, <1>11
    <2> QED
      BY <1>5, <1>6, <1>9, <1>10, <1>12, <2>1, NodeTree
  <1>14. Height(t) = Height(r)
    BY <1>2, <1>4, <1>11, <1>13 DEF Higher
  <1>15. Keys(t) = {k} \cup Keys(l) \cup Keys(r)
    BY <1>2, <1>5, <1>9, <1>10, <1>13
  <1>16. Entries(t) = {<<k, d>>} \cup Entries(l) \cup Entries(r)
    BY <1>2, <1>5, <1>9, <1>10, <1>13
  <1> QED
    BY <1>13, <1>14, <1>15, <1>16 DEF Holds

-----------------------------------------------------------------------------
(***************************************************************************)
(* What rebalancing makes of a node that leans by two at most.             *)
(***************************************************************************)

LEMMA UpdatedSound == ASSUME NEW n, Tree(<<n>>)  PROVE Updated(n) = n
  <1>1. Sound(n)
    BY TreeNode
  <1>2. IsRecord(n) /\ n.height = 1 + Higher(n.left, n.right) /\
        n.balance = Height(n.left) - Height(n.right)
    BY <1>1, SoundIs
  <1>3. Updated(n) = NodeOf(n.key, n.data, n.left, n.right)
    BY <1>2, UpdatedIs
  <1> QED
    BY <1>2, <1>3, Zenon DEF NodeOf, IsRecord

(* A node that leans by two, to a side that leans itself, is knocked over  *)
(* into a tree of the same keys and data, as high as that side.            *)
LEMMA RebalancedTree ==
    ASSUME NEW k \in Int, NEW d, NEW l, NEW r, Tree(l), Tree(r), Ordered(k, l, r),
           Height(l) - Height(r) \in -2..2,
           Height(l) - Height(r) = 2 => l[1].balance # 0,
           Height(l) - Height(r) = -2 => r[1].balance # 0,
           NEW t, t = <<Updated(Rebalanced(NodeOf(k, d, l, r)))>>
    PROVE  /\ Holds(t, k, d, l, r)
           /\ Height(l) - Height(r) = 2 => Height(t) = Height(l)
           /\ Height(l) - Height(r) = -2 => Height(t) = Height(r)
           /\ Height(l) - Height(r) \in -1..1 =>
                 Height(t) = 1 + Higher(l, r) /\ t[1].balance = Height(l) - Height(r)
  <1> DEFINE m == NodeOf(k, d, l, r)
  <1>1. /\ m.key = k /\ m.data = d /\ m.left = l /\ m.right = r
        /\ m.balance = Height(l) - Height(r) /\ IsRecord(m)
    <2>1. m = NodeOf(k, d, l, r)
      OBVIOUS
    <2> HIDE DEF m
    <2> QED
      BY <2>1, FieldsOfNode
  <1>2. Height(l) \in Nat /\ Height(r) \in Nat
    BY TreeHeight
  <1>3. t = <<Updated(Rebalanced(m))>>
    OBVIOUS
  <1>4. m = NodeOf(k, d, l, r)
    OBVIOUS
  <1> HIDE DEF m
  <1>5. CASE Height(l) - Height(r) \in -1..1
    <2>1. Rebalanced(m) = m
      BY <1>1, <1>2, <1>5 DEF Rebalanced
    <2> DEFINE u == <<m>>
    <2>2. u = <<NodeOf(k, d, l, r)>>
      BY <1>4
    <2> HIDE DEF u
    <2>3. /\ Tree(u) /\ u # <<>> /\ Height(u) = 1 + Higher(l, r) /\
             u[1].balance = Height(l) - Height(r)
          /\ Keys(u) = {k} \cup Keys(l) \cup Keys(r)
          /\ Entries(u) = {<<k, d>>} \cup Entries(l) \cup Entries(r)
      BY <1>5, <2>2, NodeTree
    <2>4. Updated(m) = m
      BY <2>3, UpdatedSound DEF u
    <2>5. t = u
      BY <1>3, <2>1, <2>4, Zenon DEF u
    <2> QED
      BY <1>5, <2>3, <2>5 DEF Holds
  <1>6. CASE Height(l) - Height(r) = 2
    <2>1. l # <<>>
      BY <1>2, <1>6, NothingHigh
    <2>2. l[1].balance \in -1..1 /\ l[1].balance # 0
      BY <1>6, <2>1, TreeParts, Zenon
    <2>3. CASE l[1].balance = 1
      <3> DEFINE q == LeftLeft(m)
                 u == <<q>>
      <3>1. Rebalanced(m) = q
        BY <1>1, <1>6, <2>3 DEF Rebalanced
      <3>2. u = <<LeftLeft(m)>>
        OBVIOUS
      <3> HIDE DEF u, q
      <3>3. Holds(u, k, d, l, r) /\ Height(u) = Height(l)
        BY <1>1, <1>6, <2>3, <3>2, TurnedRight
      <3>4. Updated(q) = q
        BY <3>3, UpdatedSound DEF Holds, u
      <3>5. t = u
        BY <1>3, <3>1, <3>4, Zenon DEF u
      <3> QED
        BY <1>6, <3>3, <3>5
    <2>4. CASE l[1].balance = -1
      <3> DEFINE q == LeftLeft(LeftRight(m))
                 u == <<q>>
      <3>1. Rebalanced(m) = q
        BY <1>1, <1>6, <2>4 DEF Rebalanced
      <3>2. u = <<LeftLeft(LeftRight(m))>>
        OBVIOUS
      <3> HIDE DEF u, q
      <3>3. Holds(u, k, d, l, r) /\ Height(u) = Height(l)
        BY <1>1, <1>6, <2>4, <3>2, TurnedTwiceRight
      <3>4. Updated(q) = q
        BY <3>3, UpdatedSound DEF Holds, u
      <3>5. t = u
        BY <1>3, <3>1, <3>4, Zenon DEF u
      <3> QED
        BY <1>6, <3>3, <3>5
    <2> QED
      BY <2>2, <2>3, <2>4
  <1>7. CASE Height(l) - Height(r) = -2
    <2>1. r # <<>>
      BY <1>2, <1>7, NothingHigh
    <2>2. r[1].balance \in -1..1 /\ r[1].balance # 0
      BY <1>7, <2>1, TreeParts, Zenon
    <2>3. CASE r[1].balance = -1
      <3> DEFINE q == RightRight(m)
                 u == <<q>>
      <3>1. Rebalanced(m) = q
        BY <1>1, <1>7, <2>3 DEF Rebalanced
      <3>2. u = <<RightRight(m)>>
        OBVIOUS
      <3> HIDE DEF u, q
      <3>3. Holds(u, k, d, l, r) /\ Height(u) = Height(r)
        BY <1>1, <1>7, <2>3, <3>2, TurnedLeft
      <3>4. Updated(q) = q
        BY <3>3, UpdatedSound DEF Holds, u
      <3>5. t = u
        BY <1>3, <3>1, <3>4, Zenon DEF u
      <3> QED
        BY <1>7, <3>3, <3>5
    <2>4. CASE r[1].balance = 1
      <3> DEFINE q == RightRight(RightLeft(m))
                 u == <<q>>
      <3>1. Rebalanced(m) = q
        BY <1>1, <1>7, <2>4 DEF Rebalanced
      <3>2. u = <<RightRight(RightLeft(m))>>
        OBVIOUS
      <3> HIDE DEF u, q
      <3>3. Holds(u, k, d, l, r) /\ Height(u) = Height(r)
        BY <1>1, <1>7, <2>4, <3>2, TurnedTwiceLeft
      <3>4. Updated(q) = q
        BY <3>3, UpdatedSound DEF Holds, u
      <3>5. t = u
        BY <1>3, <3>1, <3>4, Zenon DEF u
      <3> QED
        BY <1>7, <3>3, <3>5
    <2> QED
      BY <2>2, <2>3, <2>4
  <1> QED
    BY <1>2, <1>5, <1>6, <1>7

-----------------------------------------------------------------------------
(***************************************************************************)
(* One level of an insertion.                                              *)
(***************************************************************************)

(* u is t with the key bound to the data, no lower and at most one higher; *)
(* a node that has grown leans                                             *)
Inserted(t, key, data, u) ==
    /\ Tree(u) /\ u # <<>>
    /\ Keys(u) = Keys(t) \cup {key}
    /\ Entries(u) = {e \in Entries(t) : e[1] # key} \cup {<<key, data>>}
    /\ Height(u) = Height(t) \/ Height(u) = Height(t) + 1
    /\ t # <<>> /\ Height(u) # Height(t) => u[1].balance # 0

LEMMA EntryKeys == \A t : \A e \in Entries(t) : e[1] \in Keys(t)
  BY DEF Entries, Keys

LEMMA InsertedIntoNothing ==
    ASSUME NEW key \in Int, NEW data  PROVE Inserted(<<>>, key, data, <<MakeNode(key, data)>>)
  <1> DEFINE n == NodeOf(key, data, <<>>, <<>>)
             u == <<n>>
  <1>1. MakeNode(key, data) = n
    BY NothingHigh DEF MakeNode, NodeOf, Higher
  <1>2. u = <<NodeOf(key, data, <<>>, <<>>)>>
    OBVIOUS
  <1>3. Ordered(key, <<>>, <<>>) /\ Keys(<<>>) = {} /\ Entries(<<>>) = {}
    BY NodesOf, EntriesOf DEF Ordered
  <1> HIDE DEF u, n
  <1>4. /\ Tree(u) /\ u # <<>> /\ Height(u) = 1 + Higher(<<>>, <<>>)
        /\ Keys(u) = {key} \cup Keys(<<>>) \cup Keys(<<>>)
        /\ Entries(u) = {<<key, data>>} \cup Entries(<<>>) \cup Entries(<<>>)
    BY <1>2, <1>3, NodeTree, TreeNothing, NothingHigh
  <1>5. Height(u) = Height(<<>>) + 1
    BY <1>4, NothingHigh DEF Higher
  <1> QED
    BY <1>1, <1>3, <1>4, <1>5 DEF Inserted, u

LEMMA WithDataIs ==
    ASSUME NEW n, Sound(n), NEW data
    PROVE  [n EXCEPT !.data = data] = NodeOf(n.key, data, n.left, n.right)
  <1>1. IsRecord(n) /\ n.height = 1 + Higher(n.left, n.right) /\
        n.balance = Height(n.left) - Height(n.right)
    BY SoundIs
  <1> DEFINE h == 1 + Higher(n.left, n.right)
             b == Height(n.left) - Height(n.right)
  <1>2. n.height = h /\ n.balance = b
    BY <1>1
  <1> HIDE DEF h, b
  <1>3. [n EXCEPT !.data = data] =
           [key |-> n.key, data |-> data, height |-> h, balance |-> b, left |-> n.left,
               right |-> n.right]
    BY <1>1, <1>2 DEF IsRecord
  <1> QED
    BY <1>3, Zenon DEF NodeOf, h, b

(* One level of the insertion.                                             *)
LEMMA InsertedHere ==
    ASSUME NEW t, Tree(t), t # <<>>, NEW data,
           NEW u, u = <<Updated(Rebalanced([t[1] EXCEPT !.data = data]))>>
    PROVE  Inserted(t, t[1].key, data, u)
  <1> DEFINE n == t[1]
             k == n.key
             l == n.left
             r == n.right
  <1>1. /\ t = <<n>> /\ IsRecord(n) /\ n.key \in Int
        /\ Tree(n.left) /\ Tree(n.right) /\ Ordered(n.key, n.left, n.right)
        /\ Height(t) \in Nat /\ Height(n.left) \in Nat /\ Height(n.right) \in Nat
        /\ Height(t) = 1 + Higher(n.left, n.right)
        /\ n.balance = Height(n.left) - Height(n.right) /\ n.balance \in -1..1
        /\ Keys(t) = {n.key} \cup Keys(n.left) \cup Keys(n.right)
        /\ Entries(t) = {<<n.key, n.data>>} \cup Entries(n.left) \cup Entries(n.right)
    BY TreeParts, Zenon
  <1>2. Sound(n)
    BY <1>1, TreeNode, Zenon
  <1>3. u = <<Updated(Rebalanced(NodeOf(k, data, l, r)))>>
    BY <1>2, WithDataIs, Zenon
  <1>4. Tree(l) /\ Tree(r) /\ Ordered(k, l, r) /\ k \in Int /\ Height(l) - Height(r) \in -1..1
    BY <1>1
  <1>5. /\ Height(t) = 1 + Higher(l, r) /\ Keys(t) = {k} \cup Keys(l) \cup Keys(r)
        /\ Entries(t) = {<<k, n.data>>} \cup Entries(l) \cup Entries(r)
        /\ Height(l) \in Nat /\ Height(r) \in Nat
    BY <1>1, Zenon
  <1>6. Inserted(t, k, data, u)
    <2> HIDE DEF n, k, l, r
    <2>1. Holds(u, k, data, l, r) /\ Height(u) = 1 + Higher(l, r)
      BY <1>3, <1>4, <1>5, RebalancedTree
    <2>2. \A e \in Entries(l) \cup Entries(r) : e[1] # k
      BY <1>4, EntryKeys DEF Ordered
    <2>3. Entries(u) = {<<k, data>>} \cup Entries(l) \cup Entries(r)
      BY <2>1 DEF Holds
    <2>4. {e \in Entries(t) : e[1] # k} = Entries(l) \cup Entries(r)
      BY <1>5, <2>2
    <2>5. Entries(u) = {e \in Entries(t) : e[1] # k} \cup {<<k, data>>}
      BY <2>3, <2>4
    <2> QED
      BY <1>5, <2>1, <2>5 DEF Inserted, Holds
  <1> QED
    BY <1>6

LEMMA InsertedLeft ==
    ASSUME NEW t, Tree(t), t # <<>>, NEW key \in Int, NEW data, key < t[1].key,
           NEW v, Inserted(t[1].left, key, data, v),
           NEW u, u = <<Updated(Rebalanced(Updated([t[1] EXCEPT !.left = v])))>>
    PROVE  Inserted(t, key, data, u)
  <1> DEFINE n == t[1]
             k == n.key
             l == n.left
             r == n.right
  <1>1. /\ t = <<n>> /\ IsRecord(n) /\ n.key \in Int
        /\ Tree(n.left) /\ Tree(n.right) /\ Ordered(n.key, n.left, n.right)
        /\ Height(t) \in Nat /\ Height(n.left) \in Nat /\ Height(n.right) \in Nat
        /\ Height(t) = 1 + Higher(n.left, n.right)
        /\ n.balance = Height(n.left) - Height(n.right) /\ n.balance \in -1..1
        /\ Keys(t) = {n.key} \cup Keys(n.left) \cup Keys(n.right)
        /\ Entries(t) = {<<n.key, n.data>>} \cup Entries(n.left) \cup Entries(n.right)
    BY TreeParts, Zenon
  <1>2. u = <<Updated(Rebalanced(NodeOf(k, n.data, v, r)))>>
    BY <1>1, UpdatedWithLeft, Zenon
  <1>3. Tree(l) /\ Tree(r) /\ Ordered(k, l, r) /\ k \in Int /\ Height(l) - Height(r) \in -1..1
    BY <1>1
  <1>4. /\ Height(t) = 1 + Higher(l, r) /\ Keys(t) = {k} \cup Keys(l) \cup Keys(r)
        /\ Entries(t) = {<<k, n.data>>} \cup Entries(l) \cup Entries(r)
        /\ Height(l) \in Nat /\ Height(r) \in Nat
    BY <1>1, Zenon
  <1>5. Inserted(l, key, data, v) /\ key < k
    OBVIOUS
  <1>6. Inserted(t, key, data, u)
    <2> DEFINE d == n.data
    <2>0. d = n.data
      OBVIOUS
    <2> HIDE DEF n, k, l, r, d
    <2>1. /\ Tree(v) /\ v # <<>> /\ Keys(v) = Keys(l) \cup {key}
          /\ Entries(v) = {e \in Entries(l) : e[1] # key} \cup {<<key, data>>}
          /\ Height(v) = Height(l) \/ Height(v) = Height(l) + 1
          /\ l # <<>> /\ Height(v) # Height(l) => v[1].balance # 0
      BY <1>5 DEF Inserted
    <2>2. Ordered(k, v, r)
      BY <1>3, <1>5, <2>1 DEF Ordered
    <2>3. Height(v) - Height(r) \in -1..2
      BY <1>3, <1>4, <2>1
    <2>4. Height(v) - Height(r) = 2 => Height(v) = Height(l) + 1 /\ Height(l) = Height(r) + 1 /\
          v[1].balance # 0
      <3> SUFFICES ASSUME Height(v) - Height(r) = 2
                   PROVE Height(v) = Height(l) + 1 /\ Height(l) = Height(r) + 1 /\ v[1].balance # 0
        OBVIOUS
      <3>1. Height(v) = Height(l) + 1 /\ Height(l) = Height(r) + 1
        BY <1>3, <1>4, <2>1
      <3> QED
        BY <1>4, <2>1, <3>1, NothingHigh
    <2>5. /\ Holds(u, k, d, v, r)
          /\ Height(v) - Height(r) = 2 => Height(u) = Height(v)
          /\ Height(v) - Height(r) \in -1..1 =>
                Height(u) = 1 + Higher(v, r) /\ u[1].balance = Height(v) - Height(r)
      BY <1>2, <1>3, <1>4, <2>0, <2>1, <2>2, <2>3, <2>4, RebalancedTree
    <2>6. /\ Height(u) = Height(t) \/ Height(u) = Height(t) + 1
          /\ Height(u) # Height(t) => u[1].balance # 0
      <3>1. CASE Height(v) - Height(r) = 2
        BY <1>4, <2>4, <2>5, <3>1 DEF Higher
      <3>2. CASE Height(v) - Height(r) \in -1..1
        BY <1>3, <1>4, <2>1, <2>5, <3>2 DEF Higher
      <3> QED
        BY <1>4, <2>1, <2>3, <3>1, <3>2
    <2>7. \A e \in {<<k, d>>} \cup Entries(r) : e[1] # key
      <3>1. \A e \in Entries(r) : e[1] \in Keys(r)
        BY EntryKeys
      <3>2. \A j \in Keys(r) : j \in Int /\ j > k
        BY <1>3, KeysAreNumbers DEF Ordered
      <3> QED
        BY <1>3, <1>5, <3>1, <3>2
    <2>8. Entries(u) = {<<k, d>>} \cup Entries(v) \cup Entries(r)
      BY <2>5 DEF Holds
    <2>9. Entries(t) = {<<k, d>>} \cup Entries(l) \cup Entries(r)
      BY <1>4, <2>0
    <2>10. Entries(u) = {e \in Entries(t) : e[1] # key} \cup {<<key, data>>}
      BY <2>1, <2>7, <2>8, <2>9
    <2>11. Keys(u) = Keys(t) \cup {key}
      BY <1>4, <2>1, <2>5 DEF Holds
    <2> QED
      BY <2>5, <2>6, <2>10, <2>11 DEF Inserted, Holds
  <1> QED
    BY <1>6

-----------------------------------------------------------------------------
(***************************************************************************)
(* The insertion keeps a tree a tree and binds the key to the data.        *)
(***************************************************************************)

LEMMA InsertedRight ==
    ASSUME NEW t, Tree(t), t # <<>>, NEW key \in Int, NEW data, key > t[1].key,
           NEW v, Inserted(t[1].right, key, data, v),
           NEW u, u = <<Updated(Rebalanced(Updated([t[1] EXCEPT !.right = v])))>>
    PROVE  Inserted(t, key, data, u)
  <1> DEFINE n == t[1]
             k == n.key
             l == n.left
             r == n.right
  <1>1. /\ t = <<n>> /\ IsRecord(n) /\ n.key \in Int
        /\ Tree(n.left) /\ Tree(n.right) /\ Ordered(n.key, n.left, n.right)
        /\ Height(t) \in Nat /\ Height(n.left) \in Nat /\ Height(n.right) \in Nat
        /\ Height(t) = 1 + Higher(n.left, n.right)
        /\ n.balance = Height(n.left) - Height(n.right) /\ n.balance \in -1..1
        /\ Keys(t) = {n.key} \cup Keys(n.left) \cup Keys(n.right)
        /\ Entries(t) = {<<n.key, n.data>>} \cup Entries(n.left) \cup Entries(n.right)
    BY TreeParts, Zenon
  <1>2. u = <<Updated(Rebalanced(NodeOf(k, n.data, l, v)))>>
    BY <1>1, UpdatedWithRight, Zenon
  <1>3. Tree(l) /\ Tree(r) /\ Ordered(k, l, r) /\ k \in Int /\ Height(l) - Height(r) \in -1..1
    BY <1>1
  <1>4. /\ Height(t) = 1 + Higher(l, r) /\ Keys(t) = {k} \cup Keys(l) \cup Keys(r)
        /\ Entries(t) = {<<k, n.data>>} \cup Entries(l) \cup Entries(r)
        /\ Height(l) \in Nat /\ Height(r) \in Nat
    BY <1>1, Zenon
  <1>5. Inserted(r, key, data, v) /\ key > k
    OBVIOUS
  <1>6. Inserted(t, key, data, u)
    <2> DEFINE d == n.data
    <2>0. d = n.data
      OBVIOUS
    <2> HIDE DEF n, k, l, r, d
    <2>1. /\ Tree(v) /\ v # <<>> /\ Keys(v) = Keys(r) \cup {key}
          /\ Entries(v) = {e \in Entries(r) : e[1] # key} \cup {<<key, data>>}
          /\ Height(v) = Height(r) \/ Height(v) = Height(r) + 1
          /\ r # <<>> /\ Height(v) # Height(r) => v[1].balance # 0
      BY <1>5 DEF Inserted
    <2>2. Ordered(k, l, v)
      BY <1>3, <1>5, <2>1 DEF Ordered
    <2>3. Height(l) - Height(v) \in -2..1
      BY <1>3, <1>4, <2>1
    <2>4. Height(l) - Height(v) = -2 => Height(v) = Height(r) + 1 /\
          Height(r) = Height(l) + 1 /\ v[1].balance # 0
      <3> SUFFICES ASSUME Height(l) - Height(v) = -2
                   PROVE Height(v) = Height(r) + 1 /\ Height(r) = Height(l) + 1 /\ v[1].balance # 0
        OBVIOUS
      <3>1. Height(v) = Height(r) + 1 /\ Height(r) = Height(l) + 1
        BY <1>3, <1>4, <2>1
      <3> QED
        BY <1>4, <2>1, <3>1, NothingHigh
    <2>5. /\ Holds(u, k, d, l, v)
          /\ Height(l) - Height(v) = -2 => Height(u) = Height(v)
          /\ Height(l) - Height(v) \in -1..1 =>
                Height(u) = 1 + Higher(l, v) /\ u[1].balance = Height(l) - Height(v)
      BY <1>2, <1>3, <1>4, <2>0, <2>1, <2>2, <2>3, <2>4, RebalancedTree
    <2>6. /\ Height(u) = Height(t) \/ Height(u) = Height(t) + 1
          /\ Height(u) # Height(t) => u[1].balance # 0
      <3>1. CASE Height(l) - Height(v) = -2
        BY <1>4, <2>4, <2>5, <3>1 DEF Higher
      <3>2. CASE Height(l) - Height(v) \in -1..1
        BY <1>3, <1>4, <2>1, <2>5, <3>2 DEF Higher
      <3> QED
        BY <1>4, <2>1, <2>3, <3>1, <3>2
    <2>7. \A e \in {<<k, d>>} \cup Entries(l) : e[1] # key
      <3>1. \A e \in Entries(l) : e[1] \in Keys(l)
        BY EntryKeys
      <3>2. \A j \in Keys(l) : j \in Int /\ j < k
        BY <1>3, KeysAreNumbers DEF Ordered
      <3> QED
        BY <1>3, <1>5, <3>1, <3>2
    <2>8. Entries(u) = {<<k, d>>} \cup Entries(l) \cup Entries(v)
      BY <2>5 DEF Holds
    <2>9. Entries(t) = {<<k, d>>} \cup Entries(l) \cup Entries(r)
      BY <1>4, <2>0
    <2>10. Entries(u) = {e \in Entries(t) : e[1] # key} \cup {<<key, data>>}
      BY <2>1, <2>7, <2>8, <2>9
    <2>11. Keys(u) = Keys(t) \cup {key}
      BY <1>4, <2>1, <2>5 DEF Holds
    <2> QED
      BY <2>5, <2>6, <2>10, <2>11 DEF Inserted, Holds
  <1> QED
    BY <1>6

LEMMA InsertedInto ==
    ASSUME NEW t, Tree(t), NEW key \in Int, NEW data
    PROVE  Inserted(t, key, data, InsertNode(t, key, data))
  <1> DEFINE u(p) == InsertNode(p, key, data)
             S == {p \in Pointers(t) : Inserted(p, key, data, u(p))}
  <1>1. <<>> \in S
    BY InsertOf, InsertedIntoNothing, NothingIsPointer
  <1>2. ASSUME NEW p \in Pointers(t), p # <<>>, p[1].left \in S, p[1].right \in S  PROVE p \in S
    <2> DEFINE n == p[1]
    <2>1. p = <<p[1]>> /\ Sound(n) /\ Tree(p)
      BY <1>2, TreeOf
    <2>2. n.key \in Int
      BY <2>1 DEF Sound
    <2>3. u(p) = Into(p, key, data, u(n.left), u(n.right))
      BY <1>2, <2>1, InsertOf, Zenon
    <2>4. CASE n.key = key
      <3>1. u(p) = <<Updated(Rebalanced([n EXCEPT !.data = data]))>>
        BY <1>2, <2>3, <2>4, Zenon DEF Into
      <3> QED
        BY <1>2, <2>1, <2>4, <3>1, InsertedHere
    <2>5. CASE n.key > key
      <3>1. n.key # key
        BY <2>2, <2>5
      <3>2. u(p) = <<Updated(Rebalanced(Updated([n EXCEPT !.left = u(n.left)])))>>
        BY <1>2, <2>3, <2>5, <3>1, Zenon DEF Into
      <3>3. Inserted(n.left, key, data, u(n.left)) /\ key < n.key
        BY <1>2, <2>2, <2>5
      <3> HIDE DEF u
      <3> QED
        BY <1>2, <2>1, <3>2, <3>3, InsertedLeft
    <2>6. CASE n.key < key
      <3>1. n.key # key /\ ~ (n.key > key)
        BY <2>2, <2>6
      <3>2. u(p) = <<Updated(Rebalanced(Updated([n EXCEPT !.right = u(n.right)])))>>
        BY <1>2, <2>3, <3>1, Zenon DEF Into
      <3>3. Inserted(n.right, key, data, u(n.right)) /\ key > n.key
        BY <1>2, <2>2, <2>6
      <3> HIDE DEF u
      <3> QED
        BY <1>2, <2>1, <3>2, <3>3, InsertedRight
    <2> QED
      BY <2>2, <2>4, <2>5, <2>6
  <1>3. t \in S
    <2> HIDE DEF S
    <2> QED
      BY <1>1, <1>2, AllPointers, TopIsPointer
  <1> QED
    BY <1>3

-----------------------------------------------------------------------------
(***************************************************************************)
(* The search for a key, as an equation and as what it finds.              *)
(***************************************************************************)

(* The nodes of a tree with a key, none or one.                            *)
WithKey(t, key) == {n \in Nodes(t) : n.key = key}

(* the pointer to the only one there is *)
To(S) == IF S = {} THEN <<>> ELSE <<CHOOSE n \in S : TRUE>>

LEMMA ToOne == To({}) = <<>> /\ \A n : To({n}) = <<n>>
  BY DEF To

(* What the nodes of a tree are, by its top.                               *)
LEMMA NodesByTop ==
    ASSUME NEW t, Tree(t), t # <<>>
    PROVE  LET n == t[1]
           IN  /\ t = <<n>> /\ n.key \in Int /\
                  Nodes(t) = {n} \cup Nodes(n.left) \cup Nodes(n.right)
               /\ \A m \in Nodes(n.left) : m.key \in Int /\ m.key < n.key
               /\ \A m \in Nodes(n.right) : m.key \in Int /\ m.key > n.key
  <1> DEFINE n == t[1]
  <1>1. /\ t = <<n>> /\ n.key \in Int
        /\ Tree(n.left) /\ Tree(n.right) /\ Ordered(n.key, n.left, n.right)
    BY TreeParts, Zenon
  <1> HIDE DEF n
  <1>2. Nodes(t) = {n} \cup Nodes(n.left) \cup Nodes(n.right)
    BY <1>1, NodesOf, Zenon
  <1>3. \A m \in Nodes(n.left) : m.key \in Int /\ m.key < n.key
    BY <1>1, KeysAreNumbers DEF Ordered, Keys
  <1>4. \A m \in Nodes(n.right) : m.key \in Int /\ m.key > n.key
    BY <1>1, KeysAreNumbers DEF Ordered, Keys
  <1> QED
    BY <1>1, <1>2, <1>3, <1>4, Zenon DEF n

LEMMA NothingHasNodes == Nodes(<<>>) = {} /\ Keys(<<>>) = {} /\ Entries(<<>>) = {}
  BY NodesOf, EntriesOf

LEMMA WithKeyByTop ==
    ASSUME NEW t, Tree(t), t # <<>>, NEW key \in Int
    PROVE  LET n == t[1]
           IN  /\ n.key = key => WithKey(t, key) = {n}
               /\ n.key > key => WithKey(t, key) = WithKey(n.left, key) /\
                   WithKey(n.right, key) = {}
               /\ n.key < key => WithKey(t, key) = WithKey(n.right, key) /\
                   WithKey(n.left, key) = {}
  <1> DEFINE n == t[1]
  <1>1. /\ t = <<n>> /\ n.key \in Int /\ Nodes(t) = {n} \cup Nodes(n.left) \cup Nodes(n.right)
        /\ \A m \in Nodes(n.left) : m.key \in Int /\ m.key < n.key
        /\ \A m \in Nodes(n.right) : m.key \in Int /\ m.key > n.key
    BY NodesByTop, Zenon
  <1> HIDE DEF n
  <1> DEFINE L == Nodes(n.left)
             R == Nodes(n.right)
             k == n.key
  <1>2. Nodes(t) = {n} \cup L \cup R /\ k \in Int /\ k = n.key
        /\ (\A m \in L : m.key \in Int /\ m.key < k) /\ (\A m \in R : m.key \in Int /\ m.key > k)
    BY <1>1
  <1>3. /\ WithKey(n.left, key) = {m \in L : m.key = key}
        /\ WithKey(n.right, key) = {m \in R : m.key = key}
        /\ WithKey(t, key) = {m \in {n} \cup L \cup R : m.key = key}
    BY <1>2, Zenon DEF WithKey
  <1> HIDE DEF L, R, k
  <1>4. k = key => {m \in {n} \cup L \cup R : m.key = key} = {n}
    <2> SUFFICES ASSUME k = key  PROVE \A m \in {n} \cup L \cup R : m.key = key <=> m = n
      OBVIOUS
    <2> QED
      BY <1>2
  <1>5. k > key => {m \in {n} \cup L \cup R : m.key = key} = {m \in L : m.key = key} /\
        {m \in R : m.key = key} = {}
    BY <1>2
  <1>6. k < key => {m \in {n} \cup L \cup R : m.key = key} = {m \in R : m.key = key} /\
        {m \in L : m.key = key} = {}
    BY <1>2
  <1> QED
    BY <1>2, <1>3, <1>4, <1>5, <1>6, Zenon DEF n

(* what find_node makes of a node, given what it makes of its children *)
Found(n, key, p, l, r) ==
    IF n.key = key THEN p
    ELSE IF n.key > key /\ n.left # <<>> THEN l
    ELSE IF n.right # <<>> THEN r
    ELSE <<>>

FindsIn(X, key, f) == f = [p \in X |-> Found(p[1], key, p, f[p[1].left], f[p[1].right])]

LEMMA FindNodeIs ==
    \A t, key : FindNode(t, key) = (CHOOSE f : FindsIn(Pointers(t) \ {<<>>}, key, f))[t]
  BY Zenon DEF FindNode, FindsIn, Found

LEMMA FoundIs ==
    ASSUME NEW t, Tree(t), NEW p \in Pointers(t) \ {<<>>}, NEW key \in Int,
           NEW f, \A q \in {p[1].left, p[1].right} \ {<<>>} : f[q] = To(WithKey(q, key))
    PROVE  Found(p[1], key, p, f[p[1].left], f[p[1].right]) = To(WithKey(p, key))
  <1> DEFINE n == p[1]
  <1>1. p = <<n>> /\ Tree(p) /\ p # <<>> /\ Tree(n.left) /\ Tree(n.right) /\ n.key \in Int
    BY TreeOf DEF Sound
  <1>2. /\ n.key = key => WithKey(p, key) = {n}
        /\ n.key > key => WithKey(p, key) = WithKey(n.left, key) /\ WithKey(n.right, key) = {}
        /\ n.key < key => WithKey(p, key) = WithKey(n.right, key) /\ WithKey(n.left, key) = {}
    BY <1>1, WithKeyByTop, Zenon
  <1>3. n.left # <<>> => f[n.left] = To(WithKey(n.left, key))
    OBVIOUS
  <1>4. n.right # <<>> => f[n.right] = To(WithKey(n.right, key))
    OBVIOUS
  <1>5. WithKey(<<>>, key) = {}
    BY NothingHasNodes DEF WithKey
  <1> HIDE DEF n
  <1>6. CASE n.key = key
    BY <1>1, <1>2, <1>6, ToOne DEF Found
  <1>7. CASE n.key > key /\ n.left # <<>>
    BY <1>1, <1>2, <1>3, <1>7 DEF Found
  <1>8. CASE n.key > key /\ n.left = <<>>
    BY <1>1, <1>2, <1>4, <1>5, <1>8, ToOne DEF Found
  <1>9. CASE n.key < key
    BY <1>1, <1>2, <1>4, <1>5, <1>9, ToOne DEF Found
  <1>10. Found(n, key, p, f[n.left], f[n.right]) = To(WithKey(p, key))
    BY <1>1, <1>6, <1>7, <1>8, <1>9
  <1> QED
    BY <1>10 DEF n

LEMMA FoundAt ==
    ASSUME NEW t, Tree(t), t # <<>>, NEW key \in Int
    PROVE  FindNode(t, key) = To(WithKey(t, key))
  <1> DEFINE X == Pointers(t) \ {<<>>}
             g == [p \in X |-> To(WithKey(p, key))]
             f == CHOOSE h : FindsIn(X, key, h)
             body == [p \in X |-> Found(p[1], key, p, g[p[1].left], g[p[1].right])]
  <1>1. \A p \in X : {p[1].left, p[1].right} \ {<<>>} \subseteq X
    BY ChildrenArePointers
  <1>2. \A p \in X : Found(p[1], key, p, g[p[1].left], g[p[1].right]) = To(WithKey(p, key))
    <2> SUFFICES ASSUME NEW p \in X
                 PROVE  Found(p[1], key, p, g[p[1].left], g[p[1].right]) = To(WithKey(p, key))
      OBVIOUS
    <2>1. \A q \in {p[1].left, p[1].right} \ {<<>>} : g[q] = To(WithKey(q, key))
      BY <1>1
    <2> HIDE DEF g
    <2> QED
      BY <2>1, FoundIs
  <1>3. g = body
    <2> DEFINE a(p) == To(WithKey(p, key))
               b(p) == Found(p[1], key, p, g[p[1].left], g[p[1].right])
    <2>1. \A p \in X : a(p) = b(p)
      BY <1>2
    <2>2. g = [p \in X |-> a(p)] /\ body = [p \in X |-> b(p)]
      OBVIOUS
    <2> HIDE DEF a, b, g, body, X
    <2> QED
      BY <2>1, <2>2
  <1>4. FindsIn(X, key, g)
    BY <1>3, Zenon DEF FindsIn
  <1>5. FindsIn(X, key, f)
    BY <1>4, Zenon
  <1> HIDE DEF f, g, body
  <1>6. \A p \in X : f[p] = Found(p[1], key, p, f[p[1].left], f[p[1].right])
    BY <1>5, Zenon DEF FindsIn
  <1> DEFINE S == {p \in Pointers(t) : p = <<>> \/ f[p] = To(WithKey(p, key))}
  <1>7. <<>> \in S
    BY NothingIsPointer
  <1>8. ASSUME NEW p \in Pointers(t) \ {<<>>}, p[1].left \in S, p[1].right \in S  PROVE p \in S
    <2>1. \A q \in {p[1].left, p[1].right} \ {<<>>} : f[q] = To(WithKey(q, key))
      BY <1>8
    <2>2. Found(p[1], key, p, f[p[1].left], f[p[1].right]) = To(WithKey(p, key))
      BY <1>8, <2>1, FoundIs
    <2> QED
      BY <1>6, <1>8, <2>2
  <1>9. t \in S
    <2> HIDE DEF S
    <2> QED
      BY <1>7, <1>8, AllPointers, TopIsPointer
  <1>10. FindNode(t, key) = f[t]
    BY FindNodeIs, Zenon DEF f
  <1> QED
    BY <1>9, <1>10

LEMMA AvlFindIs ==
    ASSUME NEW t, Tree(t), NEW key \in Int  PROVE AvlFind(t, key) = To(WithKey(t, key))
  <1>1. CASE t = <<>>
    <2>1. WithKey(<<>>, key) = {}
      BY NothingHasNodes DEF WithKey
    <2> QED
      BY <1>1, <2>1, ToOne DEF AvlFind
  <1>2. CASE t # <<>>
    BY <1>2, FoundAt DEF AvlFind
  <1> QED
    BY <1>1, <1>2

-----------------------------------------------------------------------------
(***************************************************************************)
(* The content of a tree: one node to a key, found by the search; an       *)
(* insertion is an update of it.                                           *)
(***************************************************************************)

LEMMA OnlyOneWithKey ==
    ASSUME NEW t, Tree(t), NEW key \in Int  PROVE \A m, n \in WithKey(t, key) : m = n
  <1> DEFINE S == {p \in Pointers(t) : \A m, n \in WithKey(p, key) : m = n}
  <1>1. <<>> \in S
    BY NothingIsPointer, NothingHasNodes DEF WithKey
  <1>2. ASSUME NEW p \in Pointers(t) \ {<<>>}, p[1].left \in S, p[1].right \in S  PROVE p \in S
    <2> DEFINE n == p[1]
    <2>1. Tree(p) /\ p # <<>> /\ n.key \in Int
      BY <1>2, TreeOf DEF Sound
    <2>2. /\ n.key = key => WithKey(p, key) = {n}
          /\ n.key > key => WithKey(p, key) = WithKey(n.left, key)
          /\ n.key < key => WithKey(p, key) = WithKey(n.right, key)
      BY <2>1, WithKeyByTop, Zenon
    <2>3. n.key = key \/ n.key > key \/ n.key < key
      BY <2>1
    <2> QED
      BY <1>2, <2>2, <2>3
  <1>3. t \in S
    <2> HIDE DEF S
    <2> QED
      BY <1>1, <1>2, AllPointers, TopIsPointer
  <1> QED
    BY <1>3

LEMMA WithKeyIs ==
    ASSUME NEW t, Tree(t), NEW n \in Nodes(t)  PROVE n.key \in Int /\ WithKey(t, n.key) = {n}
  <1>1. n.key \in Int
    BY KeysAreNumbers DEF Keys
  <1>2. n \in WithKey(t, n.key)
    BY DEF WithKey
  <1> QED
    BY <1>1, <1>2, OnlyOneWithKey

LEMMA ContentAt ==
    ASSUME NEW t, Tree(t), NEW n \in Nodes(t)
    PROVE  n.key \in DOMAIN Content(t) /\ Content(t)[n.key] = n.data
  <1> DEFINE key == n.key
             m == CHOOSE x \in Nodes(t) : x.key = key
  <1>1. m \in Nodes(t) /\ m.key = key
    OBVIOUS
  <1>2. m = n
    BY <1>1, WithKeyIs DEF WithKey
  <1>3. key \in Keys(t)
    BY DEF Keys
  <1>4. Content(t)[key] = m.data /\ key \in DOMAIN Content(t)
    BY <1>3, Zenon DEF Content
  <1> QED
    BY <1>2, <1>4

LEMMA ContentDomain == \A t : DOMAIN Content(t) = Keys(t)
  BY DEF Content

(* What the trees say of their content.                                    *)
LEMMA AvlFindSays ==
    ASSUME NEW t, Tree(t), NEW key \in Int
    PROVE  /\ AvlFind(t, key) = <<>> <=> key \notin DOMAIN Content(t)
           /\ AvlFind(t, key) # <<>> =>
                 /\ AvlFind(t, key)[1] \in Nodes(t) /\ AvlFind(t, key)[1].key = key
                 /\ AvlFind(t, key)[1].data = Content(t)[key]
  <1>1. AvlFind(t, key) = To(WithKey(t, key))
    BY AvlFindIs
  <1>2. CASE key \in Keys(t)
    <2>1. PICK n \in Nodes(t) : n.key = key
      BY <1>2 DEF Keys
    <2>2. AvlFind(t, key) = <<n>>
      BY <1>1, <2>1, WithKeyIs, ToOne
    <2>3. AvlFind(t, key) # <<>> /\ AvlFind(t, key)[1] = n
      BY <2>2
    <2> QED
      BY <1>2, <2>1, <2>3, ContentAt, ContentDomain
  <1>3. CASE key \notin Keys(t)
    <2>1. WithKey(t, key) = {}
      BY <1>3 DEF WithKey, Keys
    <2> QED
      BY <1>1, <1>3, <2>1, ToOne, ContentDomain
  <1> QED
    BY <1>2, <1>3

LEMMA EntryIsContent ==
    ASSUME NEW t, Tree(t), NEW e \in Entries(t)
    PROVE  e[1] \in DOMAIN Content(t) /\ Content(t)[e[1]] = e[2]
  <1>1. PICK n \in Nodes(t) : e = <<n.key, n.data>>
    BY DEF Entries
  <1>2. e[1] = n.key /\ e[2] = n.data
    BY <1>1
  <1> QED
    BY <1>2, ContentAt, Zenon

LEMMA ContentIsEntry ==
    ASSUME NEW t, Tree(t), NEW key \in DOMAIN Content(t)
    PROVE  <<key, Content(t)[key]>> \in Entries(t)
  <1>1. PICK n \in Nodes(t) : n.key = key
    <2>1. key \in Keys(t)
      BY ContentDomain, Zenon
    <2> QED
      BY <2>1 DEF Keys
  <1>2. Content(t)[key] = n.data
    BY <1>1, ContentAt, Zenon
  <1>3. <<n.key, n.data>> \in Entries(t)
    BY DEF Entries
  <1> QED
    BY <1>1, <1>2, <1>3, Zenon

LEMMA NothingHasContent == Content(<<>>) = <<>>
  BY NothingHasNodes DEF Content

LEMMA InsertedContent ==
    ASSUME NEW t, NEW key \in Int, NEW data, Tree(t), NEW u, Inserted(t, key, data, u)
    PROVE  Content(u) = Map!With(Content(t), key, data)
  <1> DEFINE f == Content(t)
             g == Content(u)
             w(a) == IF a = key THEN data ELSE f[a]
  <1>1. /\ Tree(u) /\ Keys(u) = Keys(t) \cup {key}
        /\ Entries(u) = {e \in Entries(t) : e[1] # key} \cup {<<key, data>>}
    BY DEF Inserted
  <1>2. DOMAIN g = DOMAIN f \cup {key} /\ g = [a \in DOMAIN g |-> g[a]]
    <2>1. DOMAIN g = DOMAIN f \cup {key}
      BY <1>1, ContentDomain
    <2>2. g = [a \in DOMAIN g |-> g[a]]
      BY DEF Content
    <2> QED
      BY <2>1, <2>2
  <1>3. ASSUME NEW a \in DOMAIN g  PROVE g[a] = w(a)
    <2>1. CASE a = key
      <3>1. <<key, data>> \in Entries(u) /\ <<key, data>>[1] = key /\ <<key, data>>[2] = data
        BY <1>1
      <3>2. Content(u)[<<key, data>>[1]] = <<key, data>>[2]
        BY <1>1, <3>1, EntryIsContent
      <3> QED
        BY <2>1, <3>1, <3>2
    <2>2. CASE a # key
      <3> DEFINE e == <<a, f[a]>>
      <3>1. e \in Entries(t)
        BY <1>2, <1>3, <2>2, ContentIsEntry
      <3>2. e[1] = a /\ e[2] = f[a]
        OBVIOUS
      <3> HIDE DEF e
      <3>3. e \in Entries(u)
        BY <1>1, <2>2, <3>1, <3>2
      <3>4. Content(u)[e[1]] = e[2]
        BY <1>1, <3>3, EntryIsContent
      <3> QED
        BY <2>2, <3>2, <3>4
    <2> QED
      BY <2>1, <2>2
  <1> HIDE DEF f, g, w
  <1>4. g = [a \in DOMAIN f \cup {key} |-> w(a)]
    BY <1>2, <1>3
  <1> QED
    BY <1>4, Zenon DEF Map!With, f, g, w

-----------------------------------------------------------------------------
(***************************************************************************)
(* TableInv is inductive: the trees of the table stay trees.               *)
(***************************************************************************)

(* Every tree of the table is one, and so is what the tree of the sections *)
(* holds; the current section is among those that have one.                *)
TableInv ==
    /\ client \in Clients
    /\ Tree(gtab) /\ Tree(avl_lmap)
    /\ \A e \in Entries(avl_lmap) : Tree(e[2])
    /\ curtab = {} \/ \E s \in DOMAIN Content(avl_lmap) : curtab = {s}

LEMMA TreeIsAvl == \A t : Tree(t) => IsAvl(t)
  <1> SUFFICES ASSUME NEW t, Tree(t), NEW n \in Nodes(t)
               PROVE  /\ n.balance = Height(n.left) - Height(n.right)
                      /\ n.height = 1 + (IF n.balance > 0 THEN Height(n.left) ELSE Height(n.right))
                      /\ n.balance \in -1..1
                      /\ \A key \in Keys(n.left) : key < n.key
                      /\ \A key \in Keys(n.right) : key > n.key
    BY Zenon DEF IsAvl
  <1>1. PICK p \in Pointers(t) \ {<<>>} : n = p[1]
    BY DEF Nodes
  <1>2. Sound(n)
    BY <1>1, TreeOf
  <1>3. /\ Height(n.left) \in Nat /\ Height(n.right) \in Nat
        /\ n.height = 1 + Higher(n.left, n.right)
        /\ n.balance = Height(n.left) - Height(n.right) /\ n.balance \in -1..1
        /\ Ordered(n.key, n.left, n.right)
    BY <1>2, SoundIs
  <1> QED
    BY <1>3 DEF Higher, Ordered

LEMMA LocalMapIs ==
    ASSUME Tree(avl_lmap), NEW section \in Int
    PROVE  LocalMap(section) = IF section \in DOMAIN Content(avl_lmap) THEN Content(avl_lmap)[section] ELSE <<>>
  BY AvlFindSays DEF LocalMap

LEMMA LocalMapTree == ASSUME TableInv, NEW section \in Int  PROVE Tree(LocalMap(section))
  <1>1. CASE section \in DOMAIN Content(avl_lmap)
    <2> DEFINE e == <<section, Content(avl_lmap)[section]>>
    <2>1. e \in Entries(avl_lmap) /\ e[2] = LocalMap(section)
      BY <1>1, ContentIsEntry, LocalMapIs DEF TableInv
    <2> HIDE DEF e
    <2> QED
      BY <2>1 DEF TableInv
  <1>2. CASE section \notin DOMAIN Content(avl_lmap)
    BY <1>2, LocalMapIs, TreeNothing DEF TableInv
  <1> QED
    BY <1>1, <1>2

LEMMA TableInvImpliesAvlShape == TableInv => AvlShape
  <1> SUFFICES ASSUME TableInv  PROVE AvlShape
    OBVIOUS
  <1>1. \A s \in DOMAIN Content(avl_lmap) : s \in Int
    BY ContentDomain, KeysAreNumbers DEF TableInv
  <1> QED
    BY <1>1, TreeIsAvl, LocalMapTree DEF AvlShape, TableInv

LEMMA AdditionsAre ==
    ASSUME client \in Clients, NEW add \in client.additions
    PROVE  /\ add.section \in Sections \cup {Global} /\ add.addr \in Addresses /\ add.name \in Names
           /\ add.section \in Int /\ add.addr \in Int
  <1>1. add \in Symbols
    BY TableAssumption
  <1>2. add.section \in Sections \cup {Global} /\ add.addr \in Addresses /\ add.name \in Names
    BY <1>1 DEF Symbols
  <1>3. Sections \subseteq Int /\ Addresses \subseteq Int /\ Global \in Int
    BY TableAssumption DEF Global
  <1> QED
    BY <1>2, <1>3

(* What the two additions and the choice of a section do to the table.     *)
LEMMA AddGlobalSymbolKeeps ==
    ASSUME TableInv, NEW add \in client.additions, AddGlobalSymbol(add)
    PROVE  TableInv' /\ Content(gtab)' = Map!With(Content(gtab), add.addr, add.name)
  <1>1. client \in Clients /\ add.addr \in Int
    BY AdditionsAre DEF TableInv
  <1>2. gtab' = InsertNode(gtab, add.addr, add.name) /\ UNCHANGED <<client, avl_lmap, curtab>>
    BY DEF AddGlobalSymbol
  <1>3. Inserted(gtab, add.addr, add.name, gtab')
    BY <1>1, <1>2, InsertedInto DEF TableInv
  <1>4. Tree(gtab')
    BY <1>3 DEF Inserted
  <1>5. Content(gtab') = Map!With(Content(gtab), add.addr, add.name)
    BY <1>1, <1>3, InsertedContent DEF TableInv
  <1> QED
    BY <1>1, <1>2, <1>4, <1>5 DEF TableInv

LEMMA AddLocalSymbolKeeps ==
    ASSUME TableInv, NEW add \in client.additions, AddLocalSymbol(add)
    PROVE  /\ TableInv'
           /\ Content(avl_lmap)' =
                 Map!With(Content(avl_lmap), add.section, InsertNode(LocalMap(add.section),
                     add.addr, add.name))
           /\ Content(InsertNode(LocalMap(add.section), add.addr, add.name)) =
                 Map!With(Content(LocalMap(add.section)), add.addr, add.name)
  <1> DEFINE s == add.section
             d == InsertNode(LocalMap(s), add.addr, add.name)
  <1>1. client \in Clients /\ add.addr \in Int /\ s \in Int
    BY AdditionsAre DEF TableInv
  <1>2. avl_lmap' = InsertNode(avl_lmap, s, d) /\ UNCHANGED <<client, gtab, curtab>>
    BY DEF AddLocalSymbol
  <1>3. Tree(LocalMap(s)) /\ Inserted(LocalMap(s), add.addr, add.name, d)
    BY <1>1, LocalMapTree, InsertedInto
  <1>4. Tree(d) /\ Content(d) = Map!With(Content(LocalMap(s)), add.addr, add.name)
    BY <1>1, <1>3, InsertedContent DEF Inserted
  <1> HIDE DEF s, d
  <1>5. Inserted(avl_lmap, s, d, avl_lmap')
    BY <1>1, <1>2, InsertedInto DEF TableInv
  <1>6. /\ Tree(avl_lmap')
        /\ Entries(avl_lmap') = {e \in Entries(avl_lmap) : e[1] # s} \cup {<<s, d>>}
        /\ Keys(avl_lmap') = Keys(avl_lmap) \cup {s}
    BY <1>5 DEF Inserted
  <1>7. \A e \in Entries(avl_lmap') : Tree(e[2])
    <2>1. <<s, d>>[2] = d
      OBVIOUS
    <2> QED
      BY <1>4, <1>6, <2>1 DEF TableInv
  <1>8. Content(avl_lmap') = Map!With(Content(avl_lmap), s, d)
    BY <1>1, <1>5, InsertedContent DEF TableInv
  <1>9. DOMAIN Content(avl_lmap) \subseteq DOMAIN Content(avl_lmap')
    BY <1>6, ContentDomain
  <1>10. TableInv'
    BY <1>1, <1>2, <1>6, <1>7, <1>9 DEF TableInv
  <1> QED
    BY <1>4, <1>8, <1>10 DEF s, d

LEMMA SetCurrentTableKeeps ==
    ASSUME TableInv, NEW s \in client.sections, SetCurrentTable(s)
    PROVE  TableInv' /\ curtab' = {s} \cap DOMAIN Content(avl_lmap) /\ s \in Sections
  <1>1. s \in Sections /\ s \in Int
    BY TableAssumption DEF TableInv
  <1>2. curtab' = {s} \cap DOMAIN Content(avl_lmap)
    <2>1. curtab' = IF AvlFind(avl_lmap, s) = <<>> THEN {} ELSE {s}
      BY DEF SetCurrentTable
    <2>2. AvlFind(avl_lmap, s) = <<>> <=> s \notin DOMAIN Content(avl_lmap)
      BY <1>1, AvlFindSays DEF TableInv
    <2> QED
      BY <2>1, <2>2
  <1>3. UNCHANGED <<client, gtab, avl_lmap>>
    BY DEF SetCurrentTable
  <1>4. curtab' = {} \/ \E c \in DOMAIN Content(avl_lmap) : curtab' = {c}
    BY <1>2
  <1> QED
    BY <1>1, <1>2, <1>3, <1>4 DEF TableInv

LEMMA TableInvStep == TableInv /\ [NextSweep]_<<tablevars, symbols, sweepvars>> => TableInv'
  <1> SUFFICES ASSUME TableInv, [NextSweep]_<<tablevars, symbols, sweepvars>>  PROVE TableInv'
    OBVIOUS
  <1>1. CASE UNCHANGED tablevars
    BY <1>1 DEF TableInv, tablevars
  <1>2. CASE TableNext
    <2>1. ASSUME NEW add \in client.additions, AddGlobalSymbol(add)  PROVE TableInv'
      BY <2>1, AddGlobalSymbolKeeps
    <2>2. ASSUME NEW add \in client.additions, AddLocalSymbol(add)  PROVE TableInv'
      BY <2>2, AddLocalSymbolKeeps
    <2>3. ASSUME NEW s \in client.sections, SetCurrentTable(s)  PROVE TableInv'
      BY <2>3, SetCurrentTableKeeps
    <2>4. ASSUME NEW a, LookUp(a) \/ DisassemblyCallback(a)  PROVE TableInv'
      BY <2>4 DEF LookUp, DisassemblyCallback, TableInv
    <2> QED
      BY <1>2, <2>1, <2>2, <2>3, <2>4 DEF TableNext
  <1> QED
    BY <1>1, <1>2 DEF NextSweep, tablevars

LEMMA TableInvInit == InitSweep => TableInv
  <1> SUFFICES ASSUME InitSweep  PROVE TableInv
    OBVIOUS
  <1>1. client \in Clients /\ gtab = <<>> /\ avl_lmap = <<>> /\ curtab = {}
    BY DEF InitSweep, TableInit
  <1>2. Entries(avl_lmap) = {}
    BY <1>1, NothingHasNodes
  <1> QED
    BY <1>1, <1>2, TreeNothing DEF TableInv

(* The trees of the symbol table stay trees, whatever a client adds.       *)
THEOREM TableInvariant == SpecSweep => []TableInv
  BY TableInvInit, TableInvStep, PTL DEF SpecSweep

(* Trees of any size, filled in any order, stay AVL trees, so what insert  *)
(* asserts of the balance of a node holds.                                 *)
THEOREM TreesAreAvl == SpecSweep => []AvlShape
  BY TableInvariant, TableInvImpliesAvlShape, PTL

-----------------------------------------------------------------------------
(***************************************************************************)
(* One turn of the search for a lower bound.                               *)
(***************************************************************************)

(* The nodes below the key and above the best so far; the last of some.    *)
Beyond(t, key, lb) == {n \in Nodes(t) : Better(n, key, lb)}
Last(S) == {n \in S : \A m \in S : m.key <= n.key}

(* what the search for a lower bound comes to *)
Best(t, key, lb) ==
    IF WithKey(t, key) # {} THEN To(WithKey(t, key))
    ELSE IF Beyond(t, key, lb) # {} THEN To(Last(Beyond(t, key, lb)))
    ELSE lb

(* what lower_bound makes of a node, given what it makes of its children *)
Pick(n, key, p, lb) == IF Better(n, key, lb) THEN p ELSE lb
Bounded(n, key, p, lb, l, r) ==
    IF n.key = key THEN p
    ELSE IF n.key > key /\ n.left # <<>> THEN l
    ELSE IF n.right # <<>> THEN r
    ELSE Pick(n, key, p, lb)

BoundsIn(X, Y, key, f) ==
    f = [p \in X |-> [lb \in Y |->
            Bounded(p[1], key, p, lb, f[p[1].left][lb], f[p[1].right][Pick(p[1], key, p, lb)])]]

LEMMA LowerBoundIs ==
    \A t, key : LowerBound(t, key) =
                   (CHOOSE f : BoundsIn(Pointers(t) \ {<<>>}, Pointers(t), key, f))[t][<<>>]
  BY Zenon DEF LowerBound, BoundsIn, Bounded, Pick

(* the key of the best so far, wherever it is in the tree *)
Bound(lb) == lb = <<>> \/ lb[1].key \in Int

LEMMA BestByTop ==
    ASSUME NEW p, Tree(p), p # <<>>, NEW key \in Int, NEW lb, Bound(lb)
    PROVE  Best(p, key, lb) =
              Bounded(p[1], key, p, lb, Best(p[1].left, key, lb),
                      Best(p[1].right, key, Pick(p[1], key, p, lb)))
  <1> DEFINE n == p[1]
             k == n.key
             L == Nodes(n.left)
             R == Nodes(n.right)
             best == Pick(n, key, p, lb)
             Is(m, b) == m.key < key /\ (b = <<>> \/ b[1].key < m.key)
  <1>1. /\ p = <<n>> /\ n.key \in Int /\ Nodes(p) = {n} \cup L \cup R
        /\ \A m \in L : m.key \in Int /\ m.key < n.key
        /\ \A m \in R : m.key \in Int /\ m.key > n.key
    BY NodesByTop, Zenon
  <1>2. /\ n.key = key => WithKey(p, key) = {n}
        /\ n.key > key => WithKey(p, key) = WithKey(n.left, key) /\ WithKey(n.right, key) = {}
        /\ n.key < key => WithKey(p, key) = WithKey(n.right, key) /\ WithKey(n.left, key) = {}
    BY WithKeyByTop, Zenon
  <1>3. WithKey(<<>>, key) = {} /\ Nodes(<<>>) = {} /\ \A b : Beyond(<<>>, key, b) = {}
    BY NothingHasNodes DEF WithKey, Beyond
  <1>4. \A t, b : Beyond(t, key, b) = {m \in Nodes(t) : Is(m, b)}
    BY Zenon DEF Beyond, Better
  <1>5. best = IF Is(n, lb) THEN p ELSE lb
    BY Zenon DEF Pick, Better
  <1>6. p[1].key = k
    OBVIOUS
  <1> HIDE DEF n, best
  <1>7. CASE k = key
    BY <1>1, <1>2, <1>7, ToOne DEF Best, Bounded
  <1>8. CASE k > key
    <2>1. best = lb
      BY <1>1, <1>5, <1>8
    <2>2. Beyond(p, key, lb) = Beyond(n.left, key, lb)
      <3>1. Beyond(p, key, lb) = {m \in {n} \cup L \cup R : Is(m, lb)} /\
            Beyond(n.left, key, lb) = {m \in L : Is(m, lb)}
        BY <1>1, <1>4, Zenon
      <3>2. \A m \in {n} \cup R : ~ Is(m, lb)
        BY <1>1, <1>8
      <3> HIDE DEF L, R, Is
      <3> QED
        BY <3>1, <3>2
    <2>3. Beyond(n.right, key, lb) = {}
      BY <1>1, <1>4, <1>8
    <2>4. Best(p, key, lb) = Best(n.left, key, lb)
      BY <1>2, <1>8, <2>2, Zenon DEF Best
    <2>5. Best(n.right, key, lb) = lb
      BY <1>2, <1>8, <2>3, Zenon DEF Best
    <2>6. Best(<<>>, key, lb) = lb
      BY <1>3, Zenon DEF Best
    <2>7. k # key
      BY <1>1, <1>8
    <2>8. Bounded(n, key, p, lb, Best(n.left, key, lb), Best(n.right, key, best)) = Best(p, key, lb)
      BY <1>8, <2>1, <2>4, <2>5, <2>6, <2>7, Zenon DEF Bounded, best
    <2> QED
      BY <2>8, Zenon DEF best, n
  <1>9. CASE k < key
    <2>1. k # key /\ ~ (k > key)
      BY <1>1, <1>9
    <2>2. Best(p, key, lb) = Best(n.right, key, best)
      <3>1. CASE ~ Is(n, lb)
        <4>1. best = lb
          BY <1>5, <3>1
        <4>2. lb # <<>> /\ lb[1].key \in Int /\ lb[1].key >= k
          BY <1>1, <1>9, <3>1 DEF Bound
        <4>3. Beyond(p, key, lb) = Beyond(n.right, key, lb)
          <5>1. Beyond(p, key, lb) = {m \in {n} \cup L \cup R : Is(m, lb)} /\
                Beyond(n.right, key, lb) = {m \in R : Is(m, lb)}
            BY <1>1, <1>4, Zenon
          <5>2. \A m \in {n} \cup L : ~ Is(m, lb)
            BY <1>1, <4>2
          <5> HIDE DEF L, R, Is
          <5> QED
            BY <5>1, <5>2
        <4> QED
          BY <1>2, <1>9, <4>1, <4>3, Zenon DEF Best
      <3>2. CASE Is(n, lb)
        <4> DEFINE B == Beyond(p, key, lb)
                   C == Beyond(n.right, key, p)
        <4>1. best = p
          BY <1>5, <3>2
        <4>2. n \in B /\ C \subseteq B /\ C = R \cap B
          <5>1. B = {m \in {n} \cup L \cup R : Is(m, lb)}
            BY <1>1, <1>4, Zenon
          <5>2. C = {m \in R : Is(m, p)}
            BY <1>4, Zenon
          <5>3. \A m \in R : Is(m, p) <=> Is(m, lb)
            <6>1. p # <<>> /\ p[1].key = k /\ k \in Int
              BY <1>1, <1>6
            <6>2. lb = <<>> \/ (lb[1].key \in Int /\ lb[1].key < k)
              BY <3>2 DEF Bound
            <6> QED
              BY <1>1, <6>1, <6>2
          <5> HIDE DEF B, C, Is, L, R
          <5> QED
            BY <3>2, <5>1, <5>2, <5>3
        <4>3. B \subseteq {n} \cup L \cup R
          BY <1>1 DEF Beyond
        <4> HIDE DEF B, C, L, R, Is
        <4>4. CASE C = {}
          <5>1. Last(B) = {n}
            BY <1>1, <4>2, <4>3, <4>4 DEF Last
          <5>2. To(Last(B)) = p /\ B # {}
            BY <1>1, <4>2, <5>1, ToOne
          <5> QED
            BY <1>2, <1>9, <4>1, <4>4, <5>2, Zenon DEF Best, B, C
        <4>5. CASE C # {}
          <5>1. Last(B) = Last(C)
            <6>1. ASSUME NEW m \in Last(B)  PROVE m \in Last(C)
              <7>1. PICK c \in C : c \in R /\ c.key \in Int /\ c.key > k
                BY <1>1, <4>2, <4>5
              <7>2. c.key <= m.key /\ m \in B
                BY <4>2, <6>1, <7>1 DEF Last
              <7>3. m \in R
                BY <1>1, <4>3, <7>1, <7>2
              <7> QED
                BY <4>2, <6>1, <7>3 DEF Last
            <6>2. ASSUME NEW m \in Last(C)  PROVE m \in Last(B)
              <7>1. m \in R /\ m \in B /\ m.key \in Int /\ m.key > k /\ \A c \in C : c.key <= m.key
                BY <1>1, <4>2, <6>2 DEF Last
              <7>2. \A b \in B : b.key <= m.key
                BY <1>1, <4>2, <4>3, <7>1
              <7> QED
                BY <7>1, <7>2 DEF Last
            <6> QED
              BY <6>1, <6>2
          <5>2. B # {}
            BY <4>2
          <5> QED
            BY <1>2, <1>9, <4>1, <4>5, <5>1, <5>2, Zenon DEF Best, B, C
        <4> QED
          BY <4>4, <4>5
      <3> QED
        BY <3>1, <3>2
    <2>3. Best(<<>>, key, best) = best
      BY <1>3, Zenon DEF Best
    <2>4. Bounded(n, key, p, lb, Best(n.left, key, lb), Best(n.right, key, best)) = Best(p, key, lb)
      BY <2>1, <2>2, <2>3, Zenon DEF Bounded, best
    <2> QED
      BY <2>4, Zenon DEF best, n
  <1> QED
    BY <1>1, <1>7, <1>8, <1>9

-----------------------------------------------------------------------------
(***************************************************************************)
(* The search for a lower bound finds the last node below the key.         *)
(***************************************************************************)

LEMMA BoundedAgree ==
    ASSUME NEW n, NEW key, NEW p, NEW lb, NEW l, NEW r, NEW x, NEW y,
           n.left # <<>> => l = x, n.right # <<>> => r = y
    PROVE  Bounded(n, key, p, lb, l, r) = Bounded(n, key, p, lb, x, y)
  BY Zenon DEF Bounded

(* One turn of the search, by what the function is of the pointers below.  *)
LEMMA BoundedIs ==
    ASSUME NEW t, Tree(t), NEW p \in Pointers(t) \ {<<>>}, NEW key \in Int,
        NEW lb \in Pointers(t), NEW f,
           \A q \in {p[1].left, p[1].right} \ {<<>>} : \A b \in Pointers(t) : f[q][b] = Best(q,
               key, b)
    PROVE  Bounded(p[1], key, p, lb, f[p[1].left][lb], f[p[1].right][Pick(p[1], key, p,
        lb)]) = Best(p, key, lb)
  <1> DEFINE n == p[1]
             best == Pick(n, key, p, lb)
  <1>1. Tree(p) /\ p # <<>> /\ p \in Pointers(t)
    BY TreeOf
  <1>2. Bound(lb)
    <2>1. lb # <<>> => lb[1].key \in Int
      BY TreeOf DEF Sound
    <2> QED
      BY <2>1 DEF Bound
  <1>3. best \in Pointers(t)
    BY <1>1, Zenon DEF Pick
  <1>4. n.left # <<>> => f[n.left][lb] = Best(n.left, key, lb)
    OBVIOUS
  <1>5. n.right # <<>> => f[n.right][best] = Best(n.right, key, best)
    BY <1>3
  <1>6. Best(p, key, lb) = Bounded(n, key, p, lb, Best(n.left, key, lb), Best(n.right, key, best))
    BY <1>1, <1>2, BestByTop, Zenon
  <1> HIDE DEF best, n
  <1>7. Bounded(n, key, p, lb, f[n.left][lb], f[n.right][best]) =
           Bounded(n, key, p, lb, Best(n.left, key, lb), Best(n.right, key, best))
    BY <1>4, <1>5, BoundedAgree
  <1> QED
    BY <1>6, <1>7, Zenon DEF best, n

LEMMA BoundsAt ==
    ASSUME NEW X, NEW Y, NEW key, NEW f, BoundsIn(X, Y, key, f), NEW p \in X, NEW lb \in Y
    PROVE  f[p][lb] = Bounded(p[1], key, p, lb, f[p[1].left][lb], f[p[1].right][Pick(p[1], key,
        p, lb)])
  <1> DEFINE e(q, b) == Bounded(q[1], key, q, b, f[q[1].left][b], f[q[1].right][Pick(q[1], key,
      q, b)])
             row(q) == [b \in Y |-> e(q, b)]
  <1>1. f = [q \in X |-> row(q)]
    BY Zenon DEF BoundsIn
  <1>2. f[p] = row(p)
    <2> HIDE DEF row
    <2> QED
      BY <1>1
  <1>3. row(p)[lb] = e(p, lb)
    <2> HIDE DEF e
    <2> QED
      OBVIOUS
  <1> QED
    BY <1>2, <1>3, Zenon

LEMMA LowerBoundBest ==
    ASSUME NEW t, Tree(t), t # <<>>, NEW key \in Int  PROVE LowerBound(t, key) = Best(t, key, <<>>)
  <1> DEFINE X == Pointers(t) \ {<<>>}
             Y == Pointers(t)
             g == [p \in X |-> [lb \in Y |-> Best(p, key, lb)]]
             f == CHOOSE h : BoundsIn(X, Y, key, h)
  <1>1. \A p \in X : {p[1].left, p[1].right} \ {<<>>} \subseteq X
    BY ChildrenArePointers
  <1>2. \A p \in X, lb \in Y : g[p][lb] = Best(p, key, lb)
    OBVIOUS
  <1>3. g = [p \in X |-> [lb \in Y |-> Best(p, key, lb)]]
    OBVIOUS
  <1> HIDE DEF g
  <1>4. \A p \in X : \A lb \in Y :
           Bounded(p[1], key, p, lb, g[p[1].left][lb], g[p[1].right][Pick(p[1], key, p,
               lb)]) = Best(p, key, lb)
    <2> SUFFICES ASSUME NEW p \in X, NEW lb \in Y
                 PROVE  Bounded(p[1], key, p, lb, g[p[1].left][lb], g[p[1].right][Pick(p[1],
                     key, p, lb)])
                           = Best(p, key, lb)
      OBVIOUS
    <2>1. \A q \in {p[1].left, p[1].right} \ {<<>>} : \A b \in Pointers(t) : g[q][b] = Best(q,
          key, b)
      BY <1>1, <1>2
    <2> QED
      BY <2>1, BoundedIs
  <1>5. BoundsIn(X, Y, key, g)
    <2> DEFINE a(p, lb) == Best(p, key, lb)
               b(p, lb) == Bounded(p[1], key, p, lb, g[p[1].left][lb], g[p[1].right][Pick(p[1],
                   key, p, lb)])
               rowa(p) == [lb \in Y |-> a(p, lb)]
               rowb(p) == [lb \in Y |-> b(p, lb)]
    <2>1. \A p \in X : \A lb \in Y : a(p, lb) = b(p, lb)
      BY <1>4
    <2>2. \A p \in X : rowa(p) = rowb(p)
      <3> HIDE DEF a, b, X, Y
      <3> QED
        BY <2>1
    <2>3. g = [p \in X |-> rowa(p)]
      BY <1>3, Zenon
    <2>4. g = [p \in X |-> rowb(p)]
      <3> HIDE DEF rowa, rowb, X
      <3> QED
        BY <2>2, <2>3
    <2> QED
      BY <2>4, Zenon DEF BoundsIn
  <1>6. BoundsIn(X, Y, key, f)
    BY <1>5, Zenon
  <1> HIDE DEF f
  <1> DEFINE S == {p \in Pointers(t) : p = <<>> \/ \A lb \in Y : f[p][lb] = Best(p, key, lb)}
  <1>7. <<>> \in S
    BY NothingIsPointer
  <1>8. ASSUME NEW p \in Pointers(t) \ {<<>>}, p[1].left \in S, p[1].right \in S  PROVE p \in S
    <2> SUFFICES ASSUME NEW lb \in Y  PROVE f[p][lb] = Best(p, key, lb)
      BY <1>8
    <2>1. \A q \in {p[1].left, p[1].right} \ {<<>>} : \A b \in Pointers(t) : f[q][b] = Best(q,
          key, b)
      BY <1>8
    <2>2. Bounded(p[1], key, p, lb, f[p[1].left][lb], f[p[1].right][Pick(p[1], key, p,
          lb)]) = Best(p, key, lb)
      <3> HIDE DEF S
      <3> QED
        BY <1>8, <2>1, BoundedIs
    <2>3. f[p][lb] = Bounded(p[1], key, p, lb, f[p[1].left][lb], f[p[1].right][Pick(p[1], key,
          p, lb)])
      <3>1. p \in X
        BY <1>8
      <3> HIDE DEF S, X, Y
      <3> QED
        BY <1>6, <3>1, BoundsAt
    <2> QED
      BY <2>2, <2>3
  <1>9. t \in S
    <2> HIDE DEF S
    <2> QED
      BY <1>7, <1>8, AllPointers, TopIsPointer
  <1>10. LowerBound(t, key) = f[t][<<>>]
    BY LowerBoundIs, Zenon DEF f
  <1>11. <<>> \in Y
    BY NothingIsPointer
  <1> QED
    BY <1>9, <1>10, <1>11

(* Among nodes of a tree, if there are any, there is one last.             *)
LEMMA OneIsLast ==
    ASSUME NEW t, Tree(t), NEW S, S \subseteq Nodes(t), S # {}
    PROVE  \E n \in S : Last(S) = {n}
  <1> DEFINE P == {p \in Pointers(t) : \A T \in SUBSET Nodes(p) : T # {} => Last(T) # {}}
  <1>1. <<>> \in P
    BY NothingIsPointer, NothingHasNodes
  <1>2. ASSUME NEW p \in Pointers(t) \ {<<>>}, p[1].left \in P, p[1].right \in P  PROVE p \in P
    <2> DEFINE n == p[1]
               L == Nodes(n.left)
               R == Nodes(n.right)
    <2>1. Tree(p) /\ p # <<>>
      BY <1>2, TreeOf
    <2>2. /\ n.key \in Int /\ Nodes(p) = {n} \cup L \cup R
          /\ \A m \in L : m.key \in Int /\ m.key < n.key
          /\ \A m \in R : m.key \in Int /\ m.key > n.key
      BY <2>1, NodesByTop, Zenon
    <2>3. /\ \A T \in SUBSET L : T # {} => Last(T) # {}
          /\ \A T \in SUBSET R : T # {} => Last(T) # {}
      BY <1>2
    <2> HIDE DEF n, L, R
    <2>4. ASSUME NEW T \in SUBSET Nodes(p), T # {}  PROVE Last(T) # {}
      <3>1. CASE T \cap R # {}
        <4>1. PICK m : m \in Last(T \cap R)
          BY <2>3, <3>1
        <4>2. m \in T /\ m \in R /\ \A x \in T \cap R : x.key <= m.key
          BY <4>1 DEF Last
        <4>3. \A x \in T : x.key <= m.key
          BY <2>2, <4>2
        <4> QED
          BY <4>2, <4>3 DEF Last
      <3>2. CASE T \cap R = {} /\ n \in T
        BY <2>2, <3>2 DEF Last
      <3>3. CASE T \cap R = {} /\ n \notin T
        BY <2>2, <2>3, <2>4, <3>3
      <3> QED
        BY <3>1, <3>2, <3>3
    <2> QED
      BY <1>2, <2>4
  <1>3. t \in P
    <2> HIDE DEF P
    <2> QED
      BY <1>1, <1>2, AllPointers, TopIsPointer
  <1>4. PICK n : n \in Last(S)
    BY <1>3
  <1>5. n \in S /\ \A m \in S : m.key <= n.key
    BY <1>4 DEF Last
  <1>6. ASSUME NEW m \in Last(S)  PROVE m = n
    <2>1. m \in Nodes(t) /\ n \in Nodes(t) /\ m.key <= n.key /\ n.key <= m.key
      BY <1>5, <1>6 DEF Last
    <2>2. m.key \in Int /\ n.key \in Int
      BY <2>1, WithKeyIs
    <2>3. m \in WithKey(t, n.key) /\ WithKey(t, n.key) = {n}
      BY <2>1, <2>2, WithKeyIs DEF WithKey
    <2> QED
      BY <2>3
  <1> QED
    BY <1>4, <1>5, <1>6

-----------------------------------------------------------------------------
(***************************************************************************)
(* What the table answers is what the map answers.                         *)
(***************************************************************************)

LEMMA NearestIs ==
    ASSUME NEW S \in SUBSET Int, NEW b \in S, \A c \in S : c <= b  PROVE Map!Nearest(S) = b
  <1> DEFINE d == CHOOSE x \in S : \A c \in S : c <= x
  <1>1. d \in S /\ \A c \in S : c <= d
    OBVIOUS
  <1>2. Map!Nearest(S) = d
    BY Zenon DEF Map!Nearest
  <1> HIDE DEF d
  <1> QED
    BY <1>1, <1>2

(* The lower bound is the node of the nearest address at or below.         *)
LEMMA AvlLowerBoundSays ==
    ASSUME NEW t, Tree(t), NEW key \in Int
    PROVE  /\ Map!Below(Content(t), key) = {} => AvlLowerBound(t, key) = <<>>
           /\ Map!Below(Content(t), key) # {} =>
                 /\ AvlLowerBound(t, key) # <<>>
                 /\ AvlLowerBound(t, key)[1].key = Map!Nearest(Map!Below(Content(t), key))
                 /\ AvlLowerBound(t, key)[1].key \in Int
  <1> DEFINE B == Map!Below(Content(t), key)
             q == AvlLowerBound(t, key)
  <1>1. B = {b \in Keys(t) : b <= key} /\ Keys(t) \subseteq Int /\ B \in SUBSET Int
    <2>1. B = {b \in Keys(t) : b <= key}
      BY ContentDomain DEF Map!Below
    <2>2. Keys(t) \subseteq Int
      BY KeysAreNumbers
    <2> HIDE DEF B
    <2> QED
      BY <2>1, <2>2
  <1>2. CASE t = <<>>
    <2>1. Keys(t) = {}
      BY <1>2, NothingHasNodes
    <2> QED
      BY <1>1, <1>2, <2>1 DEF AvlLowerBound
  <1>3. CASE t # <<>>
    <2>1. q = Best(t, key, <<>>)
      BY <1>3, LowerBoundBest, Zenon DEF AvlLowerBound
    <2>2. ASSUME NEW n \in Nodes(t), q = <<n>>, n.key <= key,
          \A m \in Nodes(t) : m.key <= key => m.key <= n.key
          PROVE  B # {} /\ q # <<>> /\ q[1].key = Map!Nearest(B) /\ q[1].key \in Int
      <3>1. n.key \in B /\ \A c \in B : c <= n.key
        BY <1>1, <2>2 DEF Keys
      <3>2. Map!Nearest(B) = n.key
        <4> HIDE DEF B
        <4> QED
          BY <1>1, <3>1, NearestIs
      <3> QED
        BY <1>1, <2>2, <3>1, <3>2
    <2>3. CASE WithKey(t, key) # {}
      <3>1. PICK n \in Nodes(t) : n.key = key /\ WithKey(t, key) = {n}
        BY <2>3, WithKeyIs DEF WithKey
      <3>2. q = <<n>>
        BY <2>1, <2>3, <3>1, ToOne DEF Best
      <3> QED
        BY <2>2, <3>1, <3>2
    <2>4. CASE WithKey(t, key) = {} /\ Beyond(t, key, <<>>) # {}
      <3> DEFINE S == Beyond(t, key, <<>>)
      <3>1. S = {n \in Nodes(t) : n.key < key}
        BY DEF Beyond, Better
      <3>2. PICK n \in S : Last(S) = {n}
        <4>1. S \subseteq Nodes(t) /\ S # {}
          BY <2>4, <3>1
        <4> HIDE DEF S
        <4> QED
          BY <4>1, OneIsLast
      <3>3. q = <<n>>
        BY <2>1, <2>4, <3>2, ToOne DEF Best
      <3>4. n \in Nodes(t) /\ n.key < key /\ n.key \in Int /\ \A m \in S : m.key <= n.key
        <4>1. n \in Nodes(t) /\ n.key < key /\ n \in Last(S)
          BY <3>1, <3>2
        <4> HIDE DEF S
        <4> QED
          BY <4>1, WithKeyIs DEF Last
      <3>5. \A m \in Nodes(t) : m.key \in Int /\ m.key # key
        BY <2>4, WithKeyIs DEF WithKey
      <3>6. \A m \in Nodes(t) : m.key <= key => m.key <= n.key
        BY <3>1, <3>4, <3>5
      <3>7. n.key <= key
        BY <3>4
      <3> HIDE DEF S
      <3> QED
        BY <2>2, <3>3, <3>4, <3>6, <3>7
    <2>5. CASE WithKey(t, key) = {} /\ Beyond(t, key, <<>>) = {}
      <3>1. q = <<>>
        BY <2>1, <2>5 DEF Best
      <3>2. \A m \in Nodes(t) : m.key \in Int /\ m.key # key /\ ~ (m.key < key)
        BY <2>5, WithKeyIs DEF WithKey, Beyond, Better
      <3>3. B = {}
        BY <1>1, <3>2 DEF Keys
      <3> QED
        BY <3>1, <3>3
    <2> HIDE DEF q, B
    <2> QED
      BY <2>2, <2>3, <2>4, <2>5
  <1> QED
    BY <1>2, <1>3

(* The local table pointed to is the only one that counts.                 *)
LEMMA CurrentIs ==
    ASSUME TableInv
    PROVE  /\ Tree(Current)
           /\ curtab = {} => Current = <<>> /\ Map!Here = {}
           /\ curtab # {} => Map!Here = {Content(Current)}
  <1>1. CASE curtab = {}
    BY <1>1, TreeNothing DEF Current, Map!Here
  <1>2. CASE curtab # {}
    <2>1. PICK s \in DOMAIN Content(avl_lmap) : curtab = {s}
      BY <1>2 DEF TableInv
    <2>2. s \in Int
      BY ContentDomain, KeysAreNumbers DEF TableInv
    <2>3. Current = LocalMap(s)
      BY <2>1 DEF Current
    <2>4. LocalMap(s) = Content(avl_lmap)[s] /\ Tree(LocalMap(s))
      BY <2>2, LocalMapIs, LocalMapTree DEF TableInv
    <2>5. Map!Here = {Content(Content(avl_lmap)[s])}
      BY <2>1 DEF Map!Here
    <2> QED
      BY <1>2, <2>3, <2>4, <2>5
  <1> QED
    BY <1>1, <1>2

LEMMA SymbolAtIs == ASSUME TableInv, NEW a \in Int  PROVE SymbolAt(a) = Map!NameAt(a)
  <1> DEFINE g == AvlFind(gtab, a)
             l == AvlFind(Current, a)
             G == Content(gtab)
             C == Content(Current)
  <1>1. SymbolAt(a) = IF g # <<>> THEN g[1].data ELSE IF l # <<>> THEN l[1].data ELSE NoName
    BY Zenon DEF SymbolAt
  <1>2. Map!NameAt(a) = IF a \in DOMAIN G THEN G[a]
                        ELSE IF \E f \in Map!Here : a \in DOMAIN f THEN (CHOOSE f \in Map!Here : TRUE)[a]
                        ELSE NoName
    BY Zenon DEF Map!NameAt
  <1>3. (g = <<>> <=> a \notin DOMAIN G) /\ (g # <<>> => g[1].data = G[a])
    BY AvlFindSays DEF TableInv
  <1>4. (l = <<>> <=> a \notin DOMAIN C) /\ (l # <<>> => l[1].data = C[a])
    BY CurrentIs, AvlFindSays
  <1>5. CASE curtab = {}
    <2>1. Map!Here = {} /\ DOMAIN C = {}
      BY <1>5, CurrentIs, ContentDomain, NothingHasNodes
    <2> HIDE DEF g, l, G, C
    <2> QED
      BY <1>1, <1>2, <1>3, <1>4, <2>1
  <1>6. CASE curtab # {}
    <2>1. Map!Here = {C}
      BY <1>6, CurrentIs
    <2> DEFINE only == CHOOSE f \in Map!Here : TRUE
               known == \E f \in Map!Here : a \in DOMAIN f
    <2>2. only = C /\ (known <=> a \in DOMAIN C)
      <3> HIDE DEF C
      <3> QED
        BY <2>1
    <2>3. Map!NameAt(a) = IF a \in DOMAIN G THEN G[a] ELSE IF known THEN only[a] ELSE NoName
      BY <1>2
    <2> HIDE DEF g, l, G, C, only, known
    <2> QED
      BY <1>1, <2>3, <1>3, <1>4, <2>2
  <1> QED
    BY <1>5, <1>6

LEMMA LookUpGetsSymbol ==
    ASSUME TableInv, NEW a \in Int, LookUp(a)  PROVE Map!GetSymbol(a)
  <1>1. found' = [name |-> SymbolAt(a), offset |-> 0] /\
        UNCHANGED <<client, gtab, avl_lmap, curtab>>
    BY DEF LookUp
  <1> QED
    BY <1>1, SymbolAtIs DEF Map!GetSymbol, Map!Answer

LEMMA CallbackDescribes ==
    ASSUME TableInv, NEW a \in Int, DisassemblyCallback(a)  PROVE Map!Describe(a)
  <1> DEFINE g == AvlLowerBound(gtab, a)
             l == AvlLowerBound(Current, a)
             n == IF g # <<>> THEN g ELSE l
             G == Map!Below(Content(gtab), a)
             L == UNION {Map!Below(f, a) : f \in Map!Here}
             S == IF G # {} THEN G ELSE L
  <1>1. /\ found' = IF n = <<>> THEN Nothing ELSE [name |-> SymbolAt(n[1].key), offset |-> a - n[1].key]
        /\ UNCHANGED <<client, gtab, avl_lmap, curtab>>
    BY Zenon DEF DisassemblyCallback
  <1>2. /\ G = {} => g = <<>>
        /\ G # {} => g # <<>> /\ g[1].key = Map!Nearest(G) /\ g[1].key \in Int
    BY AvlLowerBoundSays DEF TableInv
  <1>3. /\ L = {} => l = <<>>
        /\ L # {} => l # <<>> /\ l[1].key = Map!Nearest(L) /\ l[1].key \in Int
    <2>1. CASE curtab = {}
      <3>1. Current = <<>> /\ Map!Here = {}
        BY <2>1, CurrentIs
      <3>2. l = <<>> /\ L = {}
        BY <3>1 DEF AvlLowerBound
      <3> QED
        BY <3>2
    <2>2. CASE curtab # {}
      <3>1. Tree(Current) /\ Map!Here = {Content(Current)}
        BY <2>2, CurrentIs
      <3>2. L = Map!Below(Content(Current), a)
        BY <3>1
      <3> HIDE DEF L
      <3> QED
        BY <3>1, <3>2, AvlLowerBoundSays
    <2> QED
      BY <2>1, <2>2
  <1>4. /\ S = {} => n = <<>>
        /\ S # {} => n # <<>> /\ n[1].key = Map!Nearest(S) /\ n[1].key \in Int
    <2> HIDE DEF g, l, G, L
    <2> QED
      BY <1>2, <1>3
  <1>5. Map!Describe(a) <=>
           /\ found' = IF S = {} THEN Map!NoAnswer
                       ELSE Map!Answer(Map!NameAt(Map!Nearest(S)), a - Map!Nearest(S))
           /\ UNCHANGED <<Content(gtab), [s \in DOMAIN Content(avl_lmap) |-> Content(Content(avl_lmap)[s])], curtab>>
    BY Zenon DEF Map!Describe
  <1> HIDE DEF n, S
  <1>6. found' = IF S = {} THEN Map!NoAnswer
                 ELSE Map!Answer(Map!NameAt(Map!Nearest(S)), a - Map!Nearest(S))
    <2>1. CASE S = {}
      BY <1>1, <1>4, <2>1 DEF Nothing, Map!NoAnswer, Map!Answer
    <2>2. CASE S # {}
      <3>1. SymbolAt(n[1].key) = Map!NameAt(Map!Nearest(S))
        BY <1>4, <2>2, SymbolAtIs
      <3> QED
        BY <1>1, <1>4, <2>2, <3>1 DEF Map!Answer
    <2> QED
      BY <2>1, <2>2
  <1> QED
    BY <1>1, <1>5, <1>6

-----------------------------------------------------------------------------
(***************************************************************************)
(* The table implements the map.                                           *)
(***************************************************************************)

LEMMA TableStartsAsMap == InitSweep => Map!MapInit
  <1> SUFFICES ASSUME InitSweep  PROVE Map!MapInit
    OBVIOUS
  <1>1. gtab = <<>> /\ avl_lmap = <<>> /\ curtab = {} /\ found = Nothing
    BY DEF InitSweep, TableInit
  <1>2. Content(gtab) = <<>> /\ Content(avl_lmap) = <<>>
    BY <1>1, NothingHasContent
  <1> DEFINE f == Content(avl_lmap)
             e(s) == Content(f[s])
  <1>3. [s \in DOMAIN f |-> e(s)] = <<>>
    <2>1. f = <<>>
      BY <1>2
    <2> HIDE DEF e, f
    <2> QED
      BY <2>1
  <1>4. found = Map!NoAnswer
    BY <1>1 DEF Nothing, Map!NoAnswer, Map!Answer
  <1> QED
    BY <1>1, <1>2, <1>3, <1>4, Zenon DEF Map!MapInit

Locals(f) == [s \in DOMAIN f |-> Content(f[s])]

(* A section given another table has another map among those of sections.  *)
LEMMA LocalsWith ==
    ASSUME NEW f, NEW s, NEW d
    PROVE  Locals(Map!With(f, s, d)) = Map!With(Locals(f), s, Content(d))
  <1> DEFINE w == Map!With(f, s, d)
             F == Locals(f)
             D == DOMAIN f \cup {s}
             a(x) == Content(w[x])
             b(x) == IF x = s THEN Content(d) ELSE F[x]
  <1>1. DOMAIN w = D /\ (\A x \in D : w[x] = IF x = s THEN d ELSE f[x])
    BY DEF Map!With
  <1>2. DOMAIN F = DOMAIN f /\ \A x \in DOMAIN f : F[x] = Content(f[x])
    BY DEF Locals
  <1>3. Locals(w) = [x \in D |-> a(x)]
    BY <1>1, Zenon DEF Locals
  <1>4. Map!With(F, s, Content(d)) = [x \in D |-> b(x)]
    BY <1>2, Zenon DEF Map!With
  <1>5. \A x \in D : a(x) = b(x)
    <2> SUFFICES ASSUME NEW x \in D  PROVE a(x) = b(x)
      OBVIOUS
    <2>1. CASE x = s
      <3>1. w[x] = d
        BY <1>1, <2>1
      <3> QED
        BY <2>1, <3>1, Zenon
    <2>2. CASE x # s
      <3>1. x \in DOMAIN f /\ w[x] = f[x] /\ F[x] = Content(f[x])
        BY <1>1, <1>2, <2>2
      <3> QED
        BY <2>2, <3>1, Zenon
    <2> QED
      BY <2>1, <2>2
  <1>6. [x \in D |-> a(x)] = [x \in D |-> b(x)]
    <2> HIDE DEF a, b, D
    <2> QED
      BY <1>5
  <1> QED
    BY <1>3, <1>4, <1>6, Zenon

LEMMA GlobalSymbolAddsGlobal ==
    ASSUME TableInv, NEW add \in client.additions, AddGlobalSymbol(add)
    PROVE  Map!AddGlobal(add.addr, add.name)
  <1>1. Content(gtab)' = Map!With(Content(gtab), add.addr, add.name)
    BY AddGlobalSymbolKeeps
  <1>2. found' = Nothing /\ UNCHANGED <<client, avl_lmap, curtab>>
    BY DEF AddGlobalSymbol
  <1>3. Nothing = Map!NoAnswer
    BY DEF Nothing, Map!NoAnswer, Map!Answer
  <1> QED
    BY <1>1, <1>2, <1>3 DEF Map!AddGlobal

LEMMA LocalSymbolAddsLocal ==
    ASSUME TableInv, NEW add \in client.additions, AddLocalSymbol(add)
    PROVE  Map!AddLocal(add.section, add.addr, add.name)
  <1> DEFINE s == add.section
             d == InsertNode(LocalMap(s), add.addr, add.name)
             f == Content(avl_lmap)
             of == Map!Of(Locals(f), s, <<>>)
  <1>1. /\ Content(avl_lmap)' = Map!With(f, s, d)
        /\ Content(d) = Map!With(Content(LocalMap(s)), add.addr, add.name)
    BY AddLocalSymbolKeeps, Zenon
  <1>2. found' = Nothing /\ UNCHANGED <<client, gtab, curtab>>
    BY DEF AddLocalSymbol
  <1>3. Nothing = Map!NoAnswer
    BY DEF Nothing, Map!NoAnswer, Map!Answer
  <1>4. Content(LocalMap(s)) = of
    <2>1. s \in Int
      BY AdditionsAre DEF TableInv
    <2>2. LocalMap(s) = IF s \in DOMAIN f THEN f[s] ELSE <<>>
      BY <2>1, LocalMapIs DEF TableInv
    <2>3. DOMAIN Locals(f) = DOMAIN f /\ (s \in DOMAIN f => Locals(f)[s] = Content(f[s]))
      <3> HIDE DEF f, s
      <3> QED
        BY DEF Locals
    <2>4. of = IF s \in DOMAIN f THEN Locals(f)[s] ELSE <<>>
      BY <2>3, Zenon DEF Map!Of
    <2> HIDE DEF f, s, of
    <2>5. CASE s \in DOMAIN f
      BY <2>2, <2>3, <2>4, <2>5
    <2>6. CASE s \notin DOMAIN f
      BY <2>2, <2>4, <2>6, NothingHasContent
    <2> QED
      BY <2>5, <2>6
  <1>5. Locals(Content(avl_lmap)') = Map!With(Locals(f), s, Map!With(of, add.addr, add.name))
    <2>1. Content(d) = Map!With(of, add.addr, add.name)
      BY <1>1, <1>4
    <2> HIDE DEF f, s, d, of
    <2>2. Locals(Map!With(f, s, d)) = Map!With(Locals(f), s, Content(d))
      BY LocalsWith
    <2>3. Locals(Content(avl_lmap)') = Locals(Map!With(f, s, d))
      BY <1>1
    <2> QED
      BY <2>1, <2>2, <2>3
  <1>6. Map!AddLocal(s, add.addr, add.name) <=>
           /\ found' = Map!NoAnswer
           /\ Locals(Content(avl_lmap)') = Map!With(Locals(f), s, Map!With(of, add.addr, add.name))
           /\ UNCHANGED <<Content(gtab), curtab>>
    BY Zenon DEF Map!AddLocal, Locals
  <1>7. UNCHANGED <<Content(gtab), curtab>>
    BY <1>2
  <1> QED
    BY <1>2, <1>3, <1>5, <1>6, <1>7, Zenon

LEMMA SetCurrentTableSetsCurrent ==
    ASSUME TableInv, NEW s \in client.sections, SetCurrentTable(s)  PROVE Map!SetCurrent(s)
  <1>1. curtab' = {s} \cap DOMAIN Content(avl_lmap)
    BY SetCurrentTableKeeps
  <1>2. found' = Nothing /\ UNCHANGED <<client, gtab, avl_lmap>>
    BY DEF SetCurrentTable
  <1>3. Nothing = Map!NoAnswer
    BY DEF Nothing, Map!NoAnswer, Map!Answer
  <1>4. DOMAIN [x \in DOMAIN Content(avl_lmap) |-> Content(Content(avl_lmap)[x])] = DOMAIN Content(avl_lmap)
    OBVIOUS
  <1> QED
    BY <1>1, <1>2, <1>3, <1>4 DEF Map!SetCurrent

LEMMA TableStepIsMapStep ==
    TableInv /\ [NextSweep]_<<tablevars, symbols, sweepvars>> => [Map!MapNext]_(Map!mapvars)
  <1> SUFFICES ASSUME TableInv, [NextSweep]_<<tablevars, symbols, sweepvars>>
               PROVE  Map!MapNext \/ UNCHANGED Map!mapvars
    OBVIOUS
  <1>1. CASE UNCHANGED tablevars
    BY <1>1 DEF tablevars, Map!mapvars
  <1>2. CASE TableNext
    <2>1. ASSUME NEW add \in client.additions, AddGlobalSymbol(add)  PROVE Map!MapNext
      <3>1. Map!AddGlobal(add.addr, add.name) /\ add.addr \in Addresses /\ add.name \in Names
        BY <2>1, GlobalSymbolAddsGlobal, AdditionsAre DEF TableInv
      <3> QED
        BY <3>1, Zenon DEF Map!MapNext
    <2>2. ASSUME NEW add \in client.additions, AddLocalSymbol(add)  PROVE Map!MapNext
      <3>1. Map!AddLocal(add.section, add.addr, add.name)
        BY <2>2, LocalSymbolAddsLocal
      <3>2. add.section \in Sections /\ add.addr \in Addresses /\ add.name \in Names
        BY <2>2, AdditionsAre DEF TableInv, AddLocalSymbol
      <3> QED
        BY <3>1, <3>2, Zenon DEF Map!MapNext
    <2>3. ASSUME NEW s \in client.sections, SetCurrentTable(s)  PROVE Map!MapNext
      <3>1. Map!SetCurrent(s) /\ s \in Sections
        BY <2>3, SetCurrentTableSetsCurrent, SetCurrentTableKeeps
      <3> QED
        BY <3>1, Zenon DEF Map!MapNext
    <2>4. ASSUME NEW a \in client.addresses, LookUp(a) \/ DisassemblyCallback(a)  PROVE Map!MapNext
      <3>1. a \in Addresses /\ a \in Int
        BY TableAssumption DEF TableInv
      <3>2. Map!GetSymbol(a) \/ Map!Describe(a)
        BY <2>4, <3>1, LookUpGetsSymbol, CallbackDescribes
      <3> QED
        BY <3>1, <3>2, Zenon DEF Map!MapNext
    <2> QED
      BY <1>2, <2>1, <2>2, <2>3, <2>4 DEF TableNext
  <1> QED
    BY <1>1, <1>2 DEF NextSweep, tablevars

(* The table answers as functions from addresses to names would: what is   *)
(* found is what was added last, and the lower bound is the nearest symbol *)
(* at or below the address.                                                *)
THEOREM TableAnswersAsMap == SpecSweep => TableImplementsMap
  <1>1. InitSweep => Map!MapInit
    BY TableStartsAsMap
  <1>2. TableInv /\ [NextSweep]_<<tablevars, symbols, sweepvars>> => [Map!MapNext]_(Map!mapvars)
    BY TableStepIsMapStep
  <1> QED
    BY <1>1, <1>2, TableInvariant, PTL DEF SpecSweep, TableImplementsMap, Map!MapSpec

-----------------------------------------------------------------------------
(***************************************************************************)
(* The loop with the table of a client is the loop with some symbols.      *)
(***************************************************************************)

LEMMA SweepStep ==
    ASSUME TableInv, [NextSweep]_<<tablevars, symbols, sweepvars>>  PROVE [LoopNext]_allvars
  <1>1. CASE sweep = "idle" /\ TableNext /\ symbols' = Named' /\ UNCHANGED sweepvars
    BY <1>1 DEF LoopNext
  <1>2. CASE (\E r \in client.regions : Start(r)) /\ UNCHANGED <<tablevars, symbols>>
    <2>1. client.regions \subseteq Regions
      BY ClientAssumption DEF TableInv
    <2> QED
      BY <1>2, <2>1 DEF LoopNext
  <1>3. CASE Loop /\ UNCHANGED tablevars
    BY <1>3 DEF LoopNext
  <1>4. CASE UNCHANGED <<tablevars, symbols, sweepvars>>
    BY <1>4 DEF allvars
  <1> QED
    BY <1>1, <1>2, <1>3, <1>4 DEF NextSweep

LEMMA SweepStepIsLoopStep ==
    TableInv /\ [NextSweep]_<<tablevars, symbols, sweepvars>> => [LoopNext]_allvars
  BY SweepStep

(* What the loop is asked to disassemble and the table it asks are such as *)
(* the loop is proved correct with.                                        *)
THEOREM SweepRunsTheLoop == SpecSweep => LoopSpec
  <1>1. InitSweep => SweepInit
    BY DEF InitSweep
  <1>2. SpecSweep => SweepInit /\ [][LoopNext]_allvars
    BY <1>1, SweepStepIsLoopStep, TableInvariant, PTL DEF SpecSweep
  <1>3. LoopSpec <=> SweepInit /\ [][LoopNext]_allvars
    BY PTL DEF LoopSpec, LoopNext, allvars
  <1> QED
    BY <1>2, <1>3, PTL

(* With the symbols of the table, no instruction shown has a symbol inside *)
(* and no symbol is passed over.                                           *)
THEOREM TableSymbolsStartInstructions == SpecSweep => []SymbolsAreStarts
  BY SweepRunsTheLoop, SymbolsStartInstructions, PTL
=============================================================================
