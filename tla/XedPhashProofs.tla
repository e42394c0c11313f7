--------------------------- MODULE XedPhashProofs ---------------------------
(***************************************************************************)
(* A generated lookup answers what the dictionary says, for dictionaries   *)
(* of any size, keys of any width that fits, and any of the hash functions. *)
(* The dictionary says what the grammar means, for any patterns, operands  *)
(* and values that the data files may have, whatever operands are replaced *)
(* by narrower ones on the way.                                            *)
(***************************************************************************)
EXTENDS XedPhashProps, FiniteSetTheorems, TLAPS

-----------------------------------------------------------------------------
(* Arithmetic.                                                             *)
LEMMA DivUnique ==
    ASSUME NEW a \in Nat, NEW n \in Nat \ {0}, NEW d \in Nat, NEW r \in 0..(n - 1), a = n * d + r
    PROVE  a \div n = d /\ a % n = r
  OBVIOUS

LEMMA ModOf ==
    ASSUME NEW a \in Int, NEW n \in Nat \ {0}  PROVE a % n \in 0..(n - 1)
  OBVIOUS

LEMMA ModSmall ==
    ASSUME NEW a \in Nat, NEW n \in Nat, a < n  PROVE a % n = a
  OBVIOUS

LEMMA Product ==
    ASSUME NEW a \in Nat, NEW b \in Nat, NEW n \in Nat, a < n, b < n
    PROVE  a * b \in Nat /\ a * b < n * n
  OBVIOUS

LEMMA Scaled ==
    ASSUME NEW a \in Nat, NEW s \in Nat \ {0}, NEW n \in Nat \ {0}, a < n
    PROVE  (a * s) \div n \in 0..(s - 1)
  OBVIOUS

LEMMA DivScale ==
    ASSUME NEW a \in Nat, NEW s \in Nat \ {0}, NEW q \in Nat \ {0}
    PROVE  (a * s) \div (q * s) = a \div q
  OBVIOUS

LEMMA WordFacts ==
    /\ Word \in Nat /\ Word >= 2 /\ KeyWord \in Nat \ {0} /\ KeyWord >= Word * Word /\ KeyWord > Word
    /\ Golden \in 1..(Word - 1) /\ MaxK \in Nat /\ MaxK < Word
    /\ Primes \subseteq Nat \ {0, 1} /\ \A s \in Powers : s \in 1..Word /\ Word % s = 0
  <1>1. Word \in Nat /\ Word >= 2 /\ KeyWord \in Nat /\ KeyWord >= Word * Word
    BY HashAssumption
  <1>2. Word * Word > Word
    BY <1>1
  <1> QED
    BY <1>1, <1>2, HashAssumption

-----------------------------------------------------------------------------
(* Sets of keys that fit a word have a least and a greatest member.        *)
LEMMA LeastNatural ==
    ASSUME NEW T, T \subseteq Nat, T # {}  PROVE \E x \in T : \A y \in T : x <= y
  <1>1. PICK x \in T : \A y \in T : ~(<<y, x>> \in OpToRel(<, Nat))
    BY NatLessThanWellFounded, WFMin
  <1>2. \A y \in T : ~(y < x)
    BY <1>1 DEF OpToRel
  <1> QED
    BY <1>2

LEMMA MinMax ==
    ASSUME NEW keys, keys \subseteq 0..(Word - 1), keys # {}
    PROVE  /\ Min(keys) \in keys /\ Max(keys) \in keys
           /\ \A x \in keys : Min(keys) <= x /\ x <= Max(keys)
  <1>0. Word \in Nat /\ keys \subseteq Nat
    BY WordFacts
  <1>1. \E x \in keys : \A y \in keys : x <= y
    BY <1>0, LeastNatural
  <1>2. \E x \in keys : \A y \in keys : x >= y
    <2> DEFINE T == {Word - x : x \in keys}
    <2>1. T \subseteq Nat
      <3>1. \A x \in keys : Word - x \in Nat
        BY <1>0
      <3> QED
        BY <3>1
    <2> T # {}
      OBVIOUS
    <2>2. PICK t \in T : \A u \in T : t <= u
      BY <2>1, LeastNatural
    <2>3. PICK x \in keys : t = Word - x
      BY <2>2
    <2>4. \A y \in keys : Word - x <= Word - y
      BY <2>2, <2>3
    <2> QED
      BY <2>4, WordFacts
  <1>3. Min(keys) \in keys /\ \A y \in keys : Min(keys) <= y
    BY <1>1 DEF Min
  <1>4. Max(keys) \in keys /\ \A y \in keys : Max(keys) >= y
    BY <1>2 DEF Max
  <1> QED
    BY <1>3, <1>4, WordFacts

LEMMA KeysAreFinite ==
    ASSUME NEW keys, keys \subseteq 0..(Word - 1), keys # {}
    PROVE  Cardinality(keys) \in Nat \ {0}
  <1>1. IsFiniteSet(0..(Word - 1))
    BY FS_Interval, WordFacts
  <1>2. IsFiniteSet(keys)
    BY <1>1, FS_Subset
  <1> QED
    BY <1>2, FS_CardinalityType, FS_EmptySet

-----------------------------------------------------------------------------
(* The hash functions that are tried for n keys.                           *)
Tried(h) ==
    /\ h.kind \in {"mul", "fks"} /\ h.size \in Nat \ {0} /\ h.k \in Nat /\ h.k < Word
    /\ h.p \in Nat \ {0}
    /\ h.kind = "mul" => h.p = Word

LEMMA HashesTyped == ASSUME NEW n \in Nat \ {0}, NEW h \in Hashes(n)  PROVE Tried(h)
  <1>1. CASE h \in MulHashes(n)
    <2>1. PICK s \in {((10 + x) * n + 9) \div 10 : x \in 0..10} \ {1} :
             h = [kind |-> "mul", size |-> s, k |-> Golden, p |-> Word]
      BY <1>1 DEF MulHashes
    <2>2. PICK x \in 0..10 : s = ((10 + x) * n + 9) \div 10
      BY <2>1
    <2>3. (10 + x) * n >= 10
      BY <2>2
    <2>4. s \in Nat \ {0}
      BY <2>2, <2>3
    <2> QED
      BY <2>1, <2>4, WordFacts DEF Tried
  <1>2. CASE h \in FksHashes(n)
    <2>1. PICK s \in Sizes(n), p \in Primes, k \in 3..(MaxK - 1) :
             h = [kind |-> "fks", size |-> s, k |-> k, p |-> p]
      BY <1>2 DEF FksHashes
    <2>2. n * n \in Nat \ {0}
      OBVIOUS
    <2>3. s \in Nat \ {0}
      BY <2>1, <2>2 DEF Sizes
    <2> QED
      BY <2>1, <2>3, WordFacts DEF Tried
  <1> QED
    BY <1>1, <1>2 DEF Hashes

LEMMA BucketsPositive == ASSUME NEW h, Tried(h)  PROVE Buckets(h) \in Nat \ {0}
  BY DEF Tried, Buckets

(* The shift that stands for a multiplication by a power of two. *)
LEMMA ShiftIsScaling ==
    ASSUME NEW a \in Nat, NEW s \in Powers
    PROVE  a \div (Word \div s) = (a * s) \div Word
  <1> DEFINE q == Word \div s
  <1>1. s \in Nat \ {0} /\ s <= Word /\ Word % s = 0
    BY WordFacts
  <1>2. Word = q * s /\ q \in Nat \ {0}
    BY <1>1, WordFacts
  <1> HIDE DEF q
  <1>3. (a * s) \div (q * s) = a \div q
    BY <1>1, <1>2, DivScale
  <1> QED
    BY <1>2, <1>3 DEF q

(* Whatever the key, the emitted expression stays in the table. *)
LEMMA IndexInTable ==
    ASSUME NEW h, Tried(h), NEW key \in 0..(KeyWord - 1)
    PROVE  Index(h, key) \in 0..(Buckets(h) - 1)
  <1> DEFINE product == (h.k * key) % KeyWord
             lo32 == product % Word
  <1>0. /\ Word \in Nat \ {0} /\ KeyWord \in Nat \ {0}
        /\ h.size \in Nat \ {0} /\ h.p \in Nat \ {0} /\ h.k * key \in Int
    BY WordFacts DEF Tried
  <1>1. product \in Nat
    BY <1>0, ModOf
  <1> HIDE DEF product
  <1>2. lo32 \in 0..(Word - 1)
    BY <1>0, <1>1, ModOf
  <1>3. CASE h.kind = "mul"
    <2>1. (lo32 * h.size) \div Word \in 0..(h.size - 1)
      <3> HIDE DEF lo32
      <3>1. lo32 \in Nat /\ lo32 < Word
        BY <1>0, <1>2
      <3> QED
        BY <1>0, <3>1, Scaled
    <2>2. Buckets(h) = h.size
      BY <1>3 DEF Buckets
    <2>3. h.size \in Powers => lo32 \div (Word \div h.size) = (lo32 * h.size) \div Word
      BY <1>2, ShiftIsScaling
    <2>4. Index(h, key) = (lo32 * h.size) \div Word
      BY <1>3, <2>3 DEF Index, product
    <2> QED
      BY <2>1, <2>2, <2>4
  <1>4. CASE h.kind = "fks"
    <2>1. Buckets(h) \in Nat \ {0}
      BY BucketsPositive
    <2>2. product % h.p \in 0..(h.p - 1)
      BY <1>0, <1>1, ModOf, SMTT(30)
    <2>3. (product % h.p) % Buckets(h) \in 0..(Buckets(h) - 1)
      BY <2>1, <2>2, ModOf
    <2>4. Index(h, key) = IF Buckets(h) = 1 THEN 0
                          ELSE IF Buckets(h) = h.p THEN product % h.p ELSE (product % h.p) % Buckets(h)
      BY <1>4 DEF Index, product
    <2> QED
      BY <2>1, <2>2, <2>3, <2>4
  <1> QED
    BY <1>3, <1>4 DEF Tried

(* For a key that fits a word, C and Python compute the same. *)
LEMMA IndexIsApply ==
    ASSUME NEW h, Tried(h), NEW x \in 0..(Word - 1)
    PROVE  Index(h, x) = Apply(h, x)
  <1>0. /\ Word \in Nat \ {0} /\ KeyWord \in Nat \ {0} /\ KeyWord >= Word * Word
        /\ h.k \in Nat /\ h.k < Word /\ x \in Nat /\ x < Word
    BY WordFacts DEF Tried
  <1>1. h.k * x \in Nat /\ h.k * x < KeyWord
    <2>1. h.k * x \in Nat /\ h.k * x < Word * Word
      BY <1>0, Product
    <2>2. Word * Word \in Nat
      BY <1>0
    <2> HIDE <1>0
    <2> QED
      BY <1>0, <2>1, <2>2
  <1>2. (h.k * x) % KeyWord = h.k * x
    BY <1>0, <1>1, ModSmall
  <1>3. CASE h.kind = "mul"
    <2> DEFINE prod == h.k * x
               lo32 == prod % Word
    <2>1. lo32 \in Nat
      <3>1. prod \in Int
        BY <1>1
      <3> HIDE DEF prod
      <3>2. lo32 \in 0..(Word - 1)
        BY <1>0, <3>1, ModOf
      <3> QED
        BY <3>2
    <2>2. h.size \in Powers => lo32 \div (Word \div h.size) = (lo32 * h.size) \div Word
      BY <2>1, ShiftIsScaling
    <2>3. Index(h, x) = (lo32 * h.size) \div Word
      BY <1>2, <1>3, <2>2 DEF Index
    <2>4. Apply(h, x) = (lo32 * h.size) \div Word
      BY <1>3 DEF Apply, Tried
    <2> QED
      BY <2>3, <2>4
  <1>4. CASE h.kind = "fks"
    <2> DEFINE prod == h.k * x
               y == prod % h.p
    <2>1. h.p \in Nat \ {0}
      BY DEF Tried
    <2>2. y \in 0..(h.p - 1)
      <3>1. prod \in Int
        BY <1>1
      <3> HIDE DEF prod
      <3> QED
        BY <2>1, <3>1, ModOf
    <2>3. Index(h, x) = IF Buckets(h) = 1 THEN 0 ELSE IF Buckets(h) = h.p THEN y ELSE y % Buckets(h)
      BY <1>2, <1>4 DEF Index
    <2>4. Apply(h, x) = y % Buckets(h)
      BY <1>4 DEF Apply
    <2>5. y % 1 = 0 /\ y % h.p = y
      BY <2>1, <2>2, ModSmall
    <2> QED
      BY <2>3, <2>4, <2>5
  <1> QED
    BY <1>3, <1>4 DEF Tried

-----------------------------------------------------------------------------
(* What a table of one level answers: the rule of the key, or 0.           *)
Direct(d, key) == IF key \in DOMAIN d THEN d[key] ELSE 0

LEMMA HashedLookup ==
    ASSUME NEW d, DOMAIN d \subseteq 0..(Word - 1), NEW h, Tried(h), IsPerfect(h, DOMAIN d),
           NEW key \in 0..(KeyWord - 1)
    PROVE  LookUp(Function(h, d), key) = Direct(d, key)
  <1> DEFINE f == Function(h, d)
             hidx == Index(h, key)
             at == {x \in DOMAIN d : Apply(h, x) = hidx}
             found == CHOOSE x \in at : TRUE
  <1>1. hidx \in 0..(Buckets(h) - 1)
    BY IndexInTable
  <1>2. f.hash = h
    BY DEF Function
  <1>3. f.table[hidx] = IF at = {} THEN [key |-> 0, rule |-> 0]
                        ELSE [key |-> found % Word, rule |-> d[found]]
    BY <1>1 DEF Function
  <1>4. LookUp(f, key) = IF f.table[hidx].key = key THEN f.table[hidx].rule ELSE 0
    BY <1>2 DEF LookUp, KeyIsThere, Tried
  <1>5. at # {} => found \in at
    OBVIOUS
  <1> HIDE DEF f, found
  <1>6. CASE key \in DOMAIN d
    <2>1. hidx = Apply(h, key)
      BY <1>6, IndexIsApply
    <2>2. key \in at
      BY <1>6, <2>1
    <2>3. found = key
      BY <1>5, <1>6, <2>1, <2>2 DEF IsPerfect
    <2>4. key % Word = key
      BY <1>6, ModSmall, WordFacts
    <2>5. f.table[hidx] = [key |-> key, rule |-> d[key]]
      BY <1>3, <2>2, <2>3, <2>4
    <2> QED
      BY <1>4, <1>6, <2>5 DEF Direct, f
  <1>7. CASE key \notin DOMAIN d
    <2>1. CASE at = {}
      BY <1>3, <1>4, <1>7, <2>1 DEF Direct, f
    <2>2. CASE at # {}
      <3>1. found \in DOMAIN d
        BY <1>5, <2>2
      <3>2. found % Word = found
        BY <3>1, ModSmall, WordFacts
      <3>3. f.table[hidx].key = found
        BY <1>3, <2>2, <3>2
      <3> QED
        BY <1>4, <1>7, <3>1, <3>3 DEF Direct, f
    <2> QED
      BY <2>1, <2>2
  <1> QED
    BY <1>6, <1>7

LEMMA LinearLookup ==
    ASSUME NEW d, DOMAIN d \subseteq 0..(Word - 1), DOMAIN d # {}, NEW key \in 0..(KeyWord - 1)
    PROVE  LookUp(Function(Linear(DOMAIN d), d), key) = Direct(d, key)
  <1> DEFINE least == Min(DOMAIN d)
             most == Max(DOMAIN d)
             h == Linear(DOMAIN d)
             f == Function(h, d)
             hidx == Index(h, key)
             at == {x \in DOMAIN d : Apply(h, x) = hidx}
             found == CHOOSE x \in at : TRUE
  <1>1. /\ least \in 0..(Word - 1) /\ most \in 0..(Word - 1)
        /\ \A x \in DOMAIN d : x \in Nat /\ x < Word /\ least <= x /\ x <= most
    BY MinMax, WordFacts
  <1>2. h.kind = "linear" /\ h.k = least /\ h.size = (most - least) + 1 /\ Buckets(h) = h.size
    BY DEF Linear, Buckets
  <1> HIDE DEF least, most, h
  <1>3. hidx = (key - least) % KeyWord
    BY <1>2 DEF Index
  <1>4. \A x \in DOMAIN d : Apply(h, x) = x - least
    BY <1>2 DEF Apply
  <1>5. f.hash = h
    BY DEF Function
  <1>6. LookUp(f, key) = IF hidx <= h.size - 1 THEN f.table[hidx].rule ELSE 0
    BY <1>2, <1>5 DEF LookUp, KeyIsThere
  <1>7. hidx \in 0..(KeyWord - 1)
    <2>1. key - least \in Int /\ KeyWord \in Nat \ {0}
      BY <1>1, WordFacts
    <2> QED
      BY <1>3, <2>1, ModOf
  <1>8. CASE key < least
    <2>1. hidx = (key - least) + KeyWord
      <3>1. /\ (key - least) + KeyWord \in Nat /\ (key - least) + KeyWord < KeyWord
            /\ KeyWord \in Nat \ {0} /\ key - least \in Int
        BY <1>1, <1>8, WordFacts
      <3> QED
        BY <1>3, <3>1
    <2>2. \A x \in DOMAIN d : x - least # hidx
      BY <1>1, <2>1, WordFacts
    <2>3. at = {}
      BY <1>4, <2>2
    <2>4. hidx <= h.size - 1 => f.table[hidx].rule = 0
      BY <1>1, <1>2, <1>7, <2>3 DEF Function
    <2>5. key \notin DOMAIN d
      BY <1>1, <1>8
    <2> QED
      BY <1>6, <2>4, <2>5 DEF Direct, f, h
  <1>9. CASE ~(key < least)
    <2>1. hidx = key - least
      <3>1. key - least \in Nat /\ key - least < KeyWord /\ KeyWord \in Nat
        BY <1>1, <1>9, WordFacts
      <3> QED
        BY <1>3, <3>1, ModSmall
    <2>2. \A x \in at : x = key
      BY <1>1, <1>4, <2>1
    <2>3. hidx <= h.size - 1 => f.table[hidx].rule = Direct(d, key)
      <3>1. SUFFICES ASSUME hidx <= h.size - 1
                     PROVE  f.table[hidx].rule = Direct(d, key)
        OBVIOUS
      <3>2. f.table[hidx] = IF at = {} THEN [key |-> 0, rule |-> 0]
                            ELSE [key |-> found % Word, rule |-> d[found]]
        BY <1>1, <1>2, <1>7, <3>1 DEF Function
      <3>3. at # {} => found \in at
        OBVIOUS
      <3>4. key \in DOMAIN d => key \in at
        BY <1>4, <2>1
      <3> HIDE DEF f, found
      <3>5. CASE at = {}
        BY <3>2, <3>4, <3>5 DEF Direct
      <3>6. CASE at # {}
        BY <2>2, <3>2, <3>3, <3>6 DEF Direct
      <3> QED
        BY <3>5, <3>6
    <2>4. key \in DOMAIN d => hidx <= h.size - 1
      BY <1>1, <1>2, <2>1
    <2> QED
      BY <1>6, <2>3, <2>4 DEF Direct, f, h
  <1> QED
    BY <1>8, <1>9

LEMMA OneLevelLookup ==
    ASSUME NEW d, DOMAIN d \subseteq 0..(Word - 1), DOMAIN d # {},
           NEW h \in OneLevel(DOMAIN d), NEW key \in 0..(KeyWord - 1)
    PROVE  /\ LookUp(Function(h, d), key) = Direct(d, key)
           /\ h.kind \in {"linear", "mul", "fks"}
  <1>1. CASE IsLinear(DOMAIN d)
    <2>1. h = Linear(DOMAIN d)
      BY <1>1 DEF OneLevel
    <2>2. h.kind = "linear"
      BY <2>1 DEF Linear
    <2>3. LookUp(Function(h, d), key) = Direct(d, key)
      BY <2>1, LinearLookup
    <2> QED
      BY <2>2, <2>3
  <1>2. CASE ~IsLinear(DOMAIN d)
    <2>1. h \in Hashes(Cardinality(DOMAIN d)) /\ IsPerfect(h, DOMAIN d)
      BY <1>2 DEF OneLevel, Earliest
    <2>2. Tried(h)
      BY <2>1, KeysAreFinite, HashesTyped
    <2>3. LookUp(Function(h, d), key) = Direct(d, key)
      BY <2>1, <2>2, HashedLookup
    <2> QED
      BY <2>2, <2>3 DEF Tried
  <1> QED
    BY <1>1, <1>2

-----------------------------------------------------------------------------
(* Of the functions that are tried one at most comes first. *)
LEMMA EarliestIsOne ==
    ASSUME NEW hs, \A h \in hs : Tried(h), NEW g \in Earliest(hs), NEW h \in Earliest(hs)
    PROVE  g = h
  <1> SUFFICES ASSUME g # h  PROVE FALSE
    OBVIOUS
  <1>1. Tried(g) /\ Tried(h) /\ TriedBefore(g, h) /\ TriedBefore(h, g)
    BY DEF Earliest
  <1>2. g.size \in Nat /\ h.size \in Nat /\ g.p \in Nat /\ h.p \in Nat /\ g.k \in Nat /\ h.k \in Nat
    BY <1>1 DEF Tried
  <1> QED
    BY <1>1, <1>2 DEF TriedBefore

LEMMA TopLevelFacts ==
    ASSUME NEW keys, keys \subseteq 0..(Word - 1), keys # {}
    PROVE  /\ \A h \in TopLevel(keys) : Tried(h)
           /\ \A g, h \in TopLevel(keys) : g = h
  <1> DEFINE hs == {h \in Hashes(Cardinality(keys)) : IsWellDistributed(h, keys)}
  <1>1. \A h \in hs : Tried(h)
    BY KeysAreFinite, HashesTyped
  <1>2. TopLevel(keys) = Earliest(hs)
    BY DEF TopLevel
  <1> HIDE DEF hs
  <1>3. \A h \in Earliest(hs) : Tried(h)
    BY <1>1 DEF Earliest
  <1> QED
    BY <1>1, <1>2, <1>3, EarliestIsOne

-----------------------------------------------------------------------------
(* The strengthening: nothing is built before its turn, what is built at   *)
(* one level is built from the dictionary, and of two levels each function *)
(* from its own bucket, until there is one for each.                       *)
Built ==
    \A h \in top :
       /\ \A i \in DOMAIN funcs :
             \E f \in OneLevel(DOMAIN Bucket(h, i)) : funcs[i] = Function(f, Bucket(h, i))
       /\ stage = "done" => DOMAIN funcs = BucketsOf(h)

OneLevelBuilt ==
    \E h \in OneLevel(DOMAIN dict) : funcs = [i \in {0} |-> Function(h, dict)]

Early == {"mod3", "vexdest", "vexdest_1f", "rm", "mask", "unite", "one_level", "two_levels"}

PhashInv ==
    /\ stage \in Early => top = {} /\ DOMAIN funcs = {}
    /\ stage \in {"one_level", "two_levels", "buckets"} => DOMAIN dict # {}
    /\ stage = "buckets" => top # {}
    /\ stage = "done" /\ cnames # {} => DOMAIN dict # {}
    /\ stage = "done" /\ cnames # {} /\ top = {} => OneLevelBuilt
    /\ stage \in {"buckets", "done"} /\ top # {} => top = TopLevel(DOMAIN dict) /\ (KeysFit => Built)

LEMMA PhashInvInit == PhashInit => PhashInv
  BY DEF PhashInit, PhashInv, Early

(* The steps before the search for a hash function build nothing. *)
LEMMA ReplacementsKeepPhashInv ==
    ASSUME PhashInv,
           ReplaceMod \/ ReplaceVexdest210 \/ ReplaceVexdest \/ ReplaceRm \/ ReplaceMask
    PROVE  PhashInv'
  <1>1. /\ stage \in {"mod3", "vexdest", "vexdest_1f", "rm", "mask"}
        /\ stage' \in {"vexdest", "vexdest_1f", "rm", "mask", "unite", "failed"}
        /\ UNCHANGED <<dict, top, funcs>>
    <2>1. CASE ReplaceMod
      BY <2>1 DEF ReplaceMod, Keep
    <2>2. CASE ReplaceVexdest210
      BY <2>2 DEF ReplaceVexdest210, Keep
    <2>3. CASE ReplaceVexdest
      BY <2>3 DEF ReplaceVexdest, Keep
    <2>4. CASE ReplaceRm
      BY <2>4 DEF ReplaceRm, Keep
    <2>5. CASE ReplaceMask
      BY <2>5 DEF ReplaceMask, Keep
    <2> QED
      BY <2>1, <2>2, <2>3, <2>4, <2>5
  <1> QED
    BY <1>1 DEF PhashInv, Early

LEMMA UniteKeepsPhashInv == ASSUME PhashInv, Unite  PROVE PhashInv'
  <1>1. top = {} /\ DOMAIN funcs = {} /\ UNCHANGED <<cnames, top>>
    BY DEF Unite, PhashInv, Early
  <1>2. CASE cnames = {}
    <2>1. stage' \in {"failed", "done"}
      BY <1>2 DEF Unite
    <2> QED
      BY <1>1, <1>2, <2>1 DEF PhashInv, Early
  <1>3. CASE cnames # {}
    <2>1. UNCHANGED funcs
      BY <1>3 DEF Unite
    <2>2. \/ stage' \in {"failed", "conflict"}
          \/ stage' = "one_level" /\ DOMAIN dict' # {}
      BY <1>3 DEF Unite, NoDictionary
    <2> QED
      BY <1>1, <2>1, <2>2 DEF PhashInv, Early
  <1> QED
    BY <1>2, <1>3

LEMMA OneLevelKeepsPhashInv == ASSUME PhashInv, SearchOneLevel  PROVE PhashInv'
  <1>1. top = {} /\ DOMAIN funcs = {} /\ DOMAIN dict # {} /\ UNCHANGED <<cnames, dict, top>>
    BY DEF SearchOneLevel, PhashInv, Early
  <1>2. CASE \E h \in OneLevel(DOMAIN dict) :
                stage' = "done" /\ funcs' = [i \in {0} |-> Function(h, dict)]
    <2>1. stage' = "done" /\ OneLevelBuilt'
      BY <1>1, <1>2 DEF OneLevelBuilt
    <2> QED
      BY <1>1, <2>1 DEF PhashInv, Early
  <1>3. CASE stage' = "two_levels" /\ UNCHANGED funcs
    BY <1>1, <1>3 DEF PhashInv, Early
  <1> QED
    BY <1>2, <1>3 DEF SearchOneLevel

LEMMA TopLevelKeepsPhashInv == ASSUME PhashInv, SearchTopLevel  PROVE PhashInv'
  <1>1. /\ DOMAIN funcs = {} /\ DOMAIN dict # {} /\ UNCHANGED <<cnames, dict, funcs>>
        /\ top' = TopLevel(DOMAIN dict)
        /\ stage' = IF top' = {} THEN "failed" ELSE "buckets"
    BY DEF SearchTopLevel, PhashInv, Early
  <1>2. CASE top' = {}
    BY <1>1, <1>2 DEF PhashInv, Early
  <1>3. CASE top' # {}
    <2>1. Built'
      BY <1>1, <1>3 DEF Built
    <2> QED
      BY <1>1, <1>3, <2>1 DEF PhashInv, Early
  <1> QED
    BY <1>2, <1>3

LEMMA BucketKeepsPhashInv == ASSUME PhashInv, SearchBucket  PROVE PhashInv'
  <1>1. /\ stage = "buckets" /\ top # {} /\ DOMAIN dict # {} /\ top = TopLevel(DOMAIN dict)
        /\ UNCHANGED <<cnames, dict, top>>
    BY DEF SearchBucket, PhashInv, Early
  <1>2. PICK h \in top :
          LET i == Min(BucketsOf(h) \ DOMAIN funcs)
              found == OneLevel(DOMAIN Bucket(h, i))
          IN  \/ \E f \in found :
                    /\ funcs' = [j \in DOMAIN funcs \cup {i} |->
                                   IF j = i THEN Function(f, Bucket(h, i)) ELSE funcs[j]]
                    /\ stage' = IF DOMAIN funcs' = BucketsOf(h) THEN "done" ELSE "buckets"
              \/ found = {} /\ stage' = "failed" /\ UNCHANGED funcs
    BY DEF SearchBucket
  <1> DEFINE i == Min(BucketsOf(h) \ DOMAIN funcs)
  <1> HIDE DEF i
  <1>3. CASE \E f \in OneLevel(DOMAIN Bucket(h, i)) :
               /\ funcs' = [j \in DOMAIN funcs \cup {i} |->
                              IF j = i THEN Function(f, Bucket(h, i)) ELSE funcs[j]]
               /\ stage' = IF DOMAIN funcs' = BucketsOf(h) THEN "done" ELSE "buckets"
    <2>1. stage' \in {"done", "buckets"}
      BY <1>3
    <2>2. KeysFit => Built'
      <3>1. SUFFICES ASSUME KeysFit, NEW g \in top
                     PROVE  /\ \A j \in DOMAIN funcs' :
                                  \E f \in OneLevel(DOMAIN Bucket(g, j)) :
                                     funcs'[j] = Function(f, Bucket(g, j))
                            /\ stage' = "done" => DOMAIN funcs' = BucketsOf(g)
        <4>1. /\ \A g, j : Bucket(g, j)' = Bucket(g, j)
              /\ \A g : BucketsOf(g)' = BucketsOf(g)
              /\ top' = top
          BY <1>1 DEF Bucket, BucketsOf
        <4> QED
          BY <4>1 DEF Built
      <3>2. g = h
        BY <1>1, <3>1, TopLevelFacts DEF KeysFit
      <3>3. \A j \in DOMAIN funcs :
               \E f \in OneLevel(DOMAIN Bucket(g, j)) : funcs[j] = Function(f, Bucket(g, j))
        BY <1>1, <3>1 DEF PhashInv, Built
      <3>4. \A j \in DOMAIN funcs' :
               \E f \in OneLevel(DOMAIN Bucket(g, j)) : funcs'[j] = Function(f, Bucket(g, j))
        BY <1>3, <3>2, <3>3
      <3>5. stage' = "done" => DOMAIN funcs' = BucketsOf(g)
        BY <1>3, <3>2
      <3> QED
        BY <3>4, <3>5
    <2> QED
      BY <1>1, <2>1, <2>2 DEF PhashInv, Early, KeysFit
  <1>4. CASE stage' = "failed"
    BY <1>1, <1>4 DEF PhashInv, Early
  <1> QED
    BY <1>2, <1>3, <1>4 DEF i

LEMMA StutterKeepsPhashInv == ASSUME PhashInv, UNCHANGED phashvars  PROVE PhashInv'
  <1>1. UNCHANGED <<stage, cnames, dict, top, funcs>>
    BY DEF phashvars
  <1>2. Built' = Built
    <2>1. (\A g, j : Bucket(g, j)' = Bucket(g, j)) /\ \A g : BucketsOf(g)' = BucketsOf(g)
      BY <1>1 DEF Bucket, BucketsOf
    <2> QED
      BY <1>1, <2>1 DEF Built
  <1>3. OneLevelBuilt' = OneLevelBuilt /\ KeysFit' = KeysFit
    BY <1>1 DEF OneLevelBuilt, KeysFit
  <1> QED
    BY <1>1, <1>2, <1>3 DEF PhashInv, Early

THEOREM PhashInductive == SpecPhash => []PhashInv
  <1>1. PhashInv /\ [PhashNext]_phashvars => PhashInv'
    BY ReplacementsKeepPhashInv, UniteKeepsPhashInv, OneLevelKeepsPhashInv, TopLevelKeepsPhashInv,
       BucketKeepsPhashInv, StutterKeepsPhashInv DEF PhashNext
  <1> QED
    BY PhashInvInit, <1>1, PTL DEF SpecPhash

-----------------------------------------------------------------------------
(* What is built answers what the dictionary says, for any key C can hold. *)
LEMMA InvGivesDirect ==
    ASSUME PhashInv, stage = "done", cnames # {}, KeysFit, NEW key \in 0..(KeyWord - 1)
    PROVE  AnswerTo(key) = Direct(dict, key)
  <1>1. stage = "done" /\ cnames # {} /\ KeysFit
    OBVIOUS
  <1>2. key \in 0..(KeyWord - 1) /\ DOMAIN dict \subseteq 0..(Word - 1) /\ DOMAIN dict # {}
    BY <1>1 DEF PhashInv, KeysFit
  <1>3. CASE top = {}
    <2>1. PICK h \in OneLevel(DOMAIN dict) : funcs = [i \in {0} |-> Function(h, dict)]
      BY <1>1, <1>3 DEF PhashInv, OneLevelBuilt
    <2>2. LookUp(Function(h, dict), key) = Direct(dict, key) /\ h.kind # "trivial"
      BY <1>2, OneLevelLookup
    <2>3. funcs[0] = Function(h, dict) /\ funcs[0].hash = h
      BY <2>1 DEF Function
    <2> QED
      BY <1>3, <2>2, <2>3 DEF AnswerTo
  <1>4. CASE top # {}
    <2> DEFINE h == CHOOSE h \in top : TRUE
               i == Index(h, key)
               b == Bucket(h, i)
    <2>1. h \in top /\ top = TopLevel(DOMAIN dict) /\ Built
      BY <1>1, <1>4 DEF PhashInv
    <2>2. Tried(h)
      BY <1>2, <2>1, TopLevelFacts
    <2>3. AnswerTo(key) = IF i \in DOMAIN funcs THEN LookUp(funcs[i], key) ELSE 0
      BY <1>4 DEF AnswerTo
    <2> HIDE DEF h, i
    <2>4. DOMAIN funcs = BucketsOf(h)
      BY <1>1, <2>1 DEF Built
    <2>5. key \in DOMAIN dict => i = Apply(h, key)
      BY <1>2, <2>2, IndexIsApply DEF i
    <2>6. /\ DOMAIN b = {x \in DOMAIN dict : Apply(h, x) = i}
          /\ \A x \in DOMAIN b : b[x] = dict[x]
      BY DEF Bucket
    <2> HIDE DEF b
    <2>7. CASE i \in DOMAIN funcs
      <3>1. DOMAIN b # {} /\ DOMAIN b \subseteq 0..(Word - 1)
        BY <1>2, <2>4, <2>6, <2>7 DEF BucketsOf
      <3>2. PICK f \in OneLevel(DOMAIN b) : funcs[i] = Function(f, b)
        BY <2>1, <2>7 DEF Built, b
      <3>3. LookUp(funcs[i], key) = Direct(b, key)
        BY <1>2, <3>1, <3>2, OneLevelLookup
      <3>4. Direct(b, key) = Direct(dict, key)
        BY <2>5, <2>6 DEF Direct
      <3> QED
        BY <2>3, <2>7, <3>3, <3>4
    <2>8. CASE i \notin DOMAIN funcs
      <3>1. key \notin DOMAIN dict
        BY <2>4, <2>5, <2>8 DEF BucketsOf
      <3> QED
        BY <2>3, <2>8, <3>1 DEF Direct
    <2> QED
      BY <2>7, <2>8
  <1> QED
    BY <1>3, <1>4

LEMMA InvGivesLookup == ASSUME PhashInv  PROVE LookupIsDirect
  BY InvGivesDirect, LookedUpAssumption DEF LookupIsDirect, Direct

(* A lookup function that the generator has finished, of one level or two, *)
(* with any of its hash functions and for any dictionary whose keys fit a  *)
(* table, answers the rule of a key that is there and 0 for every other.   *)
THEOREM LookupsAreDirect == SpecPhash => []LookupIsDirect
  BY PhashInductive, InvGivesLookup, PTL

-----------------------------------------------------------------------------
(* The operands that may make a key, and the values they take in it.       *)
Operands == DOMAIN StateSpace \cup Compressed
Space(n) == IF n \in Compressed THEN {0, 1} ELSE StateSpace[n]
Size(n) == 2^Width[n]

LEMMA OperandFacts ==
    /\ IsFiniteSet(Operands)
    /\ \A n \in Operands :
          /\ Order[n] \in Nat /\ Size(n) \in Nat /\ Space(n) \subseteq 0..(Size(n) - 1)
          /\ \A m \in Operands : Order[m] = Order[n] => m = n
<1>1. IsFiniteSet(DOMAIN StateSpace)
  BY OperandAssumption
<1>2. IsFiniteSet(Compressed)
  <2>1. IsFiniteSet({}) 
    BY FS_EmptySet
  <2>2. IsFiniteSet({} \cup {"MOD3"} \cup {"VEXDEST210_7"} \cup {"VEXDEST_1F"} \cup {"RM4"} \cup {"MASK_ZERO"})
    BY <2>1, FS_AddElement
  <2>3. {} \cup {"MOD3"} \cup {"VEXDEST210_7"} \cup {"VEXDEST_1F"} \cup {"RM4"} \cup {"MASK_ZERO"} = Compressed
    BY DEF Compressed
  <2>. QED  BY <2>2, <2>3
<1>3. IsFiniteSet(Operands)
  BY <1>1, <1>2, FS_Union DEF Operands
<1>4. ASSUME NEW n \in Operands
      PROVE  /\ Order[n] \in Nat /\ Size(n) \in Nat /\ Space(n) \subseteq 0..(Size(n) - 1)
             /\ \A m \in Operands : Order[m] = Order[n] => m = n
  <2>1. n \in DOMAIN StateSpace \cup Compressed
    BY DEF Operands
  <2>. QED  BY <2>1, OperandAssumption, Zenon DEF Operands, Space, Size
<1>. QED  BY <1>3, <1>4

(* The first of some operands is one of them. *)
LEMMA FirstOf ==
    ASSUME NEW names \in SUBSET Operands, names # {}
    PROVE  First(names) \in names
<1>. DEFINE T == {Order[n] : n \in names}
<1>1. T \subseteq Nat /\ T # {}
  BY OperandFacts
<1>2. PICK x \in T : \A y \in T : x <= y
  BY <1>1, LeastNatural
<1>3. PICK n \in names : x = Order[n]
  BY <1>2
<1>4. \A m \in names : Order[n] <= Order[m]
  BY <1>2, <1>3
<1>. QED  BY <1>4 DEF First

(* What holds of no operands, and of some if it holds of all but the       *)
(* first, holds of any.                                                    *)
LEMMA AllNames ==
    ASSUME NEW P, {} \in P,
           \A ns \in SUBSET Operands : ns # {} /\ ns \ {First(ns)} \in P => ns \in P
    PROVE  SUBSET Operands \subseteq P
<1>. SUFFICES ASSUME NEW s \in SUBSET Operands, s \notin P
              PROVE  FALSE
  OBVIOUS
<1>. DEFINE T == {Cardinality(ns) : ns \in (SUBSET Operands) \ P}
<1>0. \A ns \in SUBSET Operands : IsFiniteSet(ns) /\ Cardinality(ns) \in Nat
  BY OperandFacts, FS_Subset, FS_CardinalityType
<1>1. T \subseteq Nat /\ T # {}
  BY <1>0
<1>2. PICK k \in T : \A y \in T : k <= y
  <2>. HIDE DEF T
  <2>. QED  BY <1>1, LeastNatural
<1>3. PICK ns \in (SUBSET Operands) \ P : k = Cardinality(ns)
  BY <1>2
<1>. DEFINE rest == ns \ {First(ns)}
<1>4. ns # {} /\ First(ns) \in ns
  BY <1>3, FirstOf
<1>5. Cardinality(rest) = Cardinality(ns) - 1 /\ rest \in SUBSET Operands
  BY <1>0, <1>3, <1>4, FS_RemoveElement
<1>6. rest \in P
  <2>1. ASSUME rest \notin P
        PROVE  FALSE
    <3>1. Cardinality(rest) \in T
      BY <1>5, <2>1
    <3>2. k <= Cardinality(rest)
      BY <1>2, <3>1
    <3>. HIDE DEF rest
    <3>. QED  BY <1>0, <1>3, <1>5, <3>2
  <2>. QED  BY <2>1
<1>. QED  BY <1>3, <1>4, <1>6

(* A function of sets of operands may be defined from its value at all but *)
(* the first.                                                              *)
KeysOver(N, values) ==
    {g \in [SUBSET N -> Nat] :
       \A ns \in SUBSET N :
          g[ns] = IF ns = {} THEN 0
                  ELSE values[First(ns)] + Size(First(ns)) * g[ns \ {First(ns)}]}

LEMMA KeysExist ==
    ASSUME NEW N \in SUBSET Operands, NEW values, \A n \in N : values[n] \in Nat
    PROVE  KeysOver(N, values) # {}
<1>. DEFINE All == (SUBSET N) \X Nat
            Next(ns, x) == values[First(ns)] + Size(First(ns)) * x
            Closed(Z) == /\ <<{}, 0>> \in Z
                         /\ \A ns \in SUBSET N, x \in Nat :
                               ns # {} /\ <<ns \ {First(ns)}, x>> \in Z => <<ns, Next(ns, x)>> \in Z
            R == {p \in All : \A Z \in SUBSET All : Closed(Z) => p \in Z}
            Only(ns) == \E x \in Nat : <<ns, x>> \in R /\ \A u \in Nat : <<ns, u>> \in R => u = x
            P == {ns \in SUBSET Operands : ns \in SUBSET N => Only(ns)}
<1>0. ASSUME NEW ns \in SUBSET N, ns # {}
      PROVE  First(ns) \in ns /\ ns \ {First(ns)} \in SUBSET N /\ \A x \in Nat : Next(ns, x) \in Nat
  <2>1. First(ns) \in ns
    BY <1>0, FirstOf
  <2>2. values[First(ns)] \in Nat /\ Size(First(ns)) \in Nat
    BY <2>1, OperandFacts
  <2>3. \A x \in Nat : Next(ns, x) \in Nat
    BY <2>2
  <2>. QED  BY <2>1, <2>3
<1>. HIDE DEF Next
<1>1. /\ R \subseteq All /\ Closed(R)
      /\ \A Z \in SUBSET All : Closed(Z) => R \subseteq Z
  <2>1. <<{}, 0>> \in R
    <3>1. <<{}, 0>> \in All
      OBVIOUS
    <3>. QED  BY <3>1, Zenon
  <2>2. ASSUME NEW ns \in SUBSET N, NEW x \in Nat, ns # {}, <<ns \ {First(ns)}, x>> \in R
        PROVE  <<ns, Next(ns, x)>> \in R
    <3>1. Next(ns, x) \in Nat
      BY <1>0, <2>2
    <3>2. ASSUME NEW Z \in SUBSET All, Closed(Z)
          PROVE  <<ns, Next(ns, x)>> \in Z
      BY <2>2, <3>2
    <3>3. <<ns, Next(ns, x)>> \in All
      BY <3>1
    <3>. QED  BY <3>2, <3>3, Zenon
  <2>. QED  BY <2>1, <2>2
<1>. HIDE DEF R
<1>2. {} \in P
  <2>1. ASSUME NEW u \in Nat, <<{}, u>> \in R, u # 0
        PROVE  FALSE
    <3>. DEFINE Z == R \ {<<{}, u>>}
    <3>1. Z \in SUBSET All
      BY <1>1
    <3>2. Closed(Z)
      BY <1>1, <2>1
    <3>3. R \subseteq Z
      BY <1>1, <3>1, <3>2
    <3>. QED  BY <2>1, <3>3
  <2>2. <<{}, 0>> \in R
    BY <1>1
  <2>. QED  BY <2>1, <2>2
<1>3. ASSUME NEW ns \in SUBSET Operands, ns # {}, ns \ {First(ns)} \in P
      PROVE  ns \in P
  <2>. SUFFICES ASSUME ns \in SUBSET N
                PROVE  Only(ns)
    OBVIOUS
  <2>0. ns \ {First(ns)} \in SUBSET N
    OBVIOUS
  <2>1. PICK t \in Nat : /\ <<ns \ {First(ns)}, t>> \in R
                         /\ \A u \in Nat : <<ns \ {First(ns)}, u>> \in R => u = t
    BY <1>3, <2>0
  <2>. DEFINE v == Next(ns, t)
  <2>2. v \in Nat /\ <<ns, v>> \in R
    BY <1>0, <1>1, <1>3, <2>1
  <2>3. ASSUME NEW u \in Nat, <<ns, u>> \in R, u # v
        PROVE  FALSE
    <3>. DEFINE Z == R \ {<<ns, u>>}
    <3>1. Z \in SUBSET All
      BY <1>1
    <3>2. Closed(Z)
      <4>1. <<{}, 0>> \in Z
        BY <1>1, <1>3
      <4>2. ASSUME NEW r \in SUBSET N, NEW w \in Nat, r # {}, <<r \ {First(r)}, w>> \in Z
            PROVE  <<r, Next(r, w)>> \in Z
        <5>1. <<r, Next(r, w)>> \in R
          BY <1>1, <4>2
        <5>2. CASE r = ns
          BY <2>1, <2>3, <4>2, <5>1, <5>2
        <5>3. CASE r # ns
          BY <5>1, <5>3
        <5>. QED  BY <5>2, <5>3
      <4>. QED  BY <4>1, <4>2
    <3>3. R \subseteq Z
      BY <1>1, <3>1, <3>2
    <3>. QED  BY <2>3, <3>3
  <2>. HIDE DEF v
  <2>. QED  BY <2>2, <2>3
<1>4. SUBSET Operands \subseteq P
  <2>. HIDE DEF P
  <2>. QED  BY <1>2, <1>3, AllNames
<1>. DEFINE g == [ns \in SUBSET N |-> CHOOSE x \in Nat : <<ns, x>> \in R]
<1>5. ASSUME NEW ns \in SUBSET N
      PROVE  g[ns] \in Nat /\ <<ns, g[ns]>> \in R /\ \A u \in Nat : <<ns, u>> \in R => u = g[ns]
  BY <1>4
<1>6. g \in [SUBSET N -> Nat]
  BY <1>5
<1>7. ASSUME NEW ns \in SUBSET N, ns # {}
      PROVE  g[ns] = Next(ns, g[ns \ {First(ns)}])
  <2>1. ns \ {First(ns)} \in SUBSET N
    OBVIOUS
  <2>2. <<ns \ {First(ns)}, g[ns \ {First(ns)}]>> \in R /\ g[ns \ {First(ns)}] \in Nat
    BY <1>5, <2>1
  <2>. HIDE DEF g
  <2>3. Next(ns, g[ns \ {First(ns)}]) \in Nat
    BY <1>0, <1>7, <2>2
  <2>4. <<ns, Next(ns, g[ns \ {First(ns)}])>> \in R
    BY <1>1, <1>7, <2>2
  <2>. QED  BY <1>5, <2>3, <2>4
<1>8. g[{}] = 0
  BY <1>1, <1>5
<1>. HIDE DEF g
<1>9. \A ns \in SUBSET N :
         g[ns] = IF ns = {} THEN 0 ELSE values[First(ns)] + Size(First(ns)) * g[ns \ {First(ns)}]
  BY <1>7, <1>8 DEF Next
<1>10. g \in KeysOver(N, values)
  BY <1>6, <1>9, Zenon DEF KeysOver
<1>. QED  BY <1>10

(* The key of some operands, from that of all but the first. *)
LEMMA KeyFacts ==
    ASSUME NEW N \in SUBSET Operands, NEW values, \A n \in N : values[n] \in Nat
    PROVE  \E g \in KeysOver(N, values) : KeyOf(N, values) = g[N]
<1>1. PICK g \in KeysOver(N, values) : TRUE
  BY KeysExist
<1>. DEFINE def(h) == [ns \in SUBSET N |->
               IF ns = {} THEN 0
               ELSE values[First(ns)] + 2^Width[First(ns)] * h[ns \ {First(ns)}]]
            key == CHOOSE h : h = def(h)
<1>2. g = def(g)
  <2>1. g \in [SUBSET N -> Nat]
    BY <1>1 DEF KeysOver
  <2>2. \A ns \in SUBSET N : g[ns] = def(g)[ns]
    BY <1>1, Zenon DEF KeysOver, Size
  <2>. QED  BY <2>1, <2>2, Zenon
<1>3. key = def(key)
  BY <1>2, Zenon
<1>4. KeyOf(N, values) = key[N]
  BY Zenon DEF KeyOf
<1>. HIDE DEF key
<1>5. \A ns \in SUBSET N :
         key[ns] = IF ns = {} THEN 0 ELSE values[First(ns)] + Size(First(ns)) * key[ns \ {First(ns)}]
  BY <1>3, Zenon DEF Size
<1>. DEFINE P == {ns \in SUBSET Operands : ns \in SUBSET N => key[ns] \in Nat}
<1>6. {} \in P
  <2>1. {} \in SUBSET N
    OBVIOUS
  <2>2. key[{}] = 0
    BY <1>5, <2>1, Zenon
  <2>. QED  BY <2>2
<1>7. ASSUME NEW ns \in SUBSET Operands, ns # {}, ns \ {First(ns)} \in P
      PROVE  ns \in P
  <2>. SUFFICES ASSUME ns \in SUBSET N
                PROVE  key[ns] \in Nat
    OBVIOUS
  <2>1. First(ns) \in N /\ Size(First(ns)) \in Nat /\ values[First(ns)] \in Nat
    BY <1>7, FirstOf, OperandFacts
  <2>2. key[ns \ {First(ns)}] \in Nat
    BY <1>7
  <2>3. key[ns] = values[First(ns)] + Size(First(ns)) * key[ns \ {First(ns)}]
    BY <1>5, <1>7
  <2>. QED  BY <2>1, <2>2, <2>3
<1>8. \A ns \in SUBSET N : key[ns] \in Nat
  <2>1. SUBSET Operands \subseteq P
    <3>. HIDE DEF P
    <3>. QED  BY <1>6, <1>7, AllNames
  <2>. QED  BY <2>1
<1>9. key \in [SUBSET N -> Nat]
  <2>1. key = [ns \in SUBSET N |-> def(key)[ns]]
    BY <1>3, Zenon
  <2>. HIDE DEF def
  <2>. QED  BY <1>8, <2>1
<1>10. key \in KeysOver(N, values)
  BY <1>5, <1>9, Zenon DEF KeysOver
<1>. QED  BY <1>4, <1>10

LEMMA FieldsApart ==
    ASSUME NEW n \in Nat, NEW a \in 0..(n - 1), NEW b \in 0..(n - 1), NEW x \in Nat, NEW y \in Nat,
           a + n * x = b + n * y
    PROVE  a = b /\ x = y
<1>1. n \in Nat \ {0} /\ a + n * x \in Nat
  OBVIOUS
<1>2. (a + n * x) \div n = x /\ (a + n * x) % n = a
  <2>1. a + n * x = n * x + a
    OBVIOUS
  <2>. QED  BY <1>1, <2>1, DivUnique
<1>3. (b + n * y) \div n = y /\ (b + n * y) % n = b
  <2>1. b + n * y = n * y + b /\ b + n * y \in Nat
    OBVIOUS
  <2>. QED  BY <1>1, <2>1, DivUnique
<1>. QED  BY <1>2, <1>3

(* Two tuples with one key are the same: no field of a key reaches into    *)
(* the next.                                                               *)
LEMMA KeysAreDistinct ==
    ASSUME NEW N \in SUBSET Operands, NEW s, NEW t, \A n \in N : s[n] \in Space(n) /\ t[n] \in Space(n),
           KeyOf(N, s) = KeyOf(N, t)
    PROVE  \A n \in N : s[n] = t[n]
<1>1. \A n \in N : /\ Size(n) \in Nat
                    /\ s[n] \in 0..(Size(n) - 1) /\ t[n] \in 0..(Size(n) - 1)
                    /\ s[n] \in Nat /\ t[n] \in Nat
  <2>. SUFFICES ASSUME NEW n \in N
                PROVE  /\ Size(n) \in Nat
                       /\ s[n] \in 0..(Size(n) - 1) /\ t[n] \in 0..(Size(n) - 1)
                       /\ s[n] \in Nat /\ t[n] \in Nat
    OBVIOUS
  <2>1. Size(n) \in Nat /\ Space(n) \subseteq 0..(Size(n) - 1)
    BY OperandFacts
  <2>. QED  BY <2>1
<1>2. PICK g \in KeysOver(N, s) : KeyOf(N, s) = g[N]
  BY <1>1, KeyFacts
<1>3. PICK h \in KeysOver(N, t) : KeyOf(N, t) = h[N]
  BY <1>1, KeyFacts
<1>4. /\ g \in [SUBSET N -> Nat] /\ h \in [SUBSET N -> Nat]
      /\ \A ns \in SUBSET N : ns # {} =>
            /\ g[ns] = s[First(ns)] + Size(First(ns)) * g[ns \ {First(ns)}]
            /\ h[ns] = t[First(ns)] + Size(First(ns)) * h[ns \ {First(ns)}]
  BY <1>2, <1>3 DEF KeysOver
<1>. DEFINE P == {ns \in SUBSET Operands : ns \in SUBSET N /\ g[ns] = h[ns] => \A n \in ns : s[n] = t[n]}
<1>5. {} \in P
  OBVIOUS
<1>6. ASSUME NEW ns \in SUBSET Operands, ns # {}, ns \ {First(ns)} \in P
      PROVE  ns \in P
  <2>. SUFFICES ASSUME ns \in SUBSET N, g[ns] = h[ns]
                PROVE  \A n \in ns : s[n] = t[n]
    OBVIOUS
  <2>. DEFINE f == First(ns)
              rest == ns \ {f}
              a == s[f]
              b == t[f]
              x == g[rest]
              y == h[rest]
              z == Size(f)
  <2>1. f \in ns
    BY <1>6, FirstOf
  <2>2. rest \in SUBSET N /\ x \in Nat /\ y \in Nat
    BY <1>4
  <2>3. z \in Nat /\ a \in 0..(z - 1) /\ b \in 0..(z - 1)
    BY <1>1, <2>1
  <2>4. a + z * x = b + z * y
    BY <1>4, <1>6
  <2>5. a = b /\ x = y
    <3>. HIDE DEF a, b, x, y, z
    <3>. QED  BY <2>2, <2>3, <2>4, FieldsApart
  <2>6. \A n \in rest : s[n] = t[n]
    BY <1>6, <2>2, <2>5
  <2>. QED  BY <2>5, <2>6
<1>7. SUBSET Operands \subseteq P
  <2>. HIDE DEF P
  <2>. QED  BY <1>5, <1>6, AllNames
<1>8. N \in P
  BY <1>7
<1>. QED  BY <1>2, <1>3, <1>8

(* A key is a number. *)
LEMMA KeyIsNatural ==
    ASSUME NEW N \in SUBSET Operands, NEW s, \A n \in N : s[n] \in Space(n)
    PROVE  KeyOf(N, s) \in Nat
<1>1. \A n \in N : s[n] \in Nat
  <2>. SUFFICES ASSUME NEW n \in N
                PROVE  s[n] \in Nat
    OBVIOUS
  <2>1. Size(n) \in Nat /\ Space(n) \subseteq 0..(Size(n) - 1)
    BY OperandFacts
  <2>. QED  BY <2>1
<1>2. PICK g \in KeysOver(N, s) : KeyOf(N, s) = g[N]
  BY <1>1, KeyFacts
<1>. QED  BY <1>2 DEF KeysOver

-----------------------------------------------------------------------------
(* What a name of the key stands for: itself, or the operands that gave    *)
(* way to it.                                                              *)
Of(n) ==
    CASE n = "MOD3"         -> {"MOD"}
      [] n = "VEXDEST210_7" -> {"VEXDEST210"}
      [] n = "VEXDEST_1F"   -> {"VEXDEST210", "VEXDEST3", "VEXDEST4"}
      [] n = "RM4"          -> {"RM"}
      [] n = "MASK_ZERO"    -> {"MASK"}
      [] OTHER              -> {n}

Readings(ops) ==
    {v \in [ops -> UNION {StateSpace[op] : op \in ops}] : \A op \in ops : v[op] \in StateSpace[op]}
Holds(t, v) == (v[t.operand] = t.value) <=> (t.test = "eq")

(* Values of a name say what the tests of the operands it stands for say,  *)
(* and no value is there that the operands could not give.                 *)
Means(n, values, tests) ==
    \A w \in Readings(Of(n)) :
       Accessor(n, w) \in values <=> \A t \in tests : t.operand \in Of(n) => Holds(t, w)
Reached(n, values) == \A x \in values : \E w \in Readings(Of(n)) : Accessor(n, w) = x

ValuesOf(t) == IF t.test = "eq" THEN {t.value} ELSE StateSpace[t.operand] \ {t.value}

WellFormed(p) ==
    /\ DOMAIN p = {"tests", "rule", "constraints"}
    /\ p.tests \subseteq Tests
    /\ \A t, u \in p.tests : t.operand = u.operand => t = u
    /\ \A t \in p.tests :
          /\ t.value \in StateSpace[t.operand]
          /\ t.operand = "VEXDEST210" => t.test = "eq"
          /\ t.operand = "VEXDEST4" => t.test = "eq" /\ t.value = 0
    /\ \A op \in DOMAIN StateSpace : op \in DOMAIN p.constraints <=> \E t \in p.tests : t.operand = op
    /\ \A t \in p.tests : p.constraints[t.operand] = ValuesOf(t)

(* The names of a key stand for the operands that are tested, each for its *)
(* own, and the values of a pattern mean its tests.                        *)
KeyMeaning ==
    /\ ptrns # {} /\ IsFiniteSet(ptrns) /\ \A p \in ptrns : WellFormed(p)
    /\ stage = "mod3" => cnames \cap Compressed = {}
    /\ cnames \subseteq Operands /\ UNION {Of(n) : n \in cnames} = Tested
    /\ \A m, n \in cnames : Of(m) \cap Of(n) # {} => m = n
    /\ \A n \in cnames : \A p \in ptrns :
          /\ Means(n, Allowed(p, n), p.tests) /\ Reached(n, Allowed(p, n))
          /\ n \in Compressed => n \in DOMAIN p.constraints
          /\ n = "VEXDEST210_7" => p.constraints[n] \in {{1}, {0, 1}}

LEMMA NameFacts ==
    /\ \A n \in DOMAIN StateSpace : n \notin Compressed
    /\ \A n : n \notin Compressed => Of(n) = {n} /\ \A v : Accessor(n, v) = v[n]
    /\ \A n : Of(n) # {}
<1>1. \A n \in DOMAIN StateSpace : n \notin Compressed
  BY OperandAssumption
<1>2. \A n : n \notin Compressed => Of(n) = {n} /\ \A v : Accessor(n, v) = v[n]
  BY DEF Compressed, Of, Accessor
<1>3. \A n : Of(n) # {}
  BY DEF Of
<1>. QED  BY <1>1, <1>2, <1>3

(* A name sees no operand but its own. *)
LEMMA AccessorSees ==
    ASSUME NEW n, NEW v, NEW w, \A op \in Of(n) : v[op] = w[op]
    PROVE  Accessor(n, v) = Accessor(n, w)
  BY DEF Of, Accessor

LEMMA TheChoice ==
    ASSUME NEW ops, NEW v, \A op \in ops : v[op] \in StateSpace[op]
    PROVE  [op \in ops |-> v[op]] \in Readings(ops)
  BY DEF Readings

(* A pattern matches when it allows what the names of the key read. *)
LEMMA MatchingIsAllowed ==
    ASSUME KeyMeaning, NEW p \in ptrns, NEW v \in Valuations
    PROVE  p \in Matching(v) <=> \A n \in cnames : Accessor(n, v) \in Allowed(p, n)
<1>1. \A op \in Tested : v[op] \in StateSpace[op]
  BY DEF Valuations
<1>2. ASSUME NEW n \in cnames
      PROVE  Accessor(n, v) \in Allowed(p, n) <=> \A t \in p.tests : t.operand \in Of(n) => Holds(t, v)
  <2>. DEFINE w == [op \in Of(n) |-> v[op]]
  <2>1. Of(n) \subseteq Tested
    BY DEF KeyMeaning
  <2>2. w \in Readings(Of(n))
    BY <1>1, <2>1, TheChoice
  <2>3. \A op \in Of(n) : v[op] = w[op]
    OBVIOUS
  <2>4. Accessor(n, v) = Accessor(n, w)
    BY <2>3, AccessorSees
  <2>5. \A t \in p.tests : t.operand \in Of(n) => (Holds(t, v) <=> Holds(t, w))
    BY <2>3 DEF Holds
  <2>. HIDE DEF w
  <2>6. Accessor(n, w) \in Allowed(p, n) <=> \A t \in p.tests : t.operand \in Of(n) => Holds(t, w)
    BY <2>2 DEF KeyMeaning, Means
  <2>. QED  BY <2>4, <2>5, <2>6
<1>3. p \in Matching(v) <=> \A t \in p.tests : Holds(t, v)
  BY Zenon DEF Matching, Holds
<1>4. \A t \in p.tests : \E n \in cnames : t.operand \in Of(n)
  <2>1. \A t \in p.tests : t.operand \in Tested
    BY DEF Tested
  <2>. QED  BY <2>1 DEF KeyMeaning
<1>. QED  BY <1>2, <1>3, <1>4, Zenon

(* Every tuple of a pattern is what the names of the key read of some      *)
(* operands.                                                               *)
LEMMA TupleIsRead ==
    ASSUME KeyMeaning, NEW p \in ptrns, NEW s, \A n \in cnames : s[n] \in Allowed(p, n)
    PROVE  \E v \in Valuations : \A n \in cnames : Accessor(n, v) = s[n]
<1>. DEFINE w(n) == CHOOSE x \in Readings(Of(n)) : Accessor(n, x) = s[n]
            Name(op) == CHOOSE n \in cnames : op \in Of(n)
            v == [op \in Tested |-> w(Name(op))[op]]
<1>1. ASSUME NEW n \in cnames
      PROVE  w(n) \in Readings(Of(n)) /\ Accessor(n, w(n)) = s[n]
  BY DEF KeyMeaning, Reached
<1>. HIDE DEF w
<1>2. ASSUME NEW n \in cnames, NEW op \in Of(n)
      PROVE  op \in Tested /\ Name(op) = n
  <2>1. op \in Tested
    BY DEF KeyMeaning
  <2>2. Name(op) \in cnames /\ op \in Of(Name(op))
    OBVIOUS
  <2>. HIDE DEF Name
  <2>. QED  BY <2>1, <2>2 DEF KeyMeaning
<1>3. \A op \in Tested : \E n \in cnames : op \in Of(n)
  BY DEF KeyMeaning
<1>4. \A op \in Tested : v[op] \in StateSpace[op]
  <2>. SUFFICES ASSUME NEW op \in Tested
                PROVE  v[op] \in StateSpace[op]
    OBVIOUS
  <2>1. PICK n \in cnames : op \in Of(n)
    BY <1>3
  <2>2. v[op] = w(n)[op]
    BY <1>2, <2>1
  <2>. QED  BY <1>1, <2>1, <2>2 DEF Readings
<1>5. v \in Valuations
  <2>1. v = [op \in Tested |-> v[op]]
    OBVIOUS
  <2>. HIDE DEF v
  <2>. QED  BY <1>4, <2>1 DEF Valuations
<1>6. ASSUME NEW n \in cnames
      PROVE  Accessor(n, v) = s[n]
  <2>1. \A op \in Of(n) : v[op] = w(n)[op]
    BY <1>2
  <2>. HIDE DEF v
  <2>2. Accessor(n, v) = Accessor(n, w(n))
    BY <2>1, AccessorSees
  <2>. QED  BY <1>1, <2>2
<1>. HIDE DEF v
<1>. QED  BY <1>5, <1>6

-----------------------------------------------------------------------------
LEMMA ValuesAre ==
    ASSUME NEW tests, \A t, u \in tests : t.operand = u.operand => t = u, NEW t \in tests
    PROVE  Values(tests, t.operand) = ValuesOf(t)
<1>1. {u \in tests : u.operand = t.operand} = {t}
  OBVIOUS
<1>. QED  BY <1>1 DEF Values, ValuesOf

(* An operand itself means its tests. *)
LEMMA OperandMeans ==
    ASSUME NEW p, WellFormed(p), NEW n \in DOMAIN StateSpace
    PROVE  Means(n, Allowed(p, n), p.tests) /\ Reached(n, Allowed(p, n))
<1>1. n \notin Compressed /\ Of(n) = {n} /\ \A v : Accessor(n, v) = v[n]
  BY NameFacts
<1>2. \A w \in Readings(Of(n)) : w[n] \in StateSpace[n]
  BY <1>1 DEF Readings
<1>3. ASSUME NEW x \in StateSpace[n]
      PROVE  \E w \in Readings(Of(n)) : Accessor(n, w) = x
  <2>. DEFINE f == [op \in {n} |-> x]
  <2>1. f \in Readings(Of(n)) /\ f[n] = x
    BY <1>1 DEF Readings
  <2>. HIDE DEF f
  <2>. QED  BY <1>1, <2>1
<1>4. CASE \E t \in p.tests : t.operand = n
  <2>1. PICK t \in p.tests : t.operand = n
    BY <1>4
  <2>2. Allowed(p, n) = ValuesOf(t) /\ t.value \in StateSpace[n] /\ t.test \in {"eq", "ne"}
    BY <2>1 DEF WellFormed, Allowed, Tests
  <2>3. Allowed(p, n) \subseteq StateSpace[n]
    BY <2>1, <2>2 DEF ValuesOf
  <2>4. \A u \in p.tests : u.operand = n => u = t
    BY <2>1 DEF WellFormed
  <2>5. Means(n, Allowed(p, n), p.tests)
    <3>. SUFFICES ASSUME NEW w \in Readings(Of(n))
                  PROVE  w[n] \in Allowed(p, n) <=> Holds(t, w)
      BY <1>1, <2>1, <2>4 DEF Means
    <3>1. w[n] \in StateSpace[n]
      BY <1>2
    <3>. QED  BY <2>1, <2>2, <3>1 DEF ValuesOf, Holds
  <2>. QED  BY <1>3, <2>3, <2>5 DEF Reached
<1>5. CASE ~\E t \in p.tests : t.operand = n
  <2>1. Allowed(p, n) = StateSpace[n]
    BY <1>5 DEF WellFormed, Allowed
  <2>2. Means(n, Allowed(p, n), p.tests)
    BY <1>1, <1>2, <1>5, <2>1 DEF Means
  <2>. QED  BY <1>3, <2>1, <2>2 DEF Reached
<1>. QED  BY <1>4, <1>5

-----------------------------------------------------------------------------
LEMMA FiniteImage ==
    ASSUME NEW S, IsFiniteSet(S), NEW f
    PROVE  IsFiniteSet({f[x] : x \in S})
<1>. DEFINE T == {f[x] : x \in S}
            g == [x \in S |-> f[x]]
<1>1. g \in Surjection(S, T)
  BY DEF Surjection
<1>2. IsFiniteSet(T)
  <2>. HIDE DEF g, T
  <2>. QED  BY <1>1, FS_Surjection
<1>. QED  BY <1>2

LEMMA MeaningInit == PhashInit => KeyMeaning
<1>. SUFFICES ASSUME PhashInit
              PROVE  KeyMeaning
  OBVIOUS
<1>1. PICK g \in Groups : ptrns = {Pattern(p) : p \in g}
  BY DEF PhashInit
<1>2. ptrns # {} /\ IsFiniteSet(ptrns)
  <2>. DEFINE f == [p \in g |-> Pattern(p)]
  <2>1. {f[p] : p \in g} = {Pattern(p) : p \in g}
    OBVIOUS
  <2>2. g # {} /\ IsFiniteSet(g)
    BY GrammarAssumption
  <2>. HIDE DEF f
  <2>3. IsFiniteSet({f[p] : p \in g})
    BY <2>2, FiniteImage
  <2>. QED  BY <1>1, <2>1, <2>2, <2>3
<1>3. ASSUME NEW p \in ptrns
      PROVE  WellFormed(p) /\ DOMAIN p.constraints = {t.operand : t \in p.tests}
  <2>1. PICK q \in g : p = Pattern(q)
    BY <1>1
  <2>2. /\ p.tests = q.tests /\ p.constraints = Constraints(q.tests)
        /\ DOMAIN p = {"tests", "rule", "constraints"}
    BY <2>1 DEF Pattern
  <2>3. /\ q.tests \subseteq Tests
        /\ \A t, u \in q.tests : t.operand = u.operand => t = u
    BY GroupAssumption
  <2>4. \A t \in q.tests :
          /\ t.value \in StateSpace[t.operand]
          /\ t.operand = "VEXDEST210" => t.test = "eq"
          /\ t.operand = "VEXDEST4" => t.test = "eq" /\ t.value = 0
    BY GrammarAssumption
  <2>5. \A t \in q.tests : p.constraints[t.operand] = ValuesOf(t)
    BY <2>2, <2>3, ValuesAre DEF Constraints
  <2>6. DOMAIN p.constraints = {t.operand : t \in p.tests}
    BY <2>2 DEF Constraints
  <2>. QED  BY <2>2, <2>3, <2>4, <2>5, <2>6 DEF WellFormed
<1>4. cnames = Tested
  BY <1>3 DEF PhashInit, Tested
<1>5. \A n \in cnames : n \in DOMAIN StateSpace
  BY <1>3, <1>4 DEF Tested, WellFormed, Tests
<1>6. \A n \in cnames : n \notin Compressed /\ Of(n) = {n} /\ n # "VEXDEST210_7"
  BY <1>5, NameFacts DEF Compressed
<1>7. cnames \subseteq Operands /\ UNION {Of(n) : n \in cnames} = Tested
  BY <1>4, <1>5, <1>6 DEF Operands
<1>8. \A m, n \in cnames : Of(m) \cap Of(n) # {} => m = n
  BY <1>6
<1>9. \A n \in cnames : \A p \in ptrns : Means(n, Allowed(p, n), p.tests) /\ Reached(n, Allowed(p, n))
  BY <1>3, <1>5, OperandMeans
<1>. QED  BY <1>2, <1>3, <1>6, <1>7, <1>8, <1>9 DEF KeyMeaning

(* One name may give way to others if the new one means what they meant.   *)
LEMMA ReplaceKeepsMeaning ==
    ASSUME KeyMeaning, stage' # "mod3", NEW old \in SUBSET cnames, NEW new \in Compressed, NEW vals,
           cnames' = (cnames \ old) \cup {new}, ptrns' = {Constrained(p, new, vals[p]) : p \in ptrns},
           Of(new) = UNION {Of(n) : n \in old},
           \A p \in ptrns :
              /\ Means(new, vals[p], p.tests) /\ Reached(new, vals[p])
              /\ new = "VEXDEST210_7" => vals[p] \in {{1}, {0, 1}}
    PROVE  KeyMeaning'
<1>. DEFINE c == [p \in ptrns |-> Constrained(p, new, vals[p])]
<1>1. ASSUME NEW p \in ptrns
      PROVE  /\ c[p].tests = p.tests /\ DOMAIN c[p] = {"tests", "rule", "constraints"}
             /\ DOMAIN c[p].constraints = DOMAIN p.constraints \cup {new}
             /\ c[p].constraints[new] = vals[p]
             /\ \A n \in DOMAIN p.constraints : n # new => c[p].constraints[n] = p.constraints[n]
  <2>1. DOMAIN p = {"tests", "rule", "constraints"}
    BY DEF KeyMeaning, WellFormed
  <2>. QED  BY <2>1 DEF Constrained
<1>2. ptrns' = {c[p] : p \in ptrns}
  OBVIOUS
<1>. HIDE DEF c
<1>3. ptrns' # {} /\ IsFiniteSet(ptrns')
  <2>1. ptrns # {} /\ IsFiniteSet(ptrns)
    BY DEF KeyMeaning
  <2>2. IsFiniteSet({c[p] : p \in ptrns})
    BY <2>1, FiniteImage
  <2>3. ptrns' # {}
    BY <1>2, <2>1
  <2>. QED  BY <1>2, <2>2, <2>3, Zenon
<1>4. ASSUME NEW p \in ptrns
      PROVE  WellFormed(c[p])
  <2>1. WellFormed(p)
    BY DEF KeyMeaning
  <2>2. \A op \in DOMAIN StateSpace : op # new
    BY NameFacts
  <2>3. \A t \in p.tests : t.operand # new
    BY <2>1, <2>2 DEF WellFormed, Tests
  <2>4. \A t \in p.tests : t.operand \in DOMAIN p.constraints
    BY <2>1 DEF WellFormed, Tests
  <2>. QED  BY <1>1, <2>1, <2>2, <2>3, <2>4 DEF WellFormed
<1>5. Tested' = Tested
  BY <1>1, <1>2, SMTT(30) DEF Tested
<1>6. cnames' \subseteq Operands /\ UNION {Of(n) : n \in cnames'} = Tested
  <2>1. UNION {Of(n) : n \in cnames'} = UNION {Of(n) : n \in cnames}
    OBVIOUS
  <2>. QED  BY <2>1 DEF KeyMeaning, Operands
<1>7. ASSUME NEW m \in cnames', NEW n \in cnames', Of(m) \cap Of(n) # {}
      PROVE  m = n
  <2>1. \A k, l \in cnames : Of(k) \cap Of(l) # {} => k = l
    BY DEF KeyMeaning
  <2>2. \A k \in cnames \ old : Of(k) \cap Of(new) = {}
    <3>. SUFFICES ASSUME NEW k \in cnames \ old, NEW op \in Of(k), op \in Of(new)
                  PROVE  FALSE
      OBVIOUS
    <3>1. PICK l \in old : op \in Of(l)
      OBVIOUS
    <3>. QED  BY <2>1, <3>1
  <2>. QED  BY <1>7, <2>1, <2>2
<1>8. ASSUME NEW n \in cnames', NEW p \in ptrns
      PROVE  /\ Means(n, Allowed(c[p], n), p.tests) /\ Reached(n, Allowed(c[p], n))
             /\ n \in Compressed => n \in DOMAIN c[p].constraints
             /\ n = "VEXDEST210_7" => c[p].constraints[n] \in {{1}, {0, 1}}
  <2>1. CASE n = new
    <3>1. Allowed(c[p], n) = vals[p]
      BY <1>1, <2>1 DEF Allowed
    <3>. QED  BY <1>1, <2>1, <3>1
  <2>2. CASE n # new
    <3>1. n \in cnames
      BY <2>2
    <3>2. /\ Means(n, Allowed(p, n), p.tests) /\ Reached(n, Allowed(p, n))
          /\ n \in Compressed => n \in DOMAIN p.constraints
          /\ n = "VEXDEST210_7" => p.constraints[n] \in {{1}, {0, 1}}
      BY <3>1 DEF KeyMeaning
    <3>3. Allowed(c[p], n) = Allowed(p, n)
      BY <1>1, <2>2 DEF Allowed
    <3>4. "VEXDEST210_7" \in Compressed
      BY DEF Compressed
    <3>. QED  BY <1>1, <2>2, <3>2, <3>3, <3>4
  <2>. QED  BY <2>1, <2>2
<1>9. \A q \in ptrns' : WellFormed(q)
  BY <1>2, <1>4
<1>10. \A n \in cnames' : \A q \in ptrns' :
          /\ Means(n, Allowed(q, n), q.tests) /\ Reached(n, Allowed(q, n))
          /\ n \in Compressed => n \in DOMAIN q.constraints
          /\ n = "VEXDEST210_7" => q.constraints[n] \in {{1}, {0, 1}}
  BY <1>1, <1>2, <1>8
<1>. QED  BY <1>3, <1>5, <1>6, <1>7, <1>9, <1>10 DEF KeyMeaning

LEMMA OneChoice ==
    ASSUME NEW op, NEW x \in StateSpace[op]
    PROVE  \E w \in Readings({op}) : w[op] = x
<1>. DEFINE f == [o \in {op} |-> x]
<1>1. f \in Readings({op}) /\ f[op] = x
  BY DEF Readings
<1>. HIDE DEF f
<1>. QED  BY <1>1

LEMMA AccessorOf ==
    ASSUME NEW w
    PROVE  /\ Accessor("MOD3", w) = IF w["MOD"] = 3 THEN 1 ELSE 0
           /\ Accessor("RM4", w) = IF w["RM"] = 4 THEN 1 ELSE 0
           /\ Accessor("MASK_ZERO", w) = IF w["MASK"] = 0 THEN 1 ELSE 0
           /\ Accessor("VEXDEST210_7", w) = IF w["VEXDEST210"] = 7 THEN 1 ELSE 0
           /\ Accessor("VEXDEST_1F", w) =
                IF w["VEXDEST210"] = 7 /\ w["VEXDEST3"] = 1 /\ w["VEXDEST4"] = 0 THEN 1 ELSE 0
  BY DEF Accessor

LEMMA ModKeepsMeaning == ASSUME KeyMeaning, ReplaceMod  PROVE KeyMeaning'
<1>1. CASE \A p \in ptrns : HasTest(p, "MOD", "eq", 3) \/ HasTest(p, "MOD", "ne", 3)
  <2>. DEFINE vals == [p \in ptrns |-> IF HasTest(p, "MOD", "eq", 3) THEN {1} ELSE {0}]
  <2>1. /\ stage = "mod3" /\ stage' # "mod3"
        /\ cnames' = (cnames \ {"MOD"}) \cup {"MOD3"}
        /\ ptrns' = {Constrained(p, "MOD3", vals[p]) : p \in ptrns}
    BY <1>1 DEF ReplaceMod, Replace
  <2>2. ASSUME NEW p \in ptrns
        PROVE  "MOD" \in DOMAIN StateSpace /\ "MOD" \in Tested
    <3>1. PICK t \in p.tests : t.operand = "MOD"
      BY <1>1 DEF HasTest
    <3>. QED  BY <3>1 DEF KeyMeaning, WellFormed, Tests, Tested
  <2>3. "MOD" \in cnames /\ "MOD" \in DOMAIN StateSpace
    <3>1. PICK n \in cnames : "MOD" \in Of(n)
      BY <2>2 DEF KeyMeaning
    <3>2. n \notin Compressed
      BY <2>1 DEF KeyMeaning
    <3>. QED  BY <2>2, <3>1, <3>2, NameFacts DEF KeyMeaning
  <2>4. "MOD3" \in Compressed /\ Of("MOD3") = {"MOD"} /\ Of("MOD") = {"MOD"}
    BY DEF Compressed, Of
  <2>5. ASSUME NEW p \in ptrns
        PROVE  Means("MOD3", vals[p], p.tests) /\ Reached("MOD3", vals[p])
    <3>1. PICK t \in p.tests : t.operand = "MOD" /\ t.value = 3 /\ t.test \in {"eq", "ne"}
                               /\ (HasTest(p, "MOD", "eq", 3) <=> t.test = "eq")
      <4>1. \A t, u \in p.tests : t.operand = u.operand => t = u
        BY DEF KeyMeaning, WellFormed
      <4>. QED  BY <1>1, <4>1 DEF HasTest
    <3>2. \A u \in p.tests : u.operand = "MOD" => u = t
      BY <3>1 DEF KeyMeaning, WellFormed
    <3>3. vals[p] = IF t.test = "eq" THEN {1} ELSE {0}
      BY <3>1
    <3>. HIDE DEF vals
    <3>4. Means("MOD3", vals[p], p.tests)
      <4>. SUFFICES ASSUME NEW w \in Readings({"MOD"})
                    PROVE  Accessor("MOD3", w) \in vals[p] <=> Holds(t, w)
        BY <2>4, <3>1, <3>2 DEF Means
      <4>. QED  BY <3>1, <3>3, AccessorOf DEF Holds
    <3>5. \E w \in Readings({"MOD"}) : Accessor("MOD3", w) = 1
      <4>1. 3 \in StateSpace["MOD"]
        BY <2>3, GrammarAssumption
      <4>2. PICK w \in Readings({"MOD"}) : w["MOD"] = 3
        BY <4>1, OneChoice
      <4>. QED  BY <4>2, AccessorOf
    <3>6. \E w \in Readings({"MOD"}) : Accessor("MOD3", w) = 0
      <4>1. PICK x \in StateSpace["MOD"] : x # 3
        BY <2>3, GrammarAssumption
      <4>2. PICK w \in Readings({"MOD"}) : w["MOD"] = x
        BY OneChoice
      <4>. QED  BY <4>1, <4>2, AccessorOf
    <3>. QED  BY <2>4, <3>3, <3>4, <3>5, <3>6 DEF Reached
  <2>. HIDE DEF vals
  <2>6. Of("MOD3") = UNION {Of(n) : n \in {"MOD"}} /\ {"MOD"} \in SUBSET cnames /\ "MOD3" # "VEXDEST210_7"
    BY <2>3, <2>4
  <2>. QED  BY <2>1, <2>4, <2>5, <2>6, ReplaceKeepsMeaning
<1>2. CASE ~\A p \in ptrns : HasTest(p, "MOD", "eq", 3) \/ HasTest(p, "MOD", "ne", 3)
  <2>1. UNCHANGED <<ptrns, cnames>> /\ stage' # "mod3"
    BY <1>2 DEF ReplaceMod, Keep
  <2>. QED  BY <2>1 DEF KeyMeaning, Tested, Allowed
<1>. QED  BY <1>1, <1>2

LEMMA RmKeepsMeaning == ASSUME KeyMeaning, ReplaceRm  PROVE KeyMeaning'
<1>1. CASE "RM" \in cnames /\ \A p \in ptrns : Constraint(p, "RM") = {4}
  <2>. DEFINE vals == [p \in ptrns |-> {1}]
  <2>1. /\ stage' # "mod3"
        /\ cnames' = (cnames \ {"RM"}) \cup {"RM4"}
        /\ ptrns' = {Constrained(p, "RM4", vals[p]) : p \in ptrns}
    BY <1>1 DEF ReplaceRm, Replace
  <2>2. "RM4" \in Compressed /\ Of("RM4") = {"RM"} /\ Of("RM") = {"RM"} /\ "RM" \notin Compressed
    BY DEF Compressed, Of
  <2>3. ASSUME NEW p \in ptrns
        PROVE  Means("RM4", vals[p], p.tests) /\ Reached("RM4", vals[p])
    <3>1. Allowed(p, "RM") = {4}
      BY <1>1 DEF Allowed, Constraint
    <3>2. Means("RM", {4}, p.tests) /\ Reached("RM", {4})
      BY <1>1, <3>1 DEF KeyMeaning
    <3>3. \A w : Accessor("RM", w) = w["RM"]
      BY <2>2, NameFacts
    <3>4. Means("RM4", {1}, p.tests)
      <4>. SUFFICES ASSUME NEW w \in Readings({"RM"})
                    PROVE  Accessor("RM4", w) \in {1} <=> Accessor("RM", w) \in {4}
        BY <2>2, <3>2 DEF Means
      <4>. QED  BY <3>3, AccessorOf
    <3>5. Reached("RM4", {1})
      BY <2>2, <3>2, <3>3, AccessorOf DEF Reached
    <3>. QED  BY <3>4, <3>5
  <2>. HIDE DEF vals
  <2>4. Of("RM4") = UNION {Of(n) : n \in {"RM"}} /\ {"RM"} \in SUBSET cnames /\ "RM4" # "VEXDEST210_7"
    BY <1>1, <2>2
  <2>. QED  BY <2>1, <2>2, <2>3, <2>4, ReplaceKeepsMeaning
<1>2. CASE ~("RM" \in cnames /\ \A p \in ptrns : Constraint(p, "RM") = {4})
  <2>1. UNCHANGED <<ptrns, cnames>> /\ stage' # "mod3"
    BY <1>2 DEF ReplaceRm, Keep
  <2>. QED  BY <2>1 DEF KeyMeaning, Tested, Allowed
<1>. QED  BY <1>1, <1>2

LEMMA MaskKeepsMeaning == ASSUME KeyMeaning, ReplaceMask  PROVE KeyMeaning'
<1>1. CASE "MASK" \in cnames /\ \A p \in ptrns : ZeroOrAny(p)
  <2>. DEFINE vals == [p \in ptrns |-> MaskZero(p)]
  <2>1. /\ stage' # "mod3"
        /\ cnames' = (cnames \ {"MASK"}) \cup {"MASK_ZERO"}
        /\ ptrns' = {Constrained(p, "MASK_ZERO", vals[p]) : p \in ptrns}
    BY <1>1 DEF ReplaceMask, Replace
  <2>2. "MASK_ZERO" \in Compressed /\ Of("MASK_ZERO") = {"MASK"} /\ Of("MASK") = {"MASK"} /\ "MASK" \notin Compressed
    BY DEF Compressed, Of
  <2>3. "MASK" \in DOMAIN StateSpace
    BY <1>1, <2>2 DEF KeyMeaning, Operands
  <2>4. StateSpace["MASK"] \subseteq 0..7 /\ 0 \in StateSpace["MASK"] /\ \E x \in StateSpace["MASK"] : x # 0
    <3>1. StateSpace["MASK"] \subseteq 0..7 /\ 0 \in StateSpace["MASK"] /\ StateSpace["MASK"] # {0}
      BY <2>3, GrammarAssumption
    <3>. QED  BY <3>1
  <2>5. \A w : Accessor("MASK", w) = w["MASK"]
    BY <2>2, NameFacts
  <2>6. \A w \in Readings({"MASK"}) : w["MASK"] \in StateSpace["MASK"]
    BY DEF Readings
  <2>7. Reached("MASK_ZERO", {0, 1})
    <3>1. \E w \in Readings({"MASK"}) : w["MASK"] = 0
      BY <2>4, OneChoice
    <3>2. \E w \in Readings({"MASK"}) : w["MASK"] # 0
      <4>1. PICK x \in StateSpace["MASK"] : x # 0
        BY <2>4
      <4>. QED  BY <4>1, OneChoice
    <3>. QED  BY <2>2, <3>1, <3>2, AccessorOf DEF Reached
  <2>8. ASSUME NEW p \in ptrns
        PROVE  Means("MASK_ZERO", vals[p], p.tests) /\ Reached("MASK_ZERO", vals[p])
    <3>1. Means("MASK", Allowed(p, "MASK"), p.tests)
      BY <1>1 DEF KeyMeaning
    <3>2. vals[p] \subseteq {0, 1}
      BY DEF MaskZero
    <3>3. Reached("MASK_ZERO", vals[p])
      BY <2>7, <3>2 DEF Reached
    <3>4. ASSUME NEW w \in Readings({"MASK"})
          PROVE  Accessor("MASK_ZERO", w) \in vals[p] <=> Accessor("MASK", w) \in Allowed(p, "MASK")
      <4>1. w["MASK"] \in StateSpace["MASK"] /\ w["MASK"] \in 0..7
        BY <2>4, <2>6
      <4>2. Accessor("MASK_ZERO", w) = IF w["MASK"] = 0 THEN 1 ELSE 0
        BY AccessorOf
      <4>3. CASE Constraint(p, "MASK") = {0}
        <5>1. vals[p] = {1} /\ Allowed(p, "MASK") = {0}
          BY <4>3 DEF MaskZero, Constraint, Allowed
        <5>. HIDE DEF vals
        <5>. QED  BY <2>5, <4>2, <5>1
      <4>4. CASE Constraint(p, "MASK") # {0}
        <5>1. vals[p] = {0, 1} /\ Allowed(p, "MASK") \in {StateSpace["MASK"], 0..7}
          <6>1. ZeroOrAny(p)
            BY <1>1
          <6>. QED  BY <4>4, <6>1 DEF MaskZero, Constraint, Allowed, ZeroOrAny
        <5>. HIDE DEF vals
        <5>. QED  BY <2>5, <4>1, <4>2, <5>1
      <4>. QED  BY <4>3, <4>4
    <3>. HIDE DEF vals
    <3>5. Means("MASK_ZERO", vals[p], p.tests)
      BY <2>2, <3>1, <3>4 DEF Means
    <3>. QED  BY <3>3, <3>5
  <2>. HIDE DEF vals
  <2>9. Of("MASK_ZERO") = UNION {Of(n) : n \in {"MASK"}} /\ {"MASK"} \in SUBSET cnames /\ "MASK_ZERO" # "VEXDEST210_7"
    BY <1>1, <2>2
  <2>. QED  BY <2>1, <2>2, <2>8, <2>9, ReplaceKeepsMeaning
<1>2. CASE ~("MASK" \in cnames /\ \A p \in ptrns : ZeroOrAny(p))
  <2>1. UNCHANGED <<ptrns, cnames>> /\ stage' # "mod3"
    BY <1>2 DEF ReplaceMask, Keep
  <2>. QED  BY <2>1 DEF KeyMeaning, Tested, Allowed
<1>. QED  BY <1>1, <1>2

LEMMA SevenKeepsMeaning == ASSUME KeyMeaning, ReplaceVexdest210  PROVE KeyMeaning'
<1>1. CASE "VEXDEST210" \in cnames /\ \A p \in ptrns : OnlySeven(p)
  <2>. DEFINE vals == [p \in ptrns |-> Seven(p)]
  <2>1. /\ stage' # "mod3"
        /\ cnames' = (cnames \ {"VEXDEST210"}) \cup {"VEXDEST210_7"}
        /\ ptrns' = {Constrained(p, "VEXDEST210_7", vals[p]) : p \in ptrns}
    BY <1>1 DEF ReplaceVexdest210, Replace
  <2>2. /\ "VEXDEST210_7" \in Compressed /\ Of("VEXDEST210_7") = {"VEXDEST210"}
        /\ Of("VEXDEST210") = {"VEXDEST210"} /\ "VEXDEST210" \notin Compressed
    BY DEF Compressed, Of
  <2>3. "VEXDEST210" \in DOMAIN StateSpace
    BY <1>1, <2>2 DEF KeyMeaning, Operands
  <2>4. 7 \in StateSpace["VEXDEST210"] /\ \E x \in StateSpace["VEXDEST210"] : x # 7
    <3>1. 7 \in StateSpace["VEXDEST210"] /\ StateSpace["VEXDEST210"] # {7}
      BY <2>3, GrammarAssumption
    <3>. QED  BY <3>1
  <2>5. Reached("VEXDEST210_7", {0, 1})
    <3>1. \E w \in Readings({"VEXDEST210"}) : w["VEXDEST210"] = 7
      BY <2>4, OneChoice
    <3>2. \E w \in Readings({"VEXDEST210"}) : w["VEXDEST210"] # 7
      <4>1. PICK x \in StateSpace["VEXDEST210"] : x # 7
        BY <2>4
      <4>. QED  BY <4>1, OneChoice
    <3>. QED  BY <2>2, <3>1, <3>2, AccessorOf DEF Reached
  <2>6. ASSUME NEW p \in ptrns
        PROVE  /\ Means("VEXDEST210_7", vals[p], p.tests) /\ Reached("VEXDEST210_7", vals[p])
               /\ vals[p] \in {{1}, {0, 1}}
    <3>0. WellFormed(p) /\ OnlySeven(p)
      BY <1>1 DEF KeyMeaning
    <3>1. vals[p] = IF HasTest(p, "VEXDEST210", "eq", 7) THEN {1} ELSE {0, 1}
      BY DEF Seven
    <3>. HIDE DEF vals
    <3>2. Reached("VEXDEST210_7", vals[p])
      BY <2>5, <3>1 DEF Reached
    <3>3. ASSUME NEW t \in p.tests, t.operand = "VEXDEST210"
          PROVE  t = [operand |-> "VEXDEST210", test |-> "eq", value |-> 7]
      <4>1. t.test = "eq" /\ t \in Tests
        BY <3>0, <3>3 DEF WellFormed
      <4>2. Constraint(p, "VEXDEST210") = {t.value}
        BY <2>3, <3>0, <3>3, <4>1 DEF WellFormed, Constraint, ValuesOf
      <4>3. Cardinality({t.value}) = 1
        BY FS_Singleton
      <4>4. 7 \in {t.value}
        BY <3>0, <4>2, <4>3 DEF OnlySeven
      <4>. QED  BY <3>3, <4>1, <4>4 DEF Tests
    <3>4. ASSUME NEW w \in Readings({"VEXDEST210"})
          PROVE  Accessor("VEXDEST210_7", w) \in vals[p] <=>
                    \A t \in p.tests : t.operand \in {"VEXDEST210"} => Holds(t, w)
      <4>1. Accessor("VEXDEST210_7", w) = IF w["VEXDEST210"] = 7 THEN 1 ELSE 0
        BY AccessorOf
      <4>2. CASE HasTest(p, "VEXDEST210", "eq", 7)
        <5>. DEFINE s == [operand |-> "VEXDEST210", test |-> "eq", value |-> 7]
        <5>1. s \in p.tests /\ \A t \in p.tests : t.operand = "VEXDEST210" => t = s
          BY <3>3, <4>2 DEF HasTest
        <5>2. s.operand = "VEXDEST210" /\ (Holds(s, w) <=> w["VEXDEST210"] = 7)
          BY DEF Holds
        <5>. HIDE DEF s
        <5>. QED  BY <3>1, <4>1, <4>2, <5>1, <5>2
      <4>3. CASE ~HasTest(p, "VEXDEST210", "eq", 7)
        <5>1. \A t \in p.tests : t.operand # "VEXDEST210"
          BY <3>3, <4>3 DEF HasTest
        <5>. QED  BY <3>1, <4>1, <4>3, <5>1
      <4>. QED  BY <4>2, <4>3
    <3>5. Means("VEXDEST210_7", vals[p], p.tests)
      BY <2>2, <3>4 DEF Means
    <3>. QED  BY <3>1, <3>2, <3>5
  <2>. HIDE DEF vals
  <2>7. Of("VEXDEST210_7") = UNION {Of(n) : n \in {"VEXDEST210"}} /\ {"VEXDEST210"} \in SUBSET cnames
    BY <1>1, <2>2
  <2>. QED  BY <2>1, <2>2, <2>6, <2>7, ReplaceKeepsMeaning
<1>2. CASE ~("VEXDEST210" \in cnames /\ \A p \in ptrns : OnlySeven(p))
  <2>1. UNCHANGED <<ptrns, cnames>> /\ stage' # "mod3"
    BY <1>2 DEF ReplaceVexdest210, Keep
  <2>. QED  BY <2>1 DEF KeyMeaning, Tested, Allowed
<1>. QED  BY <1>1, <1>2

(* The values of an operand of one bit that a pattern tests, and does not. *)
LEMMA BitOperand ==
    ASSUME NEW p, WellFormed(p), NEW op \in {"VEXDEST3", "VEXDEST4"}, op \in DOMAIN StateSpace
    PROVE  /\ StateSpace[op] = {0, 1}
           /\ Constraint(p, op) \in {{}, {0}, {1}}
           /\ Constraint(p, op) = {} <=> ~\E t \in p.tests : t.operand = op
           /\ Constraint(p, op) # {} => Allowed(p, op) = Constraint(p, op)
           /\ op = "VEXDEST4" => Constraint(p, op) # {1}
<1>1. StateSpace[op] = {0, 1}
  BY GrammarAssumption
<1>2. CASE \E t \in p.tests : t.operand = op
  <2>1. PICK t \in p.tests : t.operand = op
    BY <1>2
  <2>2. op \in DOMAIN p.constraints /\ p.constraints[op] = ValuesOf(t) /\ t.value \in {0, 1}
    BY <1>1, <2>1 DEF WellFormed
  <2>3. ValuesOf(t) \in {{0}, {1}} /\ (op = "VEXDEST4" => ValuesOf(t) = {0})
    BY <1>1, <2>1, <2>2 DEF WellFormed, ValuesOf
  <2>. QED  BY <1>1, <1>2, <2>2, <2>3 DEF Constraint, Allowed
<1>3. CASE ~\E t \in p.tests : t.operand = op
  <2>1. op \notin DOMAIN p.constraints
    BY <1>3 DEF WellFormed
  <2>. QED  BY <1>1, <1>3, <2>1 DEF Constraint
<1>. QED  BY <1>2, <1>3

(* What a name means, it means among other operands. *)
LEMMA MeansAmong ==
    ASSUME NEW n, NEW values, NEW tests, Means(n, values, tests),
           NEW ops, Of(n) \subseteq ops, NEW w \in Readings(ops)
    PROVE  Accessor(n, w) \in values <=> \A t \in tests : t.operand \in Of(n) => Holds(t, w)
<1>. DEFINE v == [op \in Of(n) |-> w[op]]
<1>1. v \in Readings(Of(n)) /\ \A op \in Of(n) : v[op] = w[op]
  BY TheChoice DEF Readings
<1>. HIDE DEF v
<1>2. Accessor(n, v) = Accessor(n, w)
  BY <1>1, AccessorSees
<1>3. \A t \in tests : t.operand \in Of(n) => (Holds(t, v) <=> Holds(t, w))
  BY <1>1 DEF Holds
<1>. QED  BY <1>1, <1>2, <1>3 DEF Means

(* The three parts of a pattern's destination, when they may give way. *)
LEMMA TrivialMeans ==
    ASSUME NEW p, WellFormed(p), "VEXDEST3" \in DOMAIN StateSpace, "VEXDEST4" \in DOMAIN StateSpace,
           "VEXDEST210_7" \in DOMAIN p.constraints, p.constraints["VEXDEST210_7"] \in {{1}, {0, 1}},
           TrivialVexdest(p), Found(p) # BOOLEAN
    PROVE  \/ /\ Found(p) = {TRUE} /\ Allowed(p, "VEXDEST210_7") = {1}
              /\ Allowed(p, "VEXDEST3") = {1} /\ Allowed(p, "VEXDEST4") = {0}
           \/ /\ Found(p) # {TRUE} /\ Allowed(p, "VEXDEST210_7") = {0, 1}
              /\ \A t \in p.tests : t.operand \notin {"VEXDEST3", "VEXDEST4"}
<1>. DEFINE c7 == Constraint(p, "VEXDEST210_7")
            c3 == Constraint(p, "VEXDEST3")
            c4 == Constraint(p, "VEXDEST4")
            b7 == Bit(p, "VEXDEST210_7")
            b3 == Bit(p, "VEXDEST3")
            b4 == Bit4(p)
<1>1. c7 \in {{1}, {0, 1}} /\ Allowed(p, "VEXDEST210_7") = c7
  BY DEF Constraint, Allowed
<1>2. /\ c3 \in {{}, {0}, {1}} /\ (c3 = {} <=> ~\E t \in p.tests : t.operand = "VEXDEST3")
      /\ c3 # {} => Allowed(p, "VEXDEST3") = c3
  BY BitOperand
<1>3. /\ c4 \in {{}, {0}} /\ (c4 = {} <=> ~\E t \in p.tests : t.operand = "VEXDEST4")
      /\ c4 # {} => Allowed(p, "VEXDEST4") = c4
  BY BitOperand
<1>4. /\ c7 = {1} => b7 = "one"
      /\ c7 = {0, 1} => b7 = "any"
  BY DEF Bit
<1>5. /\ c3 = {1} => b3 = "one"
      /\ c3 = {0} => b3 = "zero"
      /\ c3 = {} => b3 = "any"
  BY DEF Bit
<1>6. /\ c4 = {0} => b4 = "one"
      /\ c4 = {} => b4 = "any"
  BY DEF Bit, Bit4
<1>7. b7 = b3 /\ b3 = b4
  BY DEF TrivialVexdest
<1>8. CASE c7 = {1}
  <2>1. b7 = "one" /\ b3 = "one" /\ b4 = "one"
    BY <1>4, <1>7, <1>8
  <2>2. c3 = {1} /\ c4 = {0}
    <3>. HIDE DEF c7, c3, c4, b7, b3, b4
    <3>. QED  BY <1>2, <1>3, <1>5, <1>6, <2>1
  <2>3. Found(p) = {TRUE}
    <3>1. TRUE \in Found(p)
      BY <1>8 DEF Found
    <3>2. Found(p) \subseteq BOOLEAN
      BY DEF Found
    <3>. QED  BY <3>1, <3>2, Zenon
  <2>. QED  BY <1>1, <1>2, <1>3, <1>8, <2>2, <2>3
<1>9. CASE c7 = {0, 1}
  <2>1. b7 = "any" /\ b3 = "any" /\ b4 = "any"
    BY <1>4, <1>7, <1>9
  <2>2. c3 = {} /\ c4 = {}
    <3>. HIDE DEF c7, c3, c4, b7, b3, b4
    <3>. QED  BY <1>2, <1>3, <1>5, <1>6, <2>1
  <2>3. ~(c7 = {1})
    BY <1>9
  <2>4. FALSE \in Found(p)
    BY <2>3, Zenon DEF Found
  <2>5. Found(p) # {TRUE}
    BY <2>4, Zenon
  <2>. QED  BY <1>1, <1>2, <1>3, <1>9, <2>2, <2>5
<1>. QED  BY <1>1, <1>8, <1>9

LEMMA VexdestKeepsMeaning == ASSUME KeyMeaning, ReplaceVexdest  PROVE KeyMeaning'
<1>1. CASE VexdestBits \subseteq cnames /\ (\A p \in ptrns : TrivialVexdest(p)) /\ ~\E p \in ptrns : Found(p) = BOOLEAN
  <2>. DEFINE vals == [p \in ptrns |-> IF Found(p) = {TRUE} THEN {1} ELSE {0, 1}]
              new == "VEXDEST_1F"
              ops == {"VEXDEST210", "VEXDEST3", "VEXDEST4"}
  <2>1. /\ stage' # "mod3"
        /\ cnames' = (cnames \ VexdestBits) \cup {new}
        /\ ptrns' = {Constrained(p, new, vals[p]) : p \in ptrns}
    BY <1>1 DEF ReplaceVexdest, Replace
  <2>2. /\ new \in Compressed /\ Of(new) = ops /\ Of("VEXDEST210_7") = {"VEXDEST210"}
        /\ Of("VEXDEST3") = {"VEXDEST3"} /\ Of("VEXDEST4") = {"VEXDEST4"}
        /\ "VEXDEST3" \notin Compressed /\ "VEXDEST4" \notin Compressed
    BY DEF Compressed, Of
  <2>3. "VEXDEST210_7" \in cnames /\ "VEXDEST3" \in cnames /\ "VEXDEST4" \in cnames
    BY <1>1 DEF VexdestBits
  <2>4. "VEXDEST3" \in DOMAIN StateSpace /\ "VEXDEST4" \in DOMAIN StateSpace
    BY <2>2, <2>3 DEF KeyMeaning, Operands
  <2>5. ASSUME NEW p \in ptrns
        PROVE  Means(new, vals[p], p.tests) /\ Reached(new, vals[p])
    <3>1. /\ Means("VEXDEST210_7", Allowed(p, "VEXDEST210_7"), p.tests)
          /\ Means("VEXDEST3", Allowed(p, "VEXDEST3"), p.tests)
          /\ Means("VEXDEST4", Allowed(p, "VEXDEST4"), p.tests)
      BY <2>3 DEF KeyMeaning
    <3>2. \/ /\ vals[p] = {1} /\ Allowed(p, "VEXDEST210_7") = {1}
             /\ Allowed(p, "VEXDEST3") = {1} /\ Allowed(p, "VEXDEST4") = {0}
          \/ /\ vals[p] = {0, 1} /\ Allowed(p, "VEXDEST210_7") = {0, 1}
             /\ \A t \in p.tests : t.operand \notin {"VEXDEST3", "VEXDEST4"}
      <4>1. /\ WellFormed(p) /\ "VEXDEST210_7" \in DOMAIN p.constraints
            /\ p.constraints["VEXDEST210_7"] \in {{1}, {0, 1}}
        BY <2>3 DEF KeyMeaning, Compressed
      <4>2. TrivialVexdest(p) /\ Found(p) # BOOLEAN
        BY <1>1
      <4>. QED  BY <2>4, <4>1, <4>2, TrivialMeans
    <3>. HIDE DEF vals
    <3>3. ASSUME NEW w \in Readings(ops)
          PROVE  Accessor(new, w) \in vals[p] <=> \A t \in p.tests : t.operand \in ops => Holds(t, w)
      <4>. DEFINE T(op) == \A t \in p.tests : t.operand = op => Holds(t, w)
      <4>1. Accessor("VEXDEST210_7", w) \in Allowed(p, "VEXDEST210_7") <=> T("VEXDEST210")
        BY <2>2, <3>1, MeansAmong
      <4>2. w["VEXDEST3"] \in Allowed(p, "VEXDEST3") <=> T("VEXDEST3")
        BY <2>2, <3>1, MeansAmong, NameFacts
      <4>3. w["VEXDEST4"] \in Allowed(p, "VEXDEST4") <=> T("VEXDEST4")
        BY <2>2, <3>1, MeansAmong, NameFacts
      <4>4. /\ Accessor("VEXDEST210_7", w) = IF w["VEXDEST210"] = 7 THEN 1 ELSE 0
            /\ Accessor(new, w) =
                 IF w["VEXDEST210"] = 7 /\ w["VEXDEST3"] = 1 /\ w["VEXDEST4"] = 0 THEN 1 ELSE 0
        BY AccessorOf
      <4>5. (\A t \in p.tests : t.operand \in ops => Holds(t, w))
              <=> T("VEXDEST210") /\ T("VEXDEST3") /\ T("VEXDEST4")
        OBVIOUS
      <4>6. CASE /\ vals[p] = {1} /\ Allowed(p, "VEXDEST210_7") = {1}
                 /\ Allowed(p, "VEXDEST3") = {1} /\ Allowed(p, "VEXDEST4") = {0}
        <5>. HIDE DEF T
        <5>. QED  BY <4>1, <4>2, <4>3, <4>4, <4>5, <4>6
      <4>7. CASE /\ vals[p] = {0, 1} /\ Allowed(p, "VEXDEST210_7") = {0, 1}
                 /\ \A t \in p.tests : t.operand \notin {"VEXDEST3", "VEXDEST4"}
        <5>1. T("VEXDEST3") /\ T("VEXDEST4")
          BY <4>7
        <5>. HIDE DEF T
        <5>. QED  BY <4>1, <4>4, <4>5, <4>7, <5>1
      <4>. QED  BY <3>2, <4>6, <4>7
    <3>4. Means(new, vals[p], p.tests)
      BY <2>2, <3>3 DEF Means
    <3>5. "VEXDEST210" \in DOMAIN StateSpace
      <4>1. "VEXDEST210" \in Tested
        BY <2>2, <2>3 DEF KeyMeaning
      <4>. QED  BY <4>1 DEF Tested, KeyMeaning, WellFormed, Tests
    <3>6. ASSUME NEW x \in StateSpace["VEXDEST210"]
          PROVE  \E w \in Readings(ops) : Accessor(new, w) = IF x = 7 THEN 1 ELSE 0
      <4>. DEFINE f == [op \in ops |-> IF op = "VEXDEST210" THEN x ELSE IF op = "VEXDEST3" THEN 1 ELSE 0]
      <4>1. f["VEXDEST210"] = x /\ f["VEXDEST3"] = 1 /\ f["VEXDEST4"] = 0
        OBVIOUS
      <4>2. \A op \in ops : f[op] \in StateSpace[op]
        <5>1. StateSpace["VEXDEST3"] = {0, 1} /\ StateSpace["VEXDEST4"] = {0, 1}
          BY <2>4, GrammarAssumption
        <5>. QED  BY <5>1
      <4>3. [op \in ops |-> f[op]] \in Readings(ops) /\ [op \in ops |-> f[op]] = f
        BY <4>2, TheChoice
      <4>. HIDE DEF f
      <4>4. f \in Readings(ops)
        BY <4>3
      <4>. QED  BY <4>1, <4>4, AccessorOf
    <3>7. Reached(new, vals[p])
      <4>1. 7 \in StateSpace["VEXDEST210"] /\ StateSpace["VEXDEST210"] # {7}
        BY <3>5, GrammarAssumption
      <4>2. PICK x \in StateSpace["VEXDEST210"] : x # 7
        BY <4>1
      <4>3. \E w \in Readings(ops) : Accessor(new, w) = 1
        BY <3>6, <4>1
      <4>4. \E w \in Readings(ops) : Accessor(new, w) = 0
        BY <3>6, <4>2
      <4>. QED  BY <2>2, <3>2, <4>3, <4>4 DEF Reached
    <3>. QED  BY <3>4, <3>7
  <2>. HIDE DEF vals
  <2>6. Of(new) = UNION {Of(n) : n \in VexdestBits} /\ VexdestBits \in SUBSET cnames /\ new # "VEXDEST210_7"
    BY <1>1, <2>2 DEF VexdestBits
  <2>. HIDE DEF new
  <2>. QED  BY <2>1, <2>2, <2>5, <2>6, ReplaceKeepsMeaning
<1>2. CASE ~(VexdestBits \subseteq cnames /\ (\A p \in ptrns : TrivialVexdest(p)) /\ ~\E p \in ptrns : Found(p) = BOOLEAN)
  <2>1. UNCHANGED <<ptrns, cnames>> /\ stage' # "mod3"
    BY <1>2 DEF ReplaceVexdest, Keep
  <2>. QED  BY <2>1 DEF KeyMeaning, Tested, Allowed
<1>. QED  BY <1>1, <1>2

-----------------------------------------------------------------------------
LEMMA MeaningStep == KeyMeaning /\ [PhashNext]_phashvars => KeyMeaning'
<1>. SUFFICES ASSUME KeyMeaning, [PhashNext]_phashvars
              PROVE  KeyMeaning'
  OBVIOUS
<1>1. ASSUME UNCHANGED <<ptrns, cnames>>, stage' = "mod3" => stage = "mod3"
      PROVE  KeyMeaning'
  <2>1. Tested' = Tested /\ \A p, n : Allowed(p, n)' = Allowed(p, n)
    BY <1>1 DEF Tested, Allowed
  <2>. QED  BY <1>1, <2>1 DEF KeyMeaning
<1>2. CASE Unite
  <2>1. UNCHANGED <<ptrns, cnames>> /\ stage' # "mod3"
    BY <1>2 DEF Unite
  <2>. QED  BY <1>1, <2>1
<1>3. CASE SearchOneLevel
  <2>1. UNCHANGED <<ptrns, cnames>> /\ stage' # "mod3"
    BY <1>3 DEF SearchOneLevel
  <2>. QED  BY <1>1, <2>1
<1>4. CASE SearchTopLevel
  <2>1. UNCHANGED <<ptrns, cnames>> /\ stage' # "mod3"
    BY <1>4 DEF SearchTopLevel
  <2>. QED  BY <1>1, <2>1
<1>5. CASE SearchBucket
  <2>1. UNCHANGED <<ptrns, cnames>> /\ stage' # "mod3"
    BY <1>5 DEF SearchBucket
  <2>. QED  BY <1>1, <2>1
<1>6. CASE UNCHANGED phashvars
  BY <1>1, <1>6 DEF phashvars
<1>. QED
  BY <1>2, <1>3, <1>4, <1>5, <1>6, ModKeepsMeaning, SevenKeepsMeaning, VexdestKeepsMeaning,
     RmKeepsMeaning, MaskKeepsMeaning DEF PhashNext

(* Whatever operands gave way to narrower ones, what the names of the key  *)
(* read tells the patterns apart as their tests do, for every pattern and  *)
(* all values of the operands.                                             *)
THEOREM KeysMeanTests == SpecPhash => []KeyMeaning
  BY MeaningInit, MeaningStep, PTL DEF SpecPhash

-----------------------------------------------------------------------------
(* What Unite leaves behind: a conflict, the one rule of a pattern that    *)
(* has no key, or the dictionary of patterns with nothing in common.       *)
UniteInv ==
    /\ stage = "conflict" => cnames # {} /\ Conflicting
    /\ stage = "done" /\ cnames = {} =>
          top = {} /\ \E p \in ptrns : ptrns = {p} /\ funcs = [i \in {0} |-> Always(p.rule)]
    /\ stage \in {"one_level", "two_levels", "buckets", "done"} /\ cnames # {} =>
          ~Conflicting /\ dict = United
    /\ stage \in {"one_level", "two_levels", "buckets"} => cnames # {}

LEMMA UniteInit == PhashInit => UniteInv
  BY DEF PhashInit, UniteInv

LEMMA UniteStep == KeyMeaning /\ PhashInv /\ UniteInv /\ [PhashNext]_phashvars => UniteInv'
<1>. SUFFICES ASSUME KeyMeaning, PhashInv, UniteInv, [PhashNext]_phashvars
              PROVE  UniteInv'
  OBVIOUS
<1>0. ASSUME UNCHANGED <<ptrns, cnames>>
      PROVE  Conflicting' = Conflicting /\ United' = United
  <2>1. \A p : Tuples(p)' = Tuples(p) /\ Keys(p)' = Keys(p)
    BY <1>0 DEF Tuples, Keys, Allowed
  <2>2. Conflicting' = Conflicting
    BY <1>0, <2>1 DEF Conflicting
  <2>3. United' = United
    <3>. DEFINE K == [p \in ptrns |-> Keys(p)]
    <3>1. K' = K
      BY <1>0, <2>1
    <3>. HIDE DEF K
    <3>2. (UNION {K[p] : p \in ptrns})' = UNION {K[p] : p \in ptrns}
      BY <1>0, <3>1
    <3>3. \A x : (CHOOSE p \in ptrns : x \in K[p])' = (CHOOSE p \in ptrns : x \in K[p])
      BY <1>0, <3>1
    <3>4. United = [x \in UNION {K[p] : p \in ptrns} |-> (CHOOSE p \in ptrns : x \in K[p]).rule]
      BY DEF United, K
    <3>5. (United = [x \in UNION {K[p] : p \in ptrns} |-> (CHOOSE p \in ptrns : x \in K[p]).rule])'
      BY DEF United, K
    <3>. QED  BY <3>2, <3>3, <3>4, <3>5
  <2>. QED  BY <2>2, <2>3
<1>1. CASE ReplaceMod \/ ReplaceVexdest210 \/ ReplaceVexdest \/ ReplaceRm \/ ReplaceMask
  <2>1. stage' \in {"vexdest", "vexdest_1f", "rm", "mask", "unite", "failed"}
    <3>1. CASE ReplaceMod
      BY <3>1 DEF ReplaceMod, Keep
    <3>2. CASE ReplaceVexdest210
      BY <3>2 DEF ReplaceVexdest210, Keep
    <3>3. CASE ReplaceVexdest
      BY <3>3 DEF ReplaceVexdest, Keep
    <3>4. CASE ReplaceRm
      BY <3>4 DEF ReplaceRm, Keep
    <3>5. CASE ReplaceMask
      BY <3>5 DEF ReplaceMask, Keep
    <3>. QED  BY <1>1, <3>1, <3>2, <3>3, <3>4, <3>5
  <2>. QED  BY <2>1 DEF UniteInv
<1>2. CASE Unite
  <2>1. UNCHANGED <<ptrns, cnames>> /\ top = {} /\ top' = top
    BY <1>2 DEF Unite, PhashInv, Early
  <2>2. CASE cnames = {} /\ stage' = "failed"
    BY <2>2 DEF UniteInv
  <2>3. CASE /\ cnames = {} /\ Cardinality(ptrns) = 1 /\ stage' = "done"
             /\ \E p \in ptrns : funcs' = [i \in {0} |-> Always(p.rule)]
    <3>1. PICK p \in ptrns : funcs' = [i \in {0} |-> Always(p.rule)]
      BY <2>3
    <3>2. ptrns = {p}
      <4>1. IsFiniteSet(ptrns)
        BY DEF KeyMeaning
      <4>2. PICK x : ptrns = {x}
        BY <2>3, <4>1, FS_Singleton
      <4>. QED  BY <4>2
    <3>3. cnames' = {} /\ ptrns' = {p} /\ top' = {}
      BY <2>1, <2>3, <3>2
    <3>4. \E q \in ptrns' : ptrns' = {q} /\ funcs' = [i \in {0} |-> Always(q.rule)]
      BY <3>1, <3>3
    <3>. QED  BY <2>3, <3>3, <3>4 DEF UniteInv
  <2>4. CASE cnames # {} /\ Conflicting /\ stage' = "conflict"
    BY <1>0, <2>1, <2>4 DEF UniteInv
  <2>5. CASE cnames # {} /\ ~Conflicting /\ dict' = United /\ stage' \in {"failed", "one_level"}
    BY <1>0, <2>1, <2>5 DEF UniteInv
  <2>. QED  BY <1>2, <2>2, <2>3, <2>4, <2>5 DEF Unite
<1>3. CASE SearchOneLevel \/ SearchTopLevel \/ SearchBucket
  <2>1. /\ stage \in {"one_level", "two_levels", "buckets"}
        /\ stage' \in {"two_levels", "buckets", "done", "failed"}
        /\ UNCHANGED <<ptrns, cnames, dict>>
    <3>1. CASE SearchOneLevel
      BY <3>1 DEF SearchOneLevel
    <3>2. CASE SearchTopLevel
      BY <3>2 DEF SearchTopLevel
    <3>3. CASE SearchBucket
      BY <3>3 DEF SearchBucket
    <3>. QED  BY <1>3, <3>1, <3>2, <3>3
  <2>. QED  BY <1>0, <2>1 DEF UniteInv
<1>4. CASE UNCHANGED phashvars
  BY <1>0, <1>4 DEF UniteInv, phashvars
<1>. QED  BY <1>1, <1>2, <1>3, <1>4 DEF PhashNext

-----------------------------------------------------------------------------
(* The tuple that the names of the key read is one of every pattern that   *)
(* matches, once the pattern has tuples at all.                            *)
Tuple(v) == [n \in cnames |-> Accessor(n, v)]

LEMMA HasTuples ==
    ASSUME KeyMeaning, Alone, cnames # {}, NEW p \in ptrns
    PROVE  DOMAIN p.constraints # {}
<1>1. WellFormed(p)
  BY DEF KeyMeaning
<1>2. p.tests # {}
  <2>1. CASE ptrns = {p}
    <3>1. Tested # {}
      BY NameFacts DEF KeyMeaning
    <3>. QED  BY <2>1, <3>1 DEF Tested
  <2>. QED  BY <2>1 DEF Alone
<1>3. PICK t \in p.tests : TRUE
  BY <1>2
<1>. QED  BY <1>1, <1>3 DEF WellFormed, Tests

LEMMA MatchHasTuple ==
    ASSUME KeyMeaning, Alone, cnames # {}, NEW v \in Valuations, NEW p \in Matching(v)
    PROVE  Tuple(v) \in Tuples(p)
<1>0. p \in ptrns
  BY DEF Matching
<1>1. \A n \in cnames : Accessor(n, v) \in Allowed(p, n)
  BY <1>0, MatchingIsAllowed
<1>2. Tuple(v) \in [cnames -> UNION {Allowed(p, op) : op \in cnames}]
  BY <1>1 DEF Tuple
<1>3. \A op \in cnames : Tuple(v)[op] \in Allowed(p, op)
  BY <1>1 DEF Tuple
<1>4. DOMAIN p.constraints # {}
  BY <1>0, HasTuples
<1>. QED  BY <1>2, <1>3, <1>4 DEF Tuples

LEMMA TupleMatches ==
    ASSUME KeyMeaning, NEW p \in ptrns, NEW v \in Valuations, Tuple(v) \in Tuples(p)
    PROVE  p \in Matching(v)
<1>1. \A n \in cnames : Accessor(n, v) \in Allowed(p, n)
  BY DEF Tuples, Tuple
<1>. QED  BY <1>1, MatchingIsAllowed

LEMMA TupleIsTuple ==
    ASSUME KeyMeaning, NEW p \in ptrns, NEW s \in Tuples(p)
    PROVE  \E v \in Valuations : Tuple(v) = s
<1>1. s \in [cnames -> UNION {Allowed(p, op) : op \in cnames}] /\ \A op \in cnames : s[op] \in Allowed(p, op)
  BY DEF Tuples
<1>2. PICK v \in Valuations : \A n \in cnames : Accessor(n, v) = s[n]
  BY <1>1, TupleIsRead
<1>. QED  BY <1>1, <1>2 DEF Tuple

LEMMA MatchingIsFinite ==
    ASSUME KeyMeaning, NEW v
    PROVE  IsFiniteSet(Matching(v))
<1>1. Matching(v) \subseteq ptrns /\ IsFiniteSet(ptrns)
  BY DEF Matching, KeyMeaning
<1>. QED  BY <1>1, FS_Subset

LEMMA TwoMatch ==
    ASSUME KeyMeaning, NEW v
    PROVE  Cardinality(Matching(v)) > 1 <=> \E p, q \in Matching(v) : p # q
<1>0. IsFiniteSet(Matching(v)) /\ Cardinality(Matching(v)) \in Nat
  BY MatchingIsFinite, FS_CardinalityType
<1>1. ASSUME NEW p \in Matching(v), NEW q \in Matching(v), p # q
      PROVE  Cardinality(Matching(v)) > 1
  <2>1. Cardinality({p}) = 1 /\ IsFiniteSet({p})
    BY FS_Singleton
  <2>2. Cardinality({p} \cup {q}) = 2
    BY <1>1, <2>1, FS_AddElement
  <2>3. {p} \cup {q} \subseteq Matching(v)
    OBVIOUS
  <2>4. Cardinality({p} \cup {q}) <= Cardinality(Matching(v))
    BY <1>0, <2>3, FS_Subset
  <2>. QED  BY <1>0, <2>2, <2>4
<1>2. ASSUME Cardinality(Matching(v)) > 1, \A p, q \in Matching(v) : p = q
      PROVE  FALSE
  <2>1. CASE Matching(v) = {}
    BY <1>2, <2>1, FS_EmptySet
  <2>2. CASE Matching(v) # {}
    <3>1. PICK p : Matching(v) = {p}
      BY <1>2, <2>2
    <3>. QED  BY <1>2, <3>1, FS_Singleton
  <2>. QED  BY <2>1, <2>2
<1>. QED  BY <1>1, <1>2

LEMMA InvGivesConflicts == ASSUME KeyMeaning, UniteInv  PROVE ConflictsAreReal
<1>1. ASSUME stage = "conflict"
      PROVE  \E v \in Valuations : Cardinality(Matching(v)) > 1
  <2>1. PICK p \in ptrns, q \in ptrns : p # q /\ Tuples(p) \cap Tuples(q) # {}
    BY <1>1 DEF UniteInv, Conflicting
  <2>2. PICK s : s \in Tuples(p) /\ s \in Tuples(q)
    BY <2>1
  <2>3. PICK v \in Valuations : Tuple(v) = s
    BY <2>2, TupleIsTuple
  <2>4. p \in Matching(v) /\ q \in Matching(v)
    BY <2>2, <2>3, TupleMatches
  <2>. QED  BY <2>1, <2>4, TwoMatch
<1>2. ASSUME stage = "done", Alone, NEW v \in Valuations, Cardinality(Matching(v)) > 1
      PROVE  FALSE
  <2>1. PICK p \in Matching(v), q \in Matching(v) : p # q
    BY <1>2, TwoMatch
  <2>2. p \in ptrns /\ q \in ptrns
    BY DEF Matching
  <2>3. CASE cnames = {}
    BY <1>2, <2>1, <2>2, <2>3 DEF UniteInv
  <2>4. CASE cnames # {}
    <3>1. Tuple(v) \in Tuples(p) /\ Tuple(v) \in Tuples(q)
      BY <1>2, <2>4, MatchHasTuple
    <3>. QED  BY <1>2, <2>1, <2>2, <2>4, <3>1 DEF UniteInv, Conflicting
  <2>. QED  BY <2>3, <2>4
<1>. QED  BY <1>1, <1>2 DEF ConflictsAreReal

THEOREM UniteInductive == SpecPhash => []UniteInv
  BY KeysMeanTests, PhashInductive, UniteInit, UniteStep, PTL DEF SpecPhash

(* A grammar is rejected as ambiguous exactly when it is: whatever operands *)
(* were replaced, two patterns that share a tuple are matched by one       *)
(* instruction, and once a lookup function is finished no instruction is   *)
(* matched by two.                                                         *)
THEOREM ConflictsAreFound == SpecPhash => []ConflictsAreReal
  BY KeysMeanTests, UniteInductive, InvGivesConflicts, PTL

-----------------------------------------------------------------------------
LEMMA ReadValues ==
    ASSUME KeyMeaning, NEW n \in cnames, NEW v \in Valuations
    PROVE  Accessor(n, v) \in Space(n)
<1>1. CASE n \in Compressed
  BY <1>1 DEF Space, Compressed, Accessor
<1>2. CASE n \notin Compressed
  <2>1. Of(n) = {n} /\ Accessor(n, v) = v[n]
    BY <1>2, NameFacts
  <2>2. n \in Tested
    BY <2>1 DEF KeyMeaning
  <2>. QED  BY <1>2, <2>1, <2>2 DEF Valuations, Space
<1>. QED  BY <1>1, <1>2

LEMMA LookedUpKey ==
    ASSUME KeyMeaning, NEW v \in Valuations
    PROVE  KeyFor(v) = KeyOf(cnames, Tuple(v)) /\ KeyFor(v) \in Nat
<1>1. KeyFor(v) = KeyOf(cnames, Tuple(v))
  BY DEF KeyFor, Tuple
<1>2. \A n \in cnames : Tuple(v)[n] \in Space(n)
  BY ReadValues DEF Tuple
<1>3. cnames \in SUBSET Operands
  BY DEF KeyMeaning
<1>. QED  BY <1>1, <1>2, <1>3, KeyIsNatural

(* Only one tuple has the key of what the names read. *)
LEMMA SameKeySameTuple ==
    ASSUME KeyMeaning, NEW v \in Valuations, NEW p \in ptrns, KeyFor(v) \in Keys(p)
    PROVE  p \in Matching(v)
<1>1. PICK s \in Tuples(p) : KeyFor(v) = KeyOf(cnames, s)
  BY DEF Keys
<1>2. PICK u \in Valuations : Tuple(u) = s
  BY <1>1, TupleIsTuple
<1>3. \A n \in cnames : Tuple(u)[n] \in Space(n) /\ Tuple(v)[n] \in Space(n)
  BY ReadValues DEF Tuple
<1>4. KeyOf(cnames, Tuple(u)) = KeyOf(cnames, Tuple(v))
  BY <1>1, <1>2, LookedUpKey
<1>5. \A n \in cnames : Tuple(u)[n] = Tuple(v)[n]
  BY <1>3, <1>4, KeysAreDistinct DEF KeyMeaning
<1>6. Tuple(u) = Tuple(v)
  BY <1>5 DEF Tuple
<1>. QED  BY <1>1, <1>2, <1>6, TupleMatches

LEMMA InvGivesPattern ==
    ASSUME KeyMeaning, PhashInv, UniteInv, KeysAreNarrow
    PROVE  FindsThePattern
<1>. SUFFICES ASSUME stage = "done", Alone, NEW v \in Valuations
              PROVE  IF Matching(v) = {} THEN AnswerTo(KeyFor(v)) = 0
                     ELSE \E p \in Matching(v) : AnswerTo(KeyFor(v)) = p.rule
  BY DEF FindsThePattern
<1>1. CASE cnames = {}
  <2>1. PICK p \in ptrns : ptrns = {p} /\ funcs = [i \in {0} |-> Always(p.rule)]
    BY <1>1 DEF UniteInv
  <2>2. top = {}
    BY <1>1 DEF UniteInv
  <2>3. AnswerTo(KeyFor(v)) = p.rule
    BY <2>1, <2>2 DEF AnswerTo, Always
  <2>4. Tested = {}
    BY <1>1 DEF KeyMeaning
  <2>5. p.tests = {}
    <3>1. \A t \in p.tests : t.operand \in Tested
      BY DEF Tested
    <3>. QED  BY <2>4, <3>1
  <2>6. p \in Matching(v)
    BY <2>5 DEF Matching
  <2>. QED  BY <2>3, <2>6
<1>2. CASE cnames # {}
  <2>1. KeysFit /\ KeyFor(v) \in 0..(KeyWord - 1)
    <3>1. KeyFor(v) \in Nat /\ KeyFor(v) < KeyWord /\ KeyWord \in Nat
      BY LookedUpKey, WordFacts DEF KeysAreNarrow
    <3>. QED  BY <3>1 DEF KeysAreNarrow
  <2>2. AnswerTo(KeyFor(v)) = Direct(dict, KeyFor(v))
    BY <1>2, <2>1, InvGivesDirect
  <2>. DEFINE key == KeyFor(v)
              K == [p \in ptrns |-> Keys(p)]
              q == CHOOSE p \in ptrns : key \in K[p]
  <2>3. /\ DOMAIN dict = UNION {K[p] : p \in ptrns}
        /\ key \in DOMAIN dict => dict[key] = q.rule
    BY <1>2 DEF UniteInv, United
  <2>. HIDE DEF key
  <2>4. key \in DOMAIN dict => q \in ptrns /\ key \in Keys(q)
    <3>1. key \in DOMAIN dict => \E p \in ptrns : key \in K[p]
      BY <2>3
    <3>. HIDE DEF K
    <3>2. key \in DOMAIN dict => q \in ptrns /\ key \in K[q]
      BY <3>1
    <3>. QED  BY <3>2 DEF K
  <2>. HIDE DEF q
  <2>5. CASE key \in DOMAIN dict
    <3>1. q \in Matching(v)
      BY <2>4, <2>5, SameKeySameTuple DEF key
    <3>2. AnswerTo(KeyFor(v)) = q.rule
      BY <2>2, <2>3, <2>5 DEF Direct, key
    <3>. QED  BY <3>1, <3>2
  <2>6. CASE key \notin DOMAIN dict
    <3>1. AnswerTo(KeyFor(v)) = 0
      BY <2>2, <2>6 DEF Direct, key
    <3>2. ASSUME NEW p \in Matching(v)
          PROVE  FALSE
      <4>1. p \in ptrns
        BY DEF Matching
      <4>2. Tuple(v) \in Tuples(p)
        BY <1>2, <3>2, MatchHasTuple
      <4>3. key \in Keys(p)
        BY <4>2, LookedUpKey DEF Keys, key
      <4>4. key \in K[p]
        BY <4>1, <4>3
      <4>. HIDE DEF K
      <4>. QED  BY <2>3, <2>6, <4>1, <4>4
    <3>3. Matching(v) = {}
      BY <3>2
    <3>. QED  BY <3>1, <3>3
  <2>. QED  BY <2>5, <2>6
<1>. QED  BY <1>1, <1>2

(* Whatever the patterns of an opcode, the operands replaced and the hash  *)
(* functions found, the static decoder answers the rule of the pattern     *)
(* whose tests hold, and nothing if there is none, as long as the keys fit *)
(* the tables and the variable of the generated code.                      *)
THEOREM PatternsAreFound == SpecPhash => [](KeysAreNarrow => FindsThePattern)
  BY KeysMeanTests, PhashInductive, UniteInductive, InvGivesPattern, PTL
=============================================================================
