------------------------------ MODULE XedHash -------------------------------
(***************************************************************************)
(* The hash functions of the static decoder's tables: the three kinds the  *)
(* generator knows, the order in which it tries them, and each of them     *)
(* twice, as the generator computes it when it fills a table and as the C  *)
(* code it writes computes it when an instruction is decoded.              *)
(***************************************************************************)
EXTENDS Integers, FiniteSetsExt

CONSTANTS
    Word,           \* 2^32: the width of mul and of the keys in a table
    KeyWord,        \* 2^64: the width of a key that is looked up
    Golden,         \* golden_ratio_recip2to32
    Powers,         \* the powers of two that divide Word
    Primes, MaxK,   \* _primes and _max_k of hashfks.py
    BucketMax       \* _l1_bucket_max

ASSUME HashAssumption ==
    /\ Word \in Nat \ {0} /\ KeyWord \in Nat /\ KeyWord >= Word * Word
    /\ Golden \in 1..(Word - 1)
    /\ \A s \in Powers : s \in 1..Word /\ Word % s = 0
    /\ Primes \subseteq Nat \ {0, 1}
    /\ MaxK \in Nat /\ MaxK < Word /\ BucketMax \in Nat

HashType == [kind : {"linear", "mul", "fks"}, size : Nat \ {0}, k : Nat, p : Nat \ {0}]

Linear(keys) ==
    [kind |-> "linear", size |-> (Max(keys) - Min(keys)) + 1, k |-> Min(keys), p |-> 1]
IsLinear(keys) == (Max(keys) - Min(keys)) + 1 = Cardinality(keys)

(* Lengths n, 1.1 n, ... 2 n, rounded up, and none of 1.                   *)
MulHashes(n) ==
    {[kind |-> "mul", size |-> s, k |-> Golden, p |-> Word] :
       s \in {((10 + x) * n + 9) \div 10 : x \in 0..10} \ {1}}

Sizes(n) == IF n = 1 THEN {1} ELSE IF n <= BucketMax THEN {n, 2 * n, n * n} ELSE {n, 2 * n}
FksHashes(n) ==
    {[kind |-> "fks", size |-> s, k |-> k, p |-> p] : s \in Sizes(n), p \in Primes, k \in 3..(MaxK - 1)}

Hashes(n) == MulHashes(n) \cup FksHashes(n)

(* g is tried before h *)
TriedBefore(g, h) ==
    \/ g.kind = "mul" /\ h.kind = "fks"
    \/ /\ g.kind = h.kind
       /\ \/ g.size < h.size
          \/ g.size = h.size /\ g.p < h.p
          \/ g.size = h.size /\ g.p = h.p /\ g.k < h.k
Earliest(hs) == {h \in hs : \A g \in hs \ {h} : TriedBefore(h, g)}

-----------------------------------------------------------------------------
(* get_table_size: fks has no more places than its prime *)
Buckets(h) == IF h.kind = "fks" /\ h.p < h.size THEN h.p ELSE h.size

(* apply *)
Apply(h, x) ==
    CASE h.kind = "linear" -> x - h.k
      [] h.kind = "mul"    -> (((h.k * x) % h.p) * h.size) \div h.p
      [] h.kind = "fks"    -> ((h.k * x) % h.p) % Buckets(h)

(* emit_cexpr: unsigned, a shift for a power of two, no operation that     *)
(* would change nothing.                                                   *)
Index(h, key) ==
    LET product == (h.k * key) % KeyWord
        lo32 == product % Word
    IN  CASE h.kind = "linear" -> (key - h.k) % KeyWord
          [] h.kind = "mul" /\ h.size \in Powers -> lo32 \div (Word \div h.size)
          [] h.kind = "mul" /\ h.size \notin Powers -> (lo32 * h.size) \div Word
          [] h.kind = "fks" /\ Buckets(h) = 1 -> 0
          [] h.kind = "fks" /\ Buckets(h) # 1 /\ Buckets(h) = h.p -> product % h.p
          [] h.kind = "fks" /\ Buckets(h) # 1 /\ Buckets(h) # h.p -> (product % h.p) % Buckets(h)

IsPerfect(h, keys) == \A x, y \in keys : Apply(h, x) = Apply(h, y) => x = y

IsWellDistributed(h, keys) ==
    \A x \in keys : Cardinality({y \in keys : Apply(h, y) = Apply(h, x)}) < BucketMax

(* the function of one level that is taken, if there is one *)
OneLevel(keys) ==
    IF IsLinear(keys) THEN {Linear(keys)}
    ELSE Earliest({h \in Hashes(Cardinality(keys)) : IsPerfect(h, keys)})

(* the first level of two *)
TopLevel(keys) == Earliest({h \in Hashes(Cardinality(keys)) : IsWellDistributed(h, keys)})

-----------------------------------------------------------------------------
(* The table of one level for a dictionary from keys to rules.  An empty   *)
(* slot has key 0 and rule 0, which says that there is no instruction.     *)
Function(h, dict) ==
    [hash |-> h,
     table |-> [i \in 0..(Buckets(h) - 1) |->
                  LET at == {x \in DOMAIN dict : Apply(h, x) = i}
                  IN  IF at = {} THEN [key |-> 0, rule |-> 0]
                      ELSE LET x == CHOOSE x \in at : TRUE
                           IN  [key |-> x % Word, rule |-> dict[x]]]]

(* mutant: a perfect hash is taken to need no test *)
KeyIsThereUntested(f, key) == f.hash.kind = "linear" => Index(f.hash, key) <= f.hash.size - 1

(* add_key_validation: the linear kind tests the index, the others the key *)
KeyIsThere(f, key) ==
    LET hidx == Index(f.hash, key)
    IN  IF f.hash.kind = "linear" THEN hidx <= f.hash.size - 1 ELSE f.table[hidx].key = key

LookUp(f, key) == IF KeyIsThere(f, key) THEN f.table[Index(f.hash, key)].rule ELSE 0
=============================================================================
