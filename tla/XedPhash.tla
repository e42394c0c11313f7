------------------------------ MODULE XedPhash ------------------------------
(***************************************************************************)
(* How the generator makes the static decoder's lookup for one opcode of   *)
(* one map: it takes the patterns that share the opcode, replaces some of  *)
(* the operands they test by narrower ones, multiplies the patterns out    *)
(* over all operands into a dictionary from keys to rules, and searches    *)
(* for a hash function of the keys, or two levels of them.                 *)
(***************************************************************************)
EXTENDS XedHash

CONSTANTS
    Groups,         \* the patterns that share an opcode
    Order,          \* place of an operand's name in their order
    Width,          \* bits of an operand in a key
    StateSpace      \* the values the grammar has for an operand

(* a test is an operand decider, "eq" or "ne"; a bound field is an "eq" *)
Tests == [operand : DOMAIN StateSpace, test : {"eq", "ne"}, value : Nat]
Compressed == {"MOD3", "VEXDEST210_7", "VEXDEST_1F", "RM4", "MASK_ZERO"}

ASSUME GroupAssumption ==
    \A g \in Groups : \A p \in g :
       /\ p.rule \in Nat \ {0} /\ p.tests \subseteq Tests
       /\ \A q \in g : q.rule = p.rule => q = p
       /\ \A t, u \in p.tests : t.operand = u.operand => t = u   \* no contradictions

ASSUME OperandAssumption ==
    /\ IsFiniteSet(DOMAIN StateSpace) /\ DOMAIN StateSpace \cap Compressed = {}
    /\ \A n \in DOMAIN StateSpace \cup Compressed :
          /\ Order[n] \in Nat /\ 2^Width[n] \in Nat
          /\ \A m \in DOMAIN StateSpace \cup Compressed : Order[m] = Order[n] => m = n
          /\ (IF n \in Compressed THEN {0, 1} ELSE StateSpace[n]) \subseteq 0..(2^Width[n] - 1)

(* What the data files have of the operands that may be narrowed.  The     *)
(* fourth bit of the VEX destination is tested in NOEVSR only, and no      *)
(* pattern says what its lower three bits are not.                         *)
ASSUME GrammarAssumption ==
    /\ \A g \in Groups :
          /\ g # {} /\ IsFiniteSet(g)
          /\ \A p \in g : \A t \in p.tests :
                /\ t.value \in StateSpace[t.operand]
                /\ t.operand = "VEXDEST210" => t.test = "eq"
                /\ t.operand = "VEXDEST4" => t.test = "eq" /\ t.value = 0
    /\ \A op \in DOMAIN StateSpace :
          /\ op = "MOD" => 3 \in StateSpace[op] /\ StateSpace[op] # {3}
          /\ op = "VEXDEST210" => 7 \in StateSpace[op] /\ StateSpace[op] # {7}
          /\ op \in {"VEXDEST3", "VEXDEST4"} => StateSpace[op] = {0, 1}
          /\ op = "MASK" => StateSpace[op] \subseteq 0..7 /\ 0 \in StateSpace[op] /\ StateSpace[op] # {0}

VARIABLES
    stage,          \* what is done next, or how it ended
    ptrns,          \* the patterns, with their constraints
    cnames,         \* the operands that make the key
    dict,           \* key to rule
    top,            \* {the hash function of the first of two levels}
    funcs           \* bucket to lookup function, bucket 0 for one level

phashvars == <<stage, ptrns, cnames, dict, top, funcs>>

(* add_op_deciders *)
Values(tests, op) ==
    UNION {IF t.test = "eq" THEN {t.value} ELSE StateSpace[op] \ {t.value} :
             t \in {u \in tests : u.operand = op}}
Constraints(tests) == [op \in {t.operand : t \in tests} |-> Values(tests, op)]

Pattern(p) == [tests |-> p.tests, rule |-> p.rule, constraints |-> Constraints(p.tests)]

PhashInit ==
    /\ \E g \in Groups : ptrns = {Pattern(p) : p \in g}
    /\ cnames = UNION {DOMAIN p.constraints : p \in ptrns}
    /\ stage = "mod3"
    /\ dict = << >> /\ top = {} /\ funcs = << >>

HasTest(p, op, test, value) == [operand |-> op, test |-> test, value |-> value] \in p.tests

(* the values of an operand that the pattern constrains, {} if it does not *)
Constraint(p, op) == IF op \in DOMAIN p.constraints THEN p.constraints[op] ELSE {}

Constrained(p, op, values) ==
    [p EXCEPT !.constraints =
        [n \in DOMAIN p.constraints \cup {op} |-> IF n = op THEN values ELSE p.constraints[n]]]

(* some operands of the key give way to one, with values for each pattern *)
Replace(old, new, Vals(_)) ==
    /\ cnames' = (cnames \ old) \cup {new}
    /\ ptrns' = {Constrained(p, new, Vals(p)) : p \in ptrns}

Keep(next) == stage' = next /\ UNCHANGED <<ptrns, cnames>>

-----------------------------------------------------------------------------
ReplaceMod ==
    /\ stage = "mod3"
    /\ IF \A p \in ptrns : HasTest(p, "MOD", "eq", 3) \/ HasTest(p, "MOD", "ne", 3)
       THEN /\ stage' = "vexdest"
            /\ LET Mod3(p) == IF HasTest(p, "MOD", "eq", 3) THEN {1} ELSE {0}
               IN  Replace({"MOD"}, "MOD3", Mod3)
       ELSE Keep("vexdest")
    /\ UNCHANGED <<dict, top, funcs>>

(* mutant: only the test that is there is kept *)
SevenOnly(p) == IF HasTest(p, "VEXDEST210", "eq", 7) THEN {1} ELSE {0}

(* A pattern without the test takes both values. *)
Seven(p) == IF HasTest(p, "VEXDEST210", "eq", 7) THEN {1} ELSE {0, 1}

OnlySeven(p) ==
    LET values == Constraint(p, "VEXDEST210") IN Cardinality(values) = 1 => 7 \in values

ReplaceVexdest210 ==
    /\ stage = "vexdest"
    /\ IF "VEXDEST210" \in cnames /\ \A p \in ptrns : OnlySeven(p)
       THEN stage' = "vexdest_1f" /\ Replace({"VEXDEST210"}, "VEXDEST210_7", Seven)
       ELSE Keep("rm")
    /\ UNCHANGED <<dict, top, funcs>>

(* get_constraint_bit, for an operand of one bit *)
Bit(p, op) ==
    CASE Constraint(p, op) \in {{}, {0, 1}} -> "any"
      [] Constraint(p, op) = {1}            -> "one"
      [] Constraint(p, op) = {0}            -> "zero"

(* The fourth bit is stored inverted; the code makes either value a one.   *)
Bit4(p) == IF Bit(p, "VEXDEST4") = "any" THEN "any" ELSE "one"

VexdestBits == {"VEXDEST210_7", "VEXDEST3", "VEXDEST4"}
TrivialVexdest(p) ==
    {Bit(p, "VEXDEST210_7"), Bit(p, "VEXDEST3"), Bit4(p)} \in {{"one"}, {"any"}}

(* The test for the fourth bit looks at the third. *)
Found(p) == {Constraint(p, "VEXDEST210_7") = {1},
             \E t \in p.tests : t.operand = "VEXDEST3" /\ t.test = "eq"}

ReplaceVexdest ==
    /\ stage = "vexdest_1f"
    /\ IF VexdestBits \subseteq cnames /\ \A p \in ptrns : TrivialVexdest(p)
       THEN IF \E p \in ptrns : Found(p) = BOOLEAN
            THEN Keep("failed")
            ELSE /\ stage' = "rm"
                 /\ LET OneF(p) == IF Found(p) = {TRUE} THEN {1} ELSE {0, 1}
                    IN  Replace(VexdestBits, "VEXDEST_1F", OneF)
       ELSE Keep("rm")
    /\ UNCHANGED <<dict, top, funcs>>

ReplaceRm ==
    /\ stage = "rm"
    /\ IF "RM" \in cnames /\ \A p \in ptrns : Constraint(p, "RM") = {4}
       THEN /\ stage' = "mask"
            /\ LET One(p) == {1} IN Replace({"RM"}, "RM4", One)
       ELSE Keep("mask")
    /\ UNCHANGED <<dict, top, funcs>>

(* MASK is tested for zero, or takes any value *)
ZeroOrAny(p) ==
    \/ "MASK" \notin DOMAIN p.constraints
    \/ p.constraints["MASK"] = {0} /\ HasTest(p, "MASK", "eq", 0)
    \/ p.constraints["MASK"] = 0..7

MaskZero(p) == IF Constraint(p, "MASK") = {0} THEN {1} ELSE {0, 1}

ReplaceMask ==
    /\ stage = "mask"
    /\ IF "MASK" \in cnames /\ \A p \in ptrns : ZeroOrAny(p)
       THEN stage' = "unite" /\ Replace({"MASK"}, "MASK_ZERO", MaskZero)
       ELSE Keep("unite")
    /\ UNCHANGED <<dict, top, funcs>>

-----------------------------------------------------------------------------
(* tuple2int: the fields of a key side by side, in the order of the names  *)
First(names) == CHOOSE n \in names : \A m \in names : Order[n] <= Order[m]
KeyOf(names, values) ==
    LET key[ns \in SUBSET names] ==
          IF ns = {} THEN 0
          ELSE values[First(ns)] + 2^Width[First(ns)] * key[ns \ {First(ns)}]
    IN  key[names]

Allowed(p, op) == IF op \in DOMAIN p.constraints THEN p.constraints[op] ELSE StateSpace[op]

(* All combinations of values a pattern allows.  One that constrains       *)
(* nothing has none: its empty constraints are taken for missing ones.     *)
Tuples(p) ==
    IF DOMAIN p.constraints = {} THEN {}
    ELSE {t \in [cnames -> UNION {Allowed(p, op) : op \in cnames}] :
             \A op \in cnames : t[op] \in Allowed(p, op)}

Keys(p) == {KeyOf(cnames, t) : t \in Tuples(p)}

(* the rule alone, for a key of nothing *)
Always(rule) == [hash |-> [kind |-> "trivial"], rule |-> rule]

(* mutant: one operand in common is enough for a conflict *)
ConflictingInPart ==
    \E p, q \in ptrns : p # q /\ \E op \in cnames : Allowed(p, op) \cap Allowed(q, op) # {}

Conflicting == \E p, q \in ptrns : p # q /\ Tuples(p) \cap Tuples(q) # {}

United ==
    LET keysOf == [p \in ptrns |-> Keys(p)]
    IN  [x \in UNION {keysOf[p] : p \in ptrns} |-> (CHOOSE p \in ptrns : x \in keysOf[p]).rule]

(* two tuples with one key, or no tuple at all *)
NoDictionary ==
    LET all == UNION {Tuples(p) : p \in ptrns}
    IN  Cardinality({KeyOf(cnames, t) : t \in all}) < Cardinality(all) \/ DOMAIN United = {}

(* unite_dicts and create_tuple2int *)
Unite ==
    /\ stage = "unite"
    /\ \/ cnames = {} /\ Cardinality(ptrns) > 1 /\ stage' = "failed" /\ UNCHANGED <<dict, funcs>>
       \/ /\ cnames = {} /\ Cardinality(ptrns) = 1
          /\ stage' = "done"
          /\ \E p \in ptrns : funcs' = [i \in {0} |-> Always(p.rule)]
          /\ UNCHANGED dict
       \/ cnames # {} /\ Conflicting /\ stage' = "conflict" /\ UNCHANGED <<dict, funcs>>
       \/ /\ cnames # {} /\ ~Conflicting
          /\ dict' = United
          /\ stage' = IF NoDictionary THEN "failed" ELSE "one_level"
          /\ UNCHANGED funcs
    /\ UNCHANGED <<ptrns, cnames, top>>

-----------------------------------------------------------------------------
(* _gen_hash_one_level *)
SearchOneLevel ==
    /\ stage = "one_level"
    /\ \/ \E h \in OneLevel(DOMAIN dict) :
             stage' = "done" /\ funcs' = [i \in {0} |-> Function(h, dict)]
       \/ OneLevel(DOMAIN dict) = {} /\ stage' = "two_levels" /\ UNCHANGED funcs
    /\ UNCHANGED <<ptrns, cnames, dict, top>>

(* the first half of _find_l2_phash *)
SearchTopLevel ==
    /\ stage = "two_levels"
    /\ top' = TopLevel(DOMAIN dict)
    /\ stage' = IF top' = {} THEN "failed" ELSE "buckets"
    /\ UNCHANGED <<ptrns, cnames, dict, funcs>>

BucketsOf(h) == {Apply(h, x) : x \in DOMAIN dict}
Bucket(h, i) == [x \in {y \in DOMAIN dict : Apply(h, y) = i} |-> dict[x]]

(* l2_phash_t: a function of one level for the next bucket *)
SearchBucket ==
    /\ stage = "buckets"
    /\ \E h \in top :
          LET i == Min(BucketsOf(h) \ DOMAIN funcs)
              found == OneLevel(DOMAIN Bucket(h, i))
          IN  \/ \E f \in found :
                    /\ funcs' = [j \in DOMAIN funcs \cup {i} |->
                                   IF j = i THEN Function(f, Bucket(h, i)) ELSE funcs[j]]
                    /\ stage' = IF DOMAIN funcs' = BucketsOf(h) THEN "done" ELSE "buckets"
              \/ found = {} /\ stage' = "failed" /\ UNCHANGED funcs
    /\ UNCHANGED <<ptrns, cnames, dict, top>>

PhashNext ==
    \/ ReplaceMod \/ ReplaceVexdest210 \/ ReplaceVexdest \/ ReplaceRm \/ ReplaceMask
    \/ Unite \/ SearchOneLevel \/ SearchTopLevel \/ SearchBucket

SpecPhash == PhashInit /\ [][PhashNext]_phashvars

-----------------------------------------------------------------------------
(* What the generated function answers for a key: the rule, or 0.  In two  *)
(* levels an empty slot holds xed_phash_invalid.                           *)
AnswerTo(key) ==
    IF top = {} THEN IF funcs[0].hash.kind = "trivial" THEN funcs[0].rule ELSE LookUp(funcs[0], key)
    ELSE LET h == CHOOSE h \in top : TRUE
         IN  IF Index(h, key) \in DOMAIN funcs THEN LookUp(funcs[Index(h, key)], key) ELSE 0

(* the accessors of the narrower operands *)
Accessor(name, values) ==
    LET Flag(b) == IF b THEN 1 ELSE 0
    IN  CASE name = "MOD3"         -> Flag(values["MOD"] = 3)
          [] name = "RM4"          -> Flag(values["RM"] = 4)
          [] name = "MASK_ZERO"    -> Flag(values["MASK"] = 0)
          [] name = "VEXDEST210_7" -> Flag(values["VEXDEST210"] = 7)
          [] name = "VEXDEST_1F"   ->
               Flag(values["VEXDEST210"] = 7 /\ values["VEXDEST3"] = 1 /\ values["VEXDEST4"] = 0)
          [] OTHER -> values[name]

KeyFor(values) == KeyOf(cnames, [n \in cnames |-> Accessor(n, values)])
=============================================================================
