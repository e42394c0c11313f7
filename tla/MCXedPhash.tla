----------------------------- MODULE MCXedPhash -----------------------------
(***************************************************************************)
(* Patterns of a few operands, with a word of ten bits for 32.             *)
(***************************************************************************)
EXTENDS XedPhashProps, Sequences

Names == <<"MASK", "MASK_ZERO", "MOD", "MOD3", "REG", "REP", "REXW", "RM", "RM4", "UIMM0",
           "VEXDEST210", "VEXDEST210_7", "VEXDEST3", "VEXDEST4", "VEXDEST_1F", "WBNOINVD">>
MCOrder == [n \in {Names[i] : i \in 1..Len(Names)} |-> CHOOSE i \in 1..Len(Names) : Names[i] = n]
MCWidth ==
    [n \in DOMAIN MCOrder |->
       CASE n \in {"MASK", "REG", "RM", "VEXDEST210"} -> 3
         [] n \in {"MOD", "REP"} -> 2
         [] n = "UIMM0" -> 10
         [] OTHER -> 1]

(* values that no test names are left out where one of them is kept *)
MCStateSpace ==
    [n \in DOMAIN MCOrder \ Compressed |->
       CASE n = "MOD" -> {0, 1, 3}
         [] n = "REP" -> {0, 2, 3}
         [] n \in {"MASK", "VEXDEST3", "VEXDEST4", "REXW", "WBNOINVD"} -> {0, 1}
         [] n = "VEXDEST210" -> {0, 7}
         [] n = "UIMM0" -> 0..1023
         [] n \in {"REG", "RM"} -> {0, 4, 7}]

Eq(op, value) == [operand |-> op, test |-> "eq", value |-> value]
Ne(op, value) == [operand |-> op, test |-> "ne", value |-> value]
Rule(n, tests) == [rule |-> n, tests |-> tests]

(* the state bits of the grammar *)
NOVSR == {Eq("VEXDEST3", 1), Eq("VEXDEST210", 7)}
NOEVSR == NOVSR \cup {Eq("VEXDEST4", 0)}
Register == {Eq("MOD", 3)}
Memory == {Ne("MOD", 3)}

(* WBINVD and WBNOINVD, and the older WBINVD of version 1 *)
Wbnoinvd ==
    {Rule(1, {Eq("WBNOINVD", 0)}), Rule(2, {Eq("WBNOINVD", 1), Ne("REP", 3)}),
     Rule(3, {Eq("WBNOINVD", 1), Eq("REP", 3)})}
Wbinvd == Rule(4, {})

Constrain ==
    {m \cup v \cup k \cup w : m \in {{}, Register, Memory}, v \in {{}, NOVSR, NOEVSR},
                              k \in {{}, {Eq("MASK", 0)}, {Eq("MASK", 1)}}, w \in {{}, {Eq("REXW", 1)}}}

Pairs == {{Rule(1, a), Rule(2, b)} : a \in Constrain, b \in Constrain}

(* memory forms and register forms with a constant RM, REG in both *)
Triples ==
    {{Rule(1, a \cup {Eq("REG", 4)}), Rule(2, b \cup {Eq("REG", 4)}), Rule(3, {Eq("REG", 7)} \cup c)} :
        a \in {Register \cup {Eq("RM", 4)}, Register \cup {Eq("RM", 0)}},
        b \in {Memory, Memory \cup {Eq("RM", 4)}, Memory \cup NOEVSR},
        c \in {{}, {Eq("RM", 4)}, Register, {Eq("MASK", 0)}}}

(* One pattern for each of these immediates: any keys at all.  The last    *)
(* lists are keys that the mul functions crowd together; those of the last *)
(* but one are equal for every prime.                                      *)
Immediates(values) == {Rule(v + 1, {Eq("UIMM0", v)}) : v \in values}
Spread ==
    {S \in SUBSET {0, 1, 2, 5, 9, 17, 21, 34, 63} : Cardinality(S) >= 1}
    \cup {{7 * i + j : i \in 0..8, j \in js} : js \in {{0}, {0, 1}, {0, 3}, {1, 2, 5}}}
    \cup {{(i * i) % 64 : i \in 0..n} : n \in {5, 9, 20}}
    \cup {3..7, 60..63, {0, 390, 555, 720, 885}, {47, 377, 809, 859, 885}}

MCGroups ==
    {Wbnoinvd, {Wbinvd}, Wbnoinvd \cup {Wbinvd}} \cup Pairs \cup Triples \cup {Immediates(S) : S \in Spread}

MCLookedUp == (0..130) \cup {1023, 1024, 1025, 1033, 5000, 1048575}
MCPowers == {1, 2, 4, 8, 16, 32, 64, 128, 256, 512, 1024}
=============================================================================
