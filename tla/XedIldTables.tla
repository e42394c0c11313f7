---------------------------- MODULE XedIldTables ----------------------------
(***************************************************************************)
(* The tables the instruction length decoder (ILD) looks things up in:     *)
(* effective operand and address size, the regular displacement and SIB    *)
(* tables of the ModRM byte, and the map descriptions of the data files,   *)
(* which say for every opcode map of every encoding space whether a ModRM  *)
(* byte, a displacement and an immediate follow the opcode.                *)
(***************************************************************************)
EXTENDS Integers

Byte256 == 0..255

(* A field of w bits of byte b, its lowest bit being bit p.                *)
Bits(b, p, w) == (b \div 2^p) % 2^w

(* Machine modes, numbered as the MODE operand is.                         *)
Mode16 == 0
Mode32 == 1
Mode64 == 2
Modes == {Mode16, Mode32, Mode64}

(* Encoding spaces, numbered as the VEXVALID operand is.                   *)
Legacy == 0
Vex == 1
Evex == 2
Xop == 3
Spaces == {Legacy, Vex, Evex, Xop}

Amd3DNow == 4      \* the id the generator gives the 3DNow! map: the first unused one
InvalidMap == 8    \* XED_ILD_MAP_INVALID: one more than the last enumerator, vex-map7
MapIds == 0..31 

-----------------------------------------------------------------------------
(* EOSZ and EASZ: 1, 2 and 3 stand for 16, 32 and 64 bits.                 *)
EOSZ(mode, osz, rexw) ==
    CASE mode = Mode16 -> IF osz = 1 THEN 2 ELSE 1
      [] mode = Mode32 -> IF osz = 1 THEN 1 ELSE 2
      [] mode = Mode64 -> IF rexw = 1 THEN 3 ELSE IF osz = 1 THEN 1 ELSE 2

(* eamode_table[asz][mode] *)
EaMode(mode, asz) ==
    IF asz = 0 THEN mode
    ELSE IF mode = Mode32 THEN Mode16 ELSE Mode32

EASZ(mode, asz) == EaMode(mode, asz) + 1

(* Bytes bound by the immediate and displacement nonterminals of the grammar *)
SIMMz(eosz) == IF eosz = 1 THEN 2 ELSE 4
UIMMv(eosz) == 2^eosz
BRDISPz(eosz) == IF eosz = 1 THEN 2 ELSE 4
MEMDISPv(easz) == 2^easz

(* has_disp_regular[eamode][mod][rm], in bytes *)
HasDispRegular(eamode, mod, rm) ==
    IF eamode = Mode16
    THEN IF mod = 0 /\ rm = 6 THEN 2
         ELSE IF mod \in {1, 2} THEN mod ELSE 0
    ELSE CASE mod = 1 -> 1
           [] mod = 2 -> 4
           [] mod = 0 -> IF rm = 5 THEN 4 ELSE 0
           [] OTHER   -> 0

(* has_sib_table[eamode][mod][rm] *)
HasSib(eamode, mod, rm) == eamode # Mode16 /\ mod # 3 /\ rm = 4

-----------------------------------------------------------------------------
(* The codes copied from the map descriptions. *)
No == 0
Yes == 1
Var == 2
ImmVar == 7

Info(modrm, disp, imm) == [modrm |-> modrm, disp |-> disp, imm |-> imm]
NoInfo == Info(No, No, 0)

MapInfo(vv, map) ==
    CASE vv = Legacy /\ map \in {0, 1} -> Info(Var, Var, ImmVar)
      [] vv = Legacy /\ map = 2        -> Info(Yes, No, 0)
      [] vv = Legacy /\ map = 3        -> Info(Yes, No, 1)
      [] vv = Legacy /\ map = Amd3DNow -> Info(Yes, No, 1)
      [] vv = Vex /\ map = 1           -> Info(Var, No, ImmVar)
      [] vv = Vex /\ map \in {2, 5}    -> Info(Yes, No, 0)
      [] vv = Vex /\ map = 3           -> Info(Yes, No, 1)
      [] vv = Vex /\ map = 7           -> Info(Yes, No, 4)
      [] vv = Evex /\ map \in {1, 4}   -> Info(Yes, No, ImmVar)
      [] vv = Evex /\ map \in {2, 5, 6} -> Info(Yes, No, 0)
      [] vv = Evex /\ map = 3          -> Info(Yes, No, 1)
      [] vv = Evex /\ map = 7          -> Info(Yes, Var, ImmVar)
      [] vv = Xop /\ map = 8           -> Info(Yes, No, 1)
      [] vv = Xop /\ map = 9           -> Info(Yes, No, 0)
      [] vv = Xop /\ map = 10          -> Info(Yes, No, 4)
      [] OTHER                         -> NoInfo

ValidVexMap(map) == map \in {1, 2, 3, 5, 7}
ValidEvexMap(map) == map \in 1..7
ValidXopMap(map) == map \in {8, 9, 10}

(* XED_ILD_HASMODRM_*: what the ModRM table says of an opcode. *)
ModrmFalse == 0
ModrmTrue == 1
ModrmIgnoreMod == 2
ModrmUndef == 3
ModrmUd0 == 4
ModrmCodes == 0..4
=============================================================================
