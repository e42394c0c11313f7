---------------------------- MODULE MCXedEncode -----------------------------
(***************************************************************************)
(* A client that encodes a few instructions into arrays of every length.   *)
(***************************************************************************)
EXTENDS XedEncodeProps

F(val, bits) == [val |-> val, bits |-> bits, whole |-> FALSE]
B(val) == [val |-> val, bits |-> 8, whole |-> TRUE]
Rule(stage, fields) == [stage |-> stage, fields |-> fields]
Passes(error) == [outcome |-> "next", error |-> error, rules |-> <<>>]
Takes(rs) == [outcome |-> "bound", error |-> FALSE, rules |-> rs]
Refused == [outcome |-> "refused", error |-> FALSE, rules |-> <<>>]

ModRM == <<F("mod", 2), F("reg", 3), F("rm", 3)>>
NoPrefix == Rule("prefix", <<>>)
NoRex == Rule("rex", <<>>)

(* the rules of avx-vex-enc.txt and avx512-evex-enc.txt that emit something *)
Vex2 == <<Rule("rex", <<F("C5", 8)>>), Rule("rex", <<F("r", 1)>>), Rule("rex", <<>>),
          Rule("rex", <<>>), Rule("rex", <<F("vvvv", 4)>>), Rule("rex", <<F("Lpp", 3)>>)>>
Vex3 == <<Rule("rex", <<F("C4", 8)>>), Rule("rex", <<F("r", 1)>>), Rule("rex", <<F("xb", 2)>>),
          Rule("rex", <<F("map", 5), F("w", 1)>>), Rule("rex", <<F("vvvv", 4)>>),
          Rule("rex", <<F("Lpp", 3)>>)>>
Evex == <<Rule("rex", <<F("62", 8), F("r", 1)>>), Rule("rex", <<F("x", 1)>>),
          Rule("rex", <<F("b", 1)>>), Rule("rex", <<F("r4", 1)>>),
          Rule("rex", <<F("b4", 1), F("map", 3)>>), Rule("rex", <<F("w", 1), F("vvvv", 4)>>),
          Rule("rex", <<F("u", 1)>>), Rule("rex", <<F("pp", 2)>>),
          Rule("rex", <<F("z_LL_b", 4), F("v4", 1), F("aaa", 3)>>)>>

(* SIB and displacement: the nonterminal MODRM, with a rule for each *)
Memory(sib, disp, width) ==
    <<Rule("MODRM", IF sib THEN <<F("sib", 8)>> ELSE <<>>),
      Rule("MODRM", IF width = 0 THEN <<>> ELSE <<F(disp, width)>>)>>

(* an immediate has a nonterminal of its own *)
Imm(nt, val, bits) == <<Rule(nt, <<F(val, bits)>>)>>

Enter ==
    <<NoPrefix, NoRex, Rule("instruction", <<B("C8")>>)>>
    \o Imm("UIMM16", "uimm0", 16) \o Imm("UIMM8_1", "uimm1", 8)

AddRest(o) ==
    <<Rule("instruction", <<B("81")>> \o ModRM)>>
    \o Memory(o.base0 # "RIP", o.disp, o.disp_width) \o Imm("SIMMz", "uimm0", 32)

(* ADD of an immediate to memory, with an operand size and a lock prefix *)
Add(o) ==
    <<Rule("prefix", <<F("66", 8), F("F0", 8)>>),
      IF o.has_egpr THEN Rule("rex", <<F("D5", 8), F("muyz_wrxb", 8)>>)
                    ELSE Rule("rex", <<F("0100", 4), F("wrxb", 4)>>)>> \o AddRest(o)
AddEvex(o) == <<NoPrefix>> \o Evex \o AddRest(o)

MovOffset(o) == <<NoPrefix, NoRex, Rule("instruction", <<B("A0")>>)>> \o Imm("MEMDISPv", o.disp, 64)

Shuffle == <<Rule("instruction", <<B("70")>> \o ModRM)>> \o Imm("UIMM8", "uimm0", 8)

VL(regs) == IF ToSet(regs) \cap ZMM # {} THEN 2 ELSE IF ToSet(regs) \cap YMM # {} THEN 1 ELSE 0

(* the encodings tried for an iclass, in their order *)
MCBind(o) ==
    CASE o.iclass = "ENTER" -> <<Takes(Enter)>>
      [] o.iclass = "ADD" /\ ~o.must_use_evex -> <<Takes(Add(o))>>
      [] o.iclass = "ADD" /\ o.must_use_evex -> <<Passes(FALSE), Takes(AddEvex(o))>>
      [] o.iclass = "MOV" /\ o.base0 = "INVALID" -> <<Takes(MovOffset(o))>>
      [] o.iclass = "MOV" /\ o.base0 # "INVALID" ->    \* no such displacement in a ModRM form
           <<Passes(FALSE), Passes(TRUE)>>
      [] o.iclass = "MOV_AH" -> <<Refused>>            \* of a register that needs REX
      [] o.iclass = "VPSHUFD" /\ VL(o.regs) # o.vl -> <<Passes(FALSE), Passes(FALSE), Passes(FALSE)>>
      [] o.iclass = "VPSHUFD" /\ VL(o.regs) = o.vl ->
           CASE o.vl = 2 -> <<Passes(FALSE), Passes(FALSE), Takes(<<NoPrefix>> \o Evex \o Shuffle)>>
             [] o.base0 = "R8" -> <<Takes(<<NoPrefix>> \o Vex3 \o Shuffle)>>
             [] OTHER -> <<Takes(<<NoPrefix>> \o Vex2 \o Shuffle)>>
      [] OTHER -> <<>>

OneOf(iclass) == [iclass |-> iclass]
Mem(iclass, base, width) ==
    [iclass |-> iclass, mem0 |-> TRUE, base0 |-> base, disp_width |-> width, disp |-> "disp"]
Vector(regs) == [iclass |-> "VPSHUFD", regs |-> regs]

AllSettings ==
    {OneOf("ENTER"), OneOf("MOV_AH"), OneOf("NO_GROUP"), Mem("ADD", "RAX", 0), Mem("ADD", "RAX", 32),
     Mem("ADD", "RIP", 8), Mem("ADD", "R16", 8), Mem("MOV", "INVALID", 64), Mem("MOV", "RAX", 64),
     [iclass |-> "ADD", mem0 |-> TRUE, base0 |-> "RAX", nf |-> TRUE],
     Vector(<<"XMM0">>), Vector(<<"YMM0">>), Vector(<<"ZMM0">>), Vector(<<"XMM0", "INVALID", "ZMM0">>),
     [iclass |-> "VPSHUFD", regs |-> <<"YMM0">>, mem0 |-> TRUE, base0 |-> "R8", mem_width |-> 32]}

(* an encoding of each stage structure, and each operand preconditioning writes *)
SomeSettings ==
    {OneOf("ENTER"), Mem("ADD", "RIP", 8), Mem("MOV", "RAX", 64),
     [iclass |-> "ADD", mem0 |-> TRUE, base0 |-> "RAX", nf |-> TRUE],
     Vector(<<"XMM0">>), Vector(<<"YMM0">>)}

(* All requests with all rooms in the first call, in the second one any      *)
(* request behind some, with three rooms.                                    *)
Explored ==
    \/ calls = 0
    \/ calls = 1 /\ pc # "client"
    \/ /\ given \in {1, 3, 15}
       /\ calls = 1 => opened \in {With(Zeroed, s) : s \in SomeSettings}

FieldsFor(bind(_), settings) ==
    LET answers == UNION {ToSet(bind(Precondition(With(Zeroed, s)))) : s \in settings}
    IN  UNION {ToSet(r.fields) : r \in UNION {ToSet(a.rules) : a \in answers}}
MCFields ==
    FieldsFor(MCBind, AllSettings) \cup {F(d, w) : d \in {"disp", "zero"}, w \in {8, 32, 64}}

(* What the proofs take the generated functions to answer, MCBind answers. *)
ASSUME MCBindEmitsBytes ==
    Settings = AllSettings =>
       \A s, t \in Settings :
          LET as == Bind(Precondition(With(Precondition(With(Zeroed, s)), t)))
          IN  EmitsBytes(as) /\ ErrorIsLast(as)

(* The emitter on its own: three fields of any of these widths, within a    *)
(* byte, across one boundary and across two.  Operands stand for the widths. *)
Width == [w1 |-> 1, w3 |-> 3, w7 |-> 7, w8 |-> 8, w9 |-> 9, w12 |-> 12, w18 |-> 18]
Widths == [iclass : {"ANY"}, base0 : DOMAIN Width, base1 : DOMAIN Width, index : DOMAIN Width]
AnyBind(o) ==
    IF ~({o.base0, o.base1, o.index} \subseteq DOMAIN Width) THEN <<>>
    ELSE <<Passes(FALSE),
           Takes(<<Rule("instruction", <<F("f1", Width[o.base0]), F("f2", Width[o.base1]),
                                         F("f3", Width[o.index])>>)>>)>>
AnyFields == FieldsFor(AnyBind, Widths)
=============================================================================
