--------------------------- MODULE XedMemopProps ----------------------------
(***************************************************************************)
(* What a memory operand must keep on its way through the direct encoder,  *)
(* the decoder and the address computation.                                *)
(***************************************************************************)
EXTENDS XedMemop

-----------------------------------------------------------------------------
Decoded == pc = "done"

(* The operand a call asks for.  The byte of an EVEX function with an 8-bit *)
(* displacement is what the instruction holds, in widths of the operand.    *)
AskedFor(c) ==
    [base |-> c.base, index |-> c.index,
     scale |-> IF c.index = NoReg \/ c.mode = Mode16 THEN 1 ELSE c.scale,
     disp |-> IF c.dispsz = 8 /\ c.form.space = Evex THEN c.disp * c.form.width ELSE c.disp]

(* the 16-bit forms know no order of base and index *)
SameOperand(o, c) ==
    LET a == AskedFor(c)
    IN  /\ o.disp = a.disp /\ o.scale = a.scale
        /\ \/ o.base = a.base /\ o.index = a.index
           \/ c.mode = Mode16 /\ o.base = a.index /\ o.index = a.base

(* What the bytes emitted for a call decode to is what the call asked for: *)
(* an instruction of their length and of its form, with its operands.      *)
ComesBack ==
    Decoded =>
       /\ error = "NONE" /\ ~out_of_bytes
       /\ length = Len(emitted)
       /\ enc.vexvalid = call.form.space /\ enc.map = call.form.map
       /\ enc.opcode = call.form.opcode
       /\ agen # "idle" => SameOperand(insn.memop[0], call) /\ reg = call.reg

(* Calls that are known to be encoded wrongly: an EVEX displacement of     *)
(* more than a byte that would fit a scaled one, and a register above 15   *)
(* in a form whose prefix has no room for its top bit.                     *)
EvexDispGoesWrong(c) == c.form.space = Evex /\ c.dispsz \in {16, 32} /\ FitsScaled(c)
RegisterGoesWrong(c) ==
    /\ c.form.space = Vex \/ (c.form.space = Legacy /\ ~c.form.rex2)
    /\ \E r \in {c.base, c.reg} \cup (IF c.form.vsib THEN {} ELSE {c.index}) : r \in 16..31

(* A form of which nothing but a memory operand follows the opcode, and    *)
(* whose opcode is no escape and no first byte of a prefix, as those of    *)
(* LES, LDS, BOUND and POP are.  REX2 has room for two maps.               *)
PrefixOpcodes == LegacyPrefixes \cup RexPrefixes \cup LesOpcodes \cup {\h0F, \hD5}
PlainForm(f) ==
    LET info == MapInfo(f.space, f.map)
    IN  /\ info.modrm # No
        /\ info.modrm = Var => ModrmCode(f.space, f.map, f.opcode) = ModrmTrue
        /\ info.disp = Var => \A cx \in Context : DispWidth(f.space, f.map, f.opcode, cx) = Keep
        /\ \/ info.imm = 0
           \/ info.imm = ImmVar /\ \A cx \in Context :
                  ImmWidth(f.space, f.map, f.opcode, cx) = [imm |-> 0, imm1 |-> 0]
        /\ f.space = Legacy /\ f.map = 0 => f.opcode \notin PrefixOpcodes
        /\ f.space = Legacy /\ f.map = 1 => EscapeMap(f.opcode) = 1
        /\ f.space = Legacy => (f.rex2 => f.map <= 1) /\ ~f.vsib

(* A call of a function there is: its displacement is one of the mode and  *)
(* fits its type, a vector index is always given and never with 16-bit     *)
(* addresses, and what an unchecked function is called with is what the    *)
(* checked one would let through, an operand relative to the instruction   *)
(* pointer, or refused all the same.                                       *)
RipRelative(c) == c.mode = Mode64 /\ c.base = Rip /\ c.index = NoReg /\ c.dispsz \in {0, 32}
InType(v, bits) ==
    /\ bits = 0 => v = 0
    /\ bits = 8 => -128 <= v /\ v <= 127
    /\ bits = 16 => -32768 <= v /\ v <= 32767
    /\ bits = 32 => -2147483647 - 1 <= v /\ v <= 2147483647
PlainCall(c) ==
    /\ PlainForm(c.form)
    /\ c.dispsz \in {0, 8, IF c.mode = Mode16 THEN 16 ELSE 32}
    /\ InType(c.disp, c.dispsz)
    /\ c.form.vsib => c.index # NoReg /\ c.mode # Mode16
    /\ c.checked \/ ArgumentsOK(c) \/ RipRelative(c) \/ OperandError(c)
ASSUME PlainCalls == \A c \in Calls : PlainCall(c)

(* Every operand the checked functions of the direct encoder let through,  *)
(* other than those, comes back from xed_decode as it was asked for: base, *)
(* index, scale, displacement and the register of modrm.reg, through REX,  *)
(* REX2, VEX and EVEX, with or without a SIB byte.                         *)
OperandComesBack == EvexDispGoesWrong(call) \/ RegisterGoesWrong(call) \/ ComesBack

(* "d32" functions take a 32-bit displacement: whichever it is, an EVEX    *)
(* instruction encoded with one decodes to it.                             *)
EveryDispComesBack == call.form.space = Evex => ComesBack

(* The checked functions are to reject arguments the instruction cannot    *)
(* encode, so any that they let through decode to themselves.              *)
EveryRegisterComesBack == call.form.space # Evex => ComesBack

-----------------------------------------------------------------------------
(* The address the processor forms from the operand of the call, in        *)
(* numbers as large as they come, cut to the address size once and, with   *)
(* the segment added, to the linear addresses of the mode.                 *)
Value(r) == IF r = NoReg THEN 0 ELSE RegisterValue(r)
Size == 16 * 2^call.mode
MeantOffset ==
    LET a == AskedFor(call)
    IN  IF ask.memop_index = 1
        THEN IF call.form.push THEN Value(SP) - PushBytes ELSE 0
        ELSE Value(a.base) + Value(a.index) * a.scale + a.disp
             + (IF a.base = Rip THEN Len(emitted) ELSE 0)
MeantBase ==
    LET seg == insn.memop[ask.memop_index].seg
    IN  IF seg = NoReg THEN 0
        ELSE IF realmode THEN RegisterValue(seg) * 16 ELSE SegmentBase(seg)
MeantAddress ==
    (MeantBase + (MeantOffset % AddressMax(Size))) % AddressMax(IF Size = 64 THEN 64 ELSE 32)

(* The segments the processor uses, from the call and not from the bytes.  *)
MeantSegment ==
    IF ask.memop_index = 1 THEN IF call.form.push /\ call.mode # Mode64 THEN SS ELSE NoReg
    ELSE IF call.mode = Mode64 THEN IF call.seg \in {44, 45} THEN call.seg ELSE NoReg
    ELSE IF call.seg # NoReg THEN call.seg
    ELSE IF call.base \in {BP} \/ (call.base = SP /\ call.mode = Mode32) THEN SS ELSE DS

(* xed_agen returns the address of the operand that was asked for.         *)
AddressOfOperand ==
    out_address # {} =>
       /\ insn.memop[ask.memop_index].seg = MeantSegment
       /\ out_address = {MeantAddress}

(* xed_agen does so, unless a 16-bit address behind its segment takes more *)
(* than 16 bits, a segment override stands before an operand relative to   *)
(* the instruction pointer, or the operand was encoded wrongly.            *)
AddressIsMeant ==
    out_address # {} =>
       \/ EvexDispGoesWrong(call) \/ RegisterGoesWrong(call)
       \/ Size = 16 /\ MeantAddress >= AddressMax(16)
       \/ call.base = Rip /\ MeantSegment # NoReg
       \/ AddressOfOperand

(* An address is stored only when every callback it takes has answered     *)
(* without a problem, and an error is returned otherwise: the client never *)
(* sees an address made of a value that a callback disowned.               *)
NoAddressOfAFailure ==
    agen = "returned" =>
       /\ problem => out_address = {} /\ returned = "CALLBACK_PROBLEM"
       /\ returned = "NONE" <=> out_address # {}
=============================================================================
