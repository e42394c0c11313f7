------------------------------ MODULE XedEnc2 ------------------------------
(***************************************************************************)
(* The direct encoder, enc2, for instructions with a memory operand: one   *)
(* generated function per form and addressing mode, which sets the fields  *)
(* of a request and emits the bytes, behind a checked variant of each that *)
(* first looks at the arguments.  A call is a record of the form and the   *)
(* arguments; a request is the record of the fields of xed_enc2_req_t that *)
(* such a call may set, all zero before.  vvvv, L, W, pp, z and aaa stay   *)
(* zero, and no form has an immediate.                                     *)
(***************************************************************************)
EXTENDS XedIldTables, Sequences

CONSTANTS
    Forms,          \* the instruction forms, see FormType
    Calls           \* what the client asks for, see CallType

VARIABLES
    stage,          \* "client", then where the call is, "emitted" or "aborted" in the end
    call,
    req,
    emitted         \* the bytes emit wrote; the cursor is their number

enc2vars == <<stage, call, req, emitted>>

(* Registers by their number in their class, and those of no class. *)
Gprs == 0..31
BX == 3
SP == 4
BP == 5
SI == 6
DI == 7
NoReg == 32             \* XED_REG_INVALID
Rip == 33
Eip == 34
SegRegs == 40..45       \* ES, CS, SS, DS, FS, GS
SS == 42
DS == 43

(* A form: its opcode, whether REX2 may stand before it, whether its index *)
(* is a vector register, the bytes of the memory operand, how many         *)
(* registers modrm.reg can name, and whether it pushes on the stack.       *)
FormType == [space : {Legacy, Vex, Evex}, map : 0..7, opcode : Byte256, rex2 : BOOLEAN,
             vsib : BOOLEAN, width : 1..64, nregs : {16, 32}, push : BOOLEAN]
CallType == [mode : Modes, form : Forms, base : Gprs \cup {NoReg, Rip}, index : Gprs \cup {NoReg},
             scale : 0..8, dispsz : {0, 8, 16, 32}, disp : Int, reg : Gprs,
             seg : SegRegs \cup {NoReg}, checked : BOOLEAN]

(* of the legacy maps, 0 to 3 have escapes the functions emit *)
ASSUME Enc2Assumption ==
    /\ Forms \subseteq FormType /\ Calls \subseteq CallType
    /\ \A f \in Forms : f.space = Legacy => f.map <= 3

NoReq == [mod |-> 0, reg |-> 0, rm |-> 0, rexr |-> 0, rexx |-> 0, rexb |-> 0,
          rexr4 |-> 0, rexx4 |-> 0, rexb4 |-> 0, evexvv |-> 0,
          has_sib |-> FALSE, sibbase |-> 0, sibindex |-> 0, sibscale |-> 0,
          has_disp |-> {}, use_displacement |-> 0]

Bit3(n) == (n \div 8) % 2
Bit4(n) == (n \div 16) % 2
LittleEndian(v, n) == [i \in 1..n |-> (v \div <<1, 256, 65536, 16777216>>[i]) % 256]

InitEnc2 ==
    /\ stage = "client"
    /\ call \in Calls
    /\ req = NoReq
    /\ emitted = <<>>

-----------------------------------------------------------------------------
(* The checked variant: the xed_enc2_invalid_ functions abort.  Outside    *)
(* 64-bit mode there are eight registers; of the vector registers VEX has  *)
(* sixteen; an index is no stack pointer, and with 16 bits SI or DI.       *)
RegisterOK(mode, n, r) == r \in 0..(n - 1) /\ (mode # Mode64 => r < 8)

IndexOK(c) ==
    IF c.form.vsib THEN RegisterOK(c.mode, IF c.form.space = Vex THEN 16 ELSE 32, c.index)
    ELSE IF c.mode = Mode16 THEN c.index \in {SI, DI}
    ELSE RegisterOK(c.mode, 32, c.index) /\ c.index # SP

ArgumentsOK(c) ==
    /\ RegisterOK(c.mode, 32, c.base)
    /\ c.index # NoReg => IndexOK(c) /\ (c.mode # Mode16 => c.scale \in {1, 2, 4, 8})
    /\ RegisterOK(c.mode, c.form.nregs, c.reg)

(* a client that wants a segment override emits it first *)
SegPrefix(seg) == <<\h26, \h2E, \h36, \h3E, \h64, \h65>>[seg - 39]

CheckArguments ==
    /\ stage = "client"
    /\ emitted' = IF call.seg # NoReg THEN <<SegPrefix(call.seg)>> ELSE <<>>
    /\ stage' = IF call.checked /\ ~ArgumentsOK(call) THEN "aborted" ELSE "operand"
    /\ UNCHANGED <<call, req>>

-----------------------------------------------------------------------------
(* The displacement of an EVEX form, which the processor multiplies by the *)
(* width of the operand when it is a byte.  The division is unsigned, so   *)
(* what is negative divides to something large unless the width is 1.      *)
FitsScaled(c) ==
    /\ c.disp >= 0 \/ c.form.width = 1
    /\ c.disp \div c.form.width \in -128..127

(* xed_chose_evex_scaled_disp and ..16 *)
ChooseScaledDisp(c, r) ==
    IF c.form.space # Evex \/ c.dispsz \notin {16, 32} THEN r
    ELSE IF FitsScaled(c)
         THEN [r EXCEPT !.mod = 1, !.has_disp = @ \cup {8},
                        !.use_displacement = c.disp \div c.form.width]
         ELSE [r EXCEPT !.mod = 2, !.has_disp = @ \cup {c.dispsz}, !.use_displacement = c.disp]

(* the mod of the entry point: none, 8 bits, or more *)
ModVal(dispsz) == CASE dispsz = 0 -> 0 [] dispsz = 8 -> 1 [] OTHER -> 2

(* The 16-bit address forms; 8 where the code calls xed_enc2_error. *)
NoRm == 8
Rm16(b, i, dispsz) ==
    CASE <<b, i>> \in {<<BX, SI>>, <<SI, BX>>} -> 0
      [] <<b, i>> \in {<<BX, DI>>, <<DI, BX>>} -> 1
      [] <<b, i>> = <<BP, SI>> -> 2
      [] <<b, i>> \in {<<BP, DI>>, <<SI, BP>>, <<DI, BP>>} -> 3
      [] {b, i} = {SI, NoReg} -> 4
      [] {b, i} = {DI, NoReg} -> 5
      [] {b, i} = {BP, NoReg} /\ dispsz # 0 -> 6
      [] {b, i} = {NoReg} /\ dispsz = 0 -> 6
      [] {b, i} = {BX, NoReg} -> 7
      [] OTHER -> NoRm

(* the calls of xed_enc2_error in the setters of the operand *)
OperandError(c) ==
    IF c.mode = Mode16 THEN Rm16(c.base, c.index, c.dispsz) = NoRm
    ELSE \/ c.base = Rip /\ (c.index # NoReg \/ c.dispsz = 8)
         \/ c.index = SP /\ ~c.form.vsib
         \/ c.index # NoReg /\ c.scale \notin {1, 2, 4, 8}

(* mutant: R21 and R29 taken for registers that can do without one *)
NeedsZeroDispOfTwo(c) == c.dispsz = 0 /\ c.base \in {BP, BP + 8}

(* RBP, R13, R21 and R29 have no form without a displacement *)
NeedsZeroDisp(c) == c.dispsz = 0 /\ c.base \in Gprs /\ c.base % 8 = BP

(* RSP, R12, R20 and R28 as base need a SIB byte, and so does an index *)
NeedsSib(c) ==
    c.form.vsib \/ c.index # NoReg \/ c.base = NoReg \/ c.base % 8 = SP \/ NeedsZeroDisp(c)

WithBase(c, r) ==
    LET field == IF c.base = NoReg THEN 5 ELSE c.base % 8
        b == [r EXCEPT !.rexb = Bit3(c.base), !.rexb4 = Bit4(c.base)]
    IN  IF NeedsSib(c) THEN [b EXCEPT !.has_sib = TRUE, !.rm = 4, !.sibbase = field]
                       ELSE [b EXCEPT !.rm = field]

WithIndex(c, r) ==
    LET i == [r EXCEPT !.sibindex = c.index % 8, !.rexx = Bit3(c.index),
                       !.sibscale = CASE c.scale = 1 -> 0 [] c.scale = 2 -> 1
                                      [] c.scale = 4 -> 2 [] OTHER -> 3]
    IN  IF c.index = NoReg THEN [r EXCEPT !.sibindex = IF r.has_sib THEN 4 ELSE 0]
        ELSE IF c.form.vsib THEN [i EXCEPT !.evexvv = Bit4(c.index)]
        ELSE [i EXCEPT !.rexx4 = Bit4(c.index)]

(* a displacement of zero that the call did not ask for, and the flags     *)
(* only the functions for a vector index set                               *)
WithDispFlags(c, r) ==
    [r EXCEPT !.mod = IF NeedsZeroDisp(c) THEN 1 ELSE @,
              !.has_disp = @ \cup (IF NeedsZeroDisp(c) THEN {8} ELSE {})
                             \cup (IF c.form.vsib /\ c.dispsz # 0 THEN {c.dispsz} ELSE {})]

MemoryOperand(c, r) ==
    LET m == [r EXCEPT !.mod = ModVal(c.dispsz)]
    IN  IF c.mode = Mode16 THEN [m EXCEPT !.rm = Rm16(c.base, c.index, c.dispsz)]
        ELSE IF c.base = Rip
        THEN [m EXCEPT !.mod = 0, !.rm = 5,
                       !.has_disp = @ \cup (IF c.dispsz = 0 THEN {32} ELSE {})]
        ELSE WithDispFlags(c, WithIndex(c, WithBase(c, m)))

WithRegister(c, r) ==
    [r EXCEPT !.reg = c.reg % 8, !.rexr = Bit3(c.reg), !.rexr4 = Bit4(c.reg)]

SetOperands ==
    /\ stage = "operand"
    /\ IF OperandError(call)
       THEN stage' = "aborted" /\ UNCHANGED req
       ELSE /\ req' = MemoryOperand(call, ChooseScaledDisp(call, WithRegister(call, req)))
            /\ stage' = "prefix"
    /\ UNCHANGED <<call, emitted>>

-----------------------------------------------------------------------------
(* The bits the prefixes carry. *)
Rxb == 4 * req.rexr + 2 * req.rexx + req.rexb
Rxb4 == 4 * req.rexr4 + 2 * req.rexx4 + req.rexb4

Rex == <<\h40 + Rxb>>
Rex2Prefix == <<\hD5, 128 * call.form.map + 16 * Rxb4 + Rxb>>

(* emit_rex_if_needed, emit_rex_rex2_if_needed and the map escapes: with   *)
(* REX2 the escape of map 1 is a bit of the payload                        *)
LegacyPrefix ==
    LET wide == call.form.rex2 /\ Rxb4 # 0
        prefix == IF wide /\ call.form.map <= 1 THEN Rex2Prefix
                  ELSE IF Rxb # 0 THEN Rex ELSE <<>>
        escape == CASE call.form.map = 0 -> <<>>
                    [] call.form.map = 1 -> IF wide THEN <<>> ELSE <<\h0F>>
                    [] call.form.map = 2 -> <<\h0F, \h38>>
                    [] call.form.map = 3 -> <<\h0F, \h3A>>
    IN  (IF call.mode = Mode64 THEN prefix ELSE <<>>) \o escape

(* The short prefix has no room for X and B.  Registers and the bits of    *)
(* vvvv are inverted.                                                      *)
VexPrefix ==
    IF call.form.map = 1 /\ (call.mode = Mode64 => req.rexx = 0 /\ req.rexb = 0)
    THEN <<\hC5, 128 * (1 - req.rexr) + \h78>>
    ELSE <<\hC4, 32 * (7 - Rxb) + call.form.map, \h78>>

EvexPrefix ==
    <<\h62, 32 * (7 - Rxb) + 16 * (1 - req.rexr4) + 8 * req.rexb4 + call.form.map,
      \h78 + 4 * (1 - req.rexx4), 8 * (1 - req.evexvv)>>

EmitPrefix ==
    /\ stage = "prefix"
    /\ emitted' = emitted \o CASE call.form.space = Legacy -> LegacyPrefix
                               [] call.form.space = Vex -> VexPrefix
                               [] call.form.space = Evex -> EvexPrefix
    /\ stage' = "opcode"
    /\ UNCHANGED <<call, req>>

EmitOpcode ==
    /\ stage = "opcode"
    /\ LET modrm == 64 * req.mod + 8 * req.reg + req.rm
           sib == 64 * req.sibscale + 8 * req.sibindex + req.sibbase
       IN  emitted' = emitted \o <<call.form.opcode, modrm>>
                              \o IF req.has_sib THEN <<sib>> ELSE <<>>
    /\ stage' = "disp"
    /\ UNCHANGED <<call, req>>

(* emit_synthetic_disp, the displacement of the call, or emit_evex_disp *)
Displacement ==
    IF call.dispsz = 0
    THEN IF call.mode = Mode16 THEN <<>>
         ELSE IF 8 \in req.has_disp THEN <<0>>
         ELSE IF 32 \in req.has_disp THEN <<0, 0, 0, 0>> ELSE <<>>
    ELSE IF call.form.space # Evex \/ call.dispsz = 8
         THEN LittleEndian(call.disp, call.dispsz \div 8)
    ELSE IF 8 \in req.has_disp THEN LittleEndian(req.use_displacement, 1)
    ELSE LittleEndian(req.use_displacement, call.dispsz \div 8)

EmitDisp ==
    /\ stage = "disp"
    /\ emitted' = emitted \o Displacement
    /\ stage' = "emitted"
    /\ UNCHANGED <<call, req>>

NextEnc2 == CheckArguments \/ SetOperands \/ EmitPrefix \/ EmitOpcode \/ EmitDisp
=============================================================================
