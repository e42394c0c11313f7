------------------------------ MODULE XedMemop ------------------------------
(***************************************************************************)
(* A memory operand from one end of the library to the other: a client     *)
(* asks the direct encoder (XedEnc2) for an instruction, the length        *)
(* decoder (XedIld) reads the bytes, the capture functions make base,      *)
(* index, scale, displacement and segment of what it found, and xed_agen   *)
(* (XedAgen) computes the address.  Capture is what the generated code     *)
(* makes of the address nonterminals of the data files.                    *)
(***************************************************************************)
EXTENDS XedIld, XedEnc2, XedAgen

CONSTANTS
    RealModes       \* the values of the REALMODE operand outside 64-bit mode

VARIABLES
    realmode,       \* the REALMODE operand
    reg             \* the register captured for modrm.reg

(* The buffer has the fifteen bytes of the longest instruction; the two    *)
(* registers xed_agen names are those of this module; the moduli divide    *)
(* each other, as powers of two do.  What else tells forms with the same   *)
(* opcode apart, the lookup of the decoder, is not modelled here.          *)
ASSUME MemopAssumption ==
    /\ MaxInstructionBytes = 15
    /\ InvalidReg = NoReg /\ RegRip = Rip
    /\ RealModes \subseteq BOOLEAN
    /\ \A r \in 0..33 \cup SegRegs : RegisterValue(r) \in Nat
    /\ \A r \in SegRegs : SegmentBase(r) \in Nat
    /\ AddressMax(64) % AddressMax(32) = 0 /\ AddressMax(32) % AddressMax(16) = 0
ASSUME FormsDiffer ==
    \A f, g \in Forms : f.space = g.space /\ f.map = g.map /\ f.opcode = g.opcode => f = g

allvars == <<vars, enc2vars, agenvars, realmode, reg>>

(* the buffer of the client: what enc2 emitted, and zeros after it *)
Buffer == emitted \o [i \in 1..(MaxInstructionBytes - Len(emitted)) |-> 0]

InitMemop ==
    /\ InitEnc2
    /\ InitAgen
    /\ itext = <<>> /\ max_bytes = 0
    /\ cfg = [mode |-> call.mode, no_vex |-> 0, no_evex |-> 0, no_apx |-> 0,
              could_support_xop |-> TRUE, mode_first_prefix |-> FALSE, mode_short_ud0 |-> FALSE]
    /\ pc = "idle" /\ length = 0 /\ reads = 0 /\ out_of_bytes = FALSE /\ error = "NONE"
    /\ pfx = NoPfx /\ enc = NoEnc /\ mrm = NoMrm /\ imd = NoImd
    /\ realmode \in IF call.mode = Mode64 THEN {FALSE} ELSE RealModes
    /\ reg = 0

Encode == NextEnc2 /\ UNCHANGED <<vars, agenvars, realmode, reg>>

(* xed_decode of the buffer, all 15 bytes of it *)
StartDecode ==
    /\ stage = "emitted" /\ pc = "idle"
    /\ itext' = Buffer
    /\ max_bytes' = MaxInstructionBytes
    /\ pc' = "prefix"
    /\ UNCHANGED <<cfg, length, out_of_bytes, error, reads, pfx, enc, mrm, imd,
                   enc2vars, agenvars, realmode, reg>>

Ild == Next /\ UNCHANGED <<enc2vars, agenvars, realmode, reg>>

-----------------------------------------------------------------------------
(* The register bits of the prefix, which the scanners copy to operands of *)
(* the same names.  An escape byte stands behind the legacy prefixes.      *)
Payload(i) == Byte(pfx.nprefixes + i)
Inverted(b, i) == 1 - Bits(b, i, 1)
LongMode(bit) == IF mode_64b THEN bit ELSE 0

NoBits == [r4 |-> 0, r |-> 0, x4 |-> 0, x |-> 0, b4 |-> 0, b |-> 0, v4 |-> 0]

EvexBits ==
    [r4 |-> LongMode(Inverted(Payload(1), 4)), r |-> LongMode(Inverted(Payload(1), 7)), x4 |-> enc.rexx4,
     x |-> LongMode(Inverted(Payload(1), 6)),
     b4 |-> IF decoder_supports_apx THEN Bits(Payload(1), 3, 1) ELSE 0,
     b |-> LongMode(Inverted(Payload(1), 5)), v4 |-> Inverted(Payload(3), 3)]

VexBits ==
    IF Payload(0) = \hC5 THEN [NoBits EXCEPT !.r = Inverted(Payload(1), 7)]
    ELSE [NoBits EXCEPT !.r = Inverted(Payload(1), 7), !.x = Inverted(Payload(1), 6),
                        !.b = LongMode(Inverted(Payload(1), 5))]

LegacyBits ==
    LET low(b) == [NoBits EXCEPT !.r = Bits(b, 2, 1), !.x = Bits(b, 1, 1), !.b = Bits(b, 0, 1)]
        p == Payload(1)
    IN  IF enc.rex2 = 1
        THEN [low(p) EXCEPT !.r4 = Bits(p, 6, 1), !.x4 = Bits(p, 5, 1), !.b4 = Bits(p, 4, 1)]
        ELSE low(pfx.rexbyte)

RegisterBits == CASE enc.vexvalid = Evex -> EvexBits
                  [] enc.vexvalid = Vex -> VexBits
                  [] OTHER -> LegacyBits

-----------------------------------------------------------------------------
(* MODRM, SIB and the nonterminals for a vector index. *)
EffectiveMode == EaMode(cfg.mode, pfx.asz)
SibByte == Byte(mrm.pos_sib)

(* the form the lookup finds *)
FormFound == CHOOSE f \in Forms : f.space = enc.vexvalid /\ f.map = enc.map /\ f.opcode = enc.opcode

Base16 == <<BX, BX, BP, BP, SI, DI, IF mrm.mod = 0 THEN NoReg ELSE BP, BX>>[mrm.rm + 1]
Index16 == <<SI, DI, SI, DI, NoReg, NoReg, NoReg, NoReg>>[mrm.rm + 1]

(* with SIB: SIB_BASE0, else MODRM64alt32 or MODRM32 *)
BaseReg ==
    LET b == RegisterBits
        field == IF mrm.has_sib THEN Bits(SibByte, 0, 3) ELSE mrm.rm
    IN  IF EffectiveMode = Mode16 THEN Base16
        ELSE IF mrm.mod # 0 \/ field # 5 THEN 16 * b.b4 + 8 * b.b + field
        ELSE IF mrm.has_sib \/ ~mode_64b THEN NoReg
        ELSE IF EffectiveMode = Mode64 THEN Rip ELSE Eip

IndexReg ==
    LET b == RegisterBits
        field == Bits(SibByte, 3, 3)
        index == 16 * b.x4 + 8 * b.x + field
    IN  IF EffectiveMode = Mode16 THEN Index16
        ELSE IF ~mrm.has_sib THEN NoReg
        ELSE IF FormFound.vsib THEN 16 * b.v4 + 8 * b.x + field
        ELSE IF index = 4 THEN NoReg ELSE index

Scale == IF ~mrm.has_sib \/ IndexReg = NoReg THEN 1 ELSE 2^Bits(SibByte, 6, 2)

(* FINAL_DSEG and FINAL_SSEG, by seg_ovd; in 64-bit mode only FS and GS *)
Segment(base) ==
    LET named == <<41, DS, 40, 44, 45, SS>>     \* CS, DS, ES, FS, GS, SS
    IN  IF mode_64b THEN IF pfx.seg_ovd \in {4, 5} THEN named[pfx.seg_ovd] ELSE NoReg
        ELSE IF pfx.seg_ovd # 0 THEN named[pfx.seg_ovd]
        ELSE IF base \in {SP, BP} THEN SS ELSE DS

(* sign-extended; a byte of EVEX counts in widths of the operand *)
DispValue ==
    LET w == imd.disp_width
        b(i) == Byte(imd.pos_disp + i)
        low == CASE w = 0 -> 0 [] w = 1 -> 0 [] w = 2 -> b(0)
                 [] w = 4 -> b(0) + 256 * b(1) + 65536 * b(2)
        top == IF w = 0 THEN 0 ELSE IF b(w - 1) >= 128 THEN b(w - 1) - 256 ELSE b(w - 1)
        disp == low + top * (CASE w \in {0, 1} -> 1 [] w = 2 -> 256 [] w = 4 -> 16777216)
    IN  IF w = 1 /\ enc.vexvalid = Evex THEN disp * FormFound.width ELSE disp

(* bytes a push writes: the stack is as wide as the mode *)
PushBytes == CASE cfg.mode = Mode16 -> 2 [] cfg.mode = Mode32 -> 4 [] cfg.mode = Mode64 -> 8

StackOperand == Operand(SP, NoReg, 1, 0, IF mode_64b THEN NoReg ELSE SS)

Found == \E f \in Forms : f.space = enc.vexvalid /\ f.map = enc.map /\ f.opcode = enc.opcode

(* The capture of the operands of an instruction the lookup finds; the     *)
(* client then asks for the address of one of them.                        *)
Capture ==
    /\ pc = "done" /\ agen = "idle" /\ error = "NONE" /\ Found
    /\ insn' = [memop |-> [i \in {0, 1} |->
                    IF i = 0 THEN Operand(BaseReg, IndexReg, Scale, DispValue, Segment(BaseReg))
                    ELSE IF FormFound.push THEN StackOperand ELSE NoOperand],
                width |-> 8 * 2^EASZ(cfg.mode, pfx.asz), asz |-> pfx.asz, length |-> length,
                real_mode |-> realmode,
                push |-> [i \in {0, 1} |-> IF i = 1 /\ FormFound.push THEN PushBytes ELSE 0]]
    /\ reg' = 16 * RegisterBits.r4 + 8 * RegisterBits.r + mrm.reg
    /\ agen' = "start"
    /\ ask' \in Asks
    /\ UNCHANGED <<vars, enc2vars, realmode, base_value, segment_base, index_value,
                   problem, returned, out_address>>

Agen == NextAgen /\ UNCHANGED <<vars, enc2vars, realmode, reg>>

NextMemop == Encode \/ StartDecode \/ Ild \/ Capture \/ Agen

SpecMemop == InitMemop /\ [][NextMemop]_allvars
=============================================================================
