------------------------------- MODULE XedIld -------------------------------
(***************************************************************************)
(* The instruction length decoder, xed_instruction_length_decode: a chain  *)
(* of scanners over the bytes offered by the caller.  Each scanner is one  *)
(* action (the prefix loop one action per byte); pc names the scanner that *)
(* runs next.  What a scanner leaves in the operand storage is kept in     *)
(* four records: pfx (legacy and REX prefixes), enc (the encoding space,   *)
(* map and opcode), mrm (ModRM and SIB) and imd (displacement and          *)
(* immediates).  Widths are in bytes, flags are 0 and 1 where the code     *)
(* computes with them.  reads is a history variable: one more than the     *)
(* index of the last byte of itext any scanner has read.                   *)
(***************************************************************************)
EXTENDS XedIldTables, Sequences

CONSTANTS
    MaxInstructionBytes,        \* XED_MAX_INSTRUCTION_BYTES
    Inputs,                     \* records [itext, bytes]: memory, and the length offered
    Configs,                    \* the operands that set_chip_modes and the client preset
    ModrmCode(_, _, _),         \* xed_ild_has_modrm_table[vv][map][opcode]
    DispWidth(_, _, _, _),      \* xed_ild_disp_width_table[vv][map][opcode](d)
    ImmWidth(_, _, _, _)        \* xed_ild_imm_width_table[vv][map][opcode](d)

VARIABLES pc, itext, max_bytes, cfg, length, out_of_bytes, error, reads,
          pfx, enc, mrm, imd

inputs == <<itext, max_bytes, cfg>>
vars == <<pc, itext, max_bytes, cfg, length, out_of_bytes, error, reads,
          pfx, enc, mrm, imd>>

Bit == {0, 1}

Errors == {"NONE", "BUFFER_TOO_SHORT", "INSTR_TOO_LONG", "BAD_MAP",
           "BAD_REX_PREFIX", "BAD_LEGACY_PREFIX", "BAD_EVEX_LL",
           "BAD_EVEX_V_PRIME", "BAD_EVEX_Z_NO_MASKING"}

Config == [mode : Modes, no_vex : Bit, no_evex : Bit, no_apx : Bit,
           could_support_xop : BOOLEAN, mode_first_prefix : BOOLEAN,
           mode_short_ud0 : BOOLEAN]

(* What the L1 functions of the tables look at. *)
Context == [mode : Modes, osz : Bit, asz : Bit, rexw : Bit, reg : 0..7,
            rex2 : Bit, f2 : Bit]
Keep == 9               \* an L1 function that leaves the width as it is
Widths == {0, 1, 2, 4, 8}

ASSUME MaxAssumption == MaxInstructionBytes \in Nat \ {0}
ASSUME InputAssumption ==
    \A in \in Inputs :
       /\ in.itext \in Seq(Byte256)
       /\ in.bytes \in 0..Len(in.itext)
ASSUME ConfigAssumption == Configs \subseteq Config
(* the generator fills the tables of the maps that have variable lengths *)
ASSUME ModrmAssumption ==
    \A vv \in Spaces, map \in MapIds : MapInfo(vv, map).modrm = Var =>
       \A op \in Byte256 : ModrmCode(vv, map, op) \in ModrmCodes
ASSUME DispAssumption ==
    \A vv \in Spaces, map \in MapIds : MapInfo(vv, map).disp = Var =>
       \A op \in Byte256, cx \in Context : DispWidth(vv, map, op, cx) \in Widths \cup {Keep}
ASSUME ImmAssumption ==
    \A vv \in Spaces, map \in MapIds : MapInfo(vv, map).imm = ImmVar =>
       \A op \in Byte256, cx \in Context :
          ImmWidth(vv, map, op, cx) \in [imm : Widths, imm1 : Bit]
(* in the data files a second immediate only ever follows a first one: of  *)
(* ENTER, EXTRQ and INSERTQ                                                *)
ASSUME Imm1Assumption ==
    \A vv \in Spaces, map \in MapIds : MapInfo(vv, map).imm = ImmVar =>
       \A op \in Byte256, cx \in Context :
          LET w == ImmWidth(vv, map, op, cx) IN w.imm1 = 1 => w.imm # 0
(* LES, LDS, BOUND and POP, whose opcodes are also the first bytes of VEX, *)
(* EVEX and XOP prefixes, have a ModRM byte                                *)
LesOpcodes == {\hC4, \hC5, \h62, \h8F}
ASSUME LesAssumption == \A op \in LesOpcodes : ModrmCode(Legacy, 0, op) \notin {ModrmFalse, ModrmUd0}

-----------------------------------------------------------------------------
(* Memory.  A byte past the end of itext is not the program's: the value 0 *)
(* only gives such a read a meaning, ReadsInBounds says there is none.     *)
Byte(i) == IF i < Len(itext) THEN itext[i + 1] ELSE 0

Seen(n) == reads' = IF n > reads THEN n ELSE reads

mode_64b == cfg.mode = Mode64
(* mutant: the presets of the chip are not asked *)
apx_on_every_chip == mode_64b

decoder_supports_apx == cfg.no_apx = 0 /\ mode_64b
decoder_supports_avx512 == cfg.no_vex = 0 /\ cfg.no_evex = 0

(* mutants: the longest offer taken for a short one; the flag forgotten *)
too_short_off_by_one ==
    /\ out_of_bytes' = TRUE
    /\ error' = IF max_bytes > MaxInstructionBytes THEN "INSTR_TOO_LONG"
                                                   ELSE "BUFFER_TOO_SHORT"
too_short_without_flag == error' = "BUFFER_TOO_SHORT" /\ UNCHANGED out_of_bytes

too_short ==
    /\ out_of_bytes' = TRUE
    /\ error' = IF max_bytes >= MaxInstructionBytes THEN "INSTR_TOO_LONG"
                                                    ELSE "BUFFER_TOO_SHORT"

SegPrefixes == {\h2E, \h3E, \h26, \h36, \h64, \h65}
LegacyPrefixes == SegPrefixes \cup {\h66, \h67, \hF0, \hF2, \hF3}
RexPrefixes == \h40..\h4F

(* seg_ovd, the 1..6 recoding of the segment prefix that counts *)
SegOvd(b) == CASE b = \h2E -> 1 [] b = \h3E -> 2 [] b = \h26 -> 3
               [] b = \h64 -> 4 [] b = \h65 -> 5 [] b = \h36 -> 6

NoPfx == [nprefixes |-> 0, nrexes |-> 0, rexbyte |-> 0, rex |-> 0,
          osz |-> 0, asz |-> 0, prefix66 |-> 0, lock |-> 0, f2 |-> 0, f3 |-> 0,
          first_f2f3 |-> 0, last_f2f3 |-> 0, rep |-> 0,
          hint |-> 0, ild_seg |-> 0, seg_ovd |-> 0]
NoEnc == [vexvalid |-> Legacy, map |-> 0, opcode |-> 0, pos_opcode |-> 0,
          rexw |-> 0, rex2 |-> 0, llrc |-> 0, bcrc |-> 0, ubit |-> 0, rexx4 |-> 0,
          amd3dnow |-> FALSE, info |-> NoInfo]
NoMrm == [has_modrm |-> 0, pos_modrm |-> 0, mod |-> 0, reg |-> 0, rm |-> 0,
          has_sib |-> FALSE, pos_sib |-> 0]
NoImd == [disp_width |-> 0, pos_disp |-> 0, imm_width |-> 0, pos_imm |-> 0,
          imm1_bytes |-> 0, pos_imm1 |-> 0]

(* xed_ild_decode and the client: a zeroed xed_decoded_inst_t, whose       *)
(* max_bytes is the number of bytes offered cut at the longest instruction *)
MaxBytes(bytes) == IF bytes > MaxInstructionBytes THEN MaxInstructionBytes ELSE bytes

Init ==
    /\ \E in \in Inputs : itext = in.itext /\ max_bytes = MaxBytes(in.bytes)
    /\ cfg \in Configs
    /\ pc = "prefix"
    /\ length = 0
    /\ out_of_bytes = FALSE
    /\ error = "NONE"
    /\ reads = 0
    /\ pfx = NoPfx
    /\ enc = NoEnc
    /\ mrm = NoMrm
    /\ imd = NoImd

-----------------------------------------------------------------------------
(* prefix_scanner.  A prefix that is not REX cancels the REX seen so far.  *)

(* mutants of the next three: the last hint wins, as before CET; ES, CS, SS *)
(* and DS kept in 64-bit mode; the last of F2 and F3 taken for the first    *)
SegHintLast(b) == CASE b = \h2E -> 1 [] b = \h3E -> 2 [] OTHER -> 0
SegKeptAlways(b) == b
RepPrefixLast(b) ==
    LET v == IF b = \hF3 THEN 3 ELSE 2
    IN  [pfx EXCEPT !.f2 = IF v = 2 THEN 1 ELSE @, !.f3 = IF v = 3 THEN 1 ELSE @,
                    !.last_f2f3 = v, !.first_f2f3 = v]

(* The CET hint, 1 for 2E and 2 for 3E: FS and GS clear it; in 64-bit mode *)
(* 2E does not replace a 3E, nor 3E an FS or GS, and ES and SS leave it.   *)
SegHint(b) ==
    CASE b \in {\h64, \h65} -> 0
      [] b = \h2E -> IF mode_64b /\ pfx.hint = 2 THEN 2 ELSE 1
      [] b = \h3E -> IF mode_64b /\ pfx.ild_seg \in {\h64, \h65} THEN pfx.hint ELSE 2
      [] b \in {\h26, \h36} -> IF mode_64b THEN pfx.hint ELSE 0

(* In 64-bit mode only FS and GS are kept. *)
SegKept(b) == IF mode_64b /\ b \notin {\h64, \h65} THEN pfx.ild_seg ELSE b

SegmentPrefix(b) == [pfx EXCEPT !.hint = SegHint(b), !.ild_seg = SegKept(b)]

RepPrefix(b) ==
    LET v == IF b = \hF3 THEN 3 ELSE 2
    IN  [pfx EXCEPT !.f2 = IF v = 2 THEN 1 ELSE @,
                    !.f3 = IF v = 3 THEN 1 ELSE @,
                    !.last_f2f3 = v,
                    !.first_f2f3 = IF @ = 0 THEN v ELSE @]

AfterPrefix(b) ==
    CASE b = \h66             -> [pfx EXCEPT !.osz = 1, !.prefix66 = 1]
      [] b = \h67             -> [pfx EXCEPT !.asz = 1]
      [] b \in SegPrefixes    -> SegmentPrefix(b)
      [] b = \hF0             -> [pfx EXCEPT !.lock = 1]
      [] b \in {\hF2, \hF3}   -> RepPrefix(b)
      [] OTHER                -> [pfx EXCEPT !.nrexes = @ + 1]

(* mutant: REX outside 64-bit mode *)
IsPrefixByteAnyMode(b) == b \in LegacyPrefixes \cup RexPrefixes

IsPrefixByte(b) == b \in LegacyPrefixes \/ (mode_64b /\ b \in RexPrefixes)

PrefixByte ==
    /\ pc = "prefix"
    /\ length < max_bytes
    /\ IsPrefixByte(Byte(length))
    /\ pfx' = [AfterPrefix(Byte(length)) EXCEPT
                  !.nprefixes = @ + 1,
                  !.rexbyte = IF Byte(length) \in RexPrefixes THEN Byte(length) ELSE 0]
    /\ length' = length + 1
    /\ Seen(length + 1)
    /\ UNCHANGED <<inputs, pc, out_of_bytes, error, enc, mrm, imd>>

PrefixesOut ==
    /\ pc = "prefix"
    /\ length < max_bytes => ~IsPrefixByte(Byte(length))
    /\ Seen(IF length < max_bytes THEN length + 1 ELSE 0)
    /\ pfx' = [pfx EXCEPT !.rex = IF pfx.rexbyte # 0 THEN 1 ELSE @,
                          !.rep = IF cfg.mode_first_prefix THEN pfx.first_f2f3
                                                           ELSE pfx.last_f2f3,
                          !.seg_ovd = IF pfx.ild_seg # 0 THEN SegOvd(pfx.ild_seg) ELSE @]
    /\ enc' = [enc EXCEPT !.rexw = IF pfx.rexbyte # 0 THEN Bits(pfx.rexbyte, 3, 1) ELSE @]
    /\ IF length >= max_bytes
       THEN too_short /\ pc' = "done"
       ELSE UNCHANGED <<out_of_bytes, error>> /\ pc' = "vex"
    /\ UNCHANGED <<inputs, length, mrm, imd>>

-----------------------------------------------------------------------------
(* The VEX, XOP, EVEX and REX2 scanners.                                   *)

(* mutant: the scan goes on *)
RunOutGoesOn(n) ==
    /\ length' = n
    /\ too_short
    /\ pc' = "catch_invalid"
    /\ UNCHANGED <<inputs, pfx, enc, mrm, imd>>

(* the last instruction bytes are missing: everything offered is consumed  *)
RunOut(n) ==
    /\ length' = n
    /\ too_short
    /\ pc' = "done"
    /\ UNCHANGED <<inputs, pfx, enc, mrm, imd>>

BadMap(n, e) ==
    /\ length' = n
    /\ error' = "BAD_MAP"
    /\ enc' = [e EXCEPT !.map = InvalidMap]
    /\ UNCHANGED <<inputs, out_of_bytes, mrm, imd>>

(* mutant: the position of the opcode is not recorded *)
WithOpcodeNowhere(e, p) == [e EXCEPT !.opcode = Byte(p), !.info = MapInfo(e.vexvalid, e.map)]

(* evex_vex_opcode_scanner at position p *)
WithOpcode(e, p) == [e EXCEPT !.opcode = Byte(p), !.pos_opcode = p,
                              !.info = MapInfo(e.vexvalid, e.map)]

(* the test that tells LES, LDS and BOUND from VEX and EVEX outside 64-bit mode *)
ModrmIsMemory(p) == ~mode_64b /\ Bits(Byte(p), 6, 2) # 3

IsXop == Byte(length) = \h8F /\ cfg.could_support_xop

(* nothing here for the VEX scanner *)
VexNone ==
    /\ pc = "vex"
    /\ \/ cfg.no_vex = 1 /\ UNCHANGED reads
       \/ /\ cfg.no_vex = 0
          /\ Byte(length) \notin {\hC4, \hC5}
          /\ ~IsXop
          /\ Seen(length + 1)
       \/ /\ cfg.no_vex = 0
          /\ length + 1 < max_bytes
          /\ \/ Byte(length) \in {\hC4, \hC5} /\ ModrmIsMemory(length + 1)
             \/ IsXop /\ Bits(Byte(length + 1), 3, 3) = 0
          /\ Seen(length + 2)
    /\ pc' = "evex"
    /\ UNCHANGED <<inputs, length, out_of_bytes, error, pfx, enc, mrm, imd>>

(* a VEX or XOP prefix that the bytes offered cut short *)
VexShort ==
    /\ pc = "vex" /\ cfg.no_vex = 0
    /\ \/ /\ length + 1 >= max_bytes
          /\ Seen(length + 1)
          /\ \/ Byte(length) \in {\hC4, \hC5} /\ RunOut(max_bytes)
             \/ IsXop /\ RunOut(length)
       \/ /\ length + 1 < max_bytes
          /\ \/ Byte(length) = \hC4 /\ ~ModrmIsMemory(length + 1) /\ length + 3 >= max_bytes
             \/ Byte(length) = \hC5 /\ ~ModrmIsMemory(length + 1) /\ length + 2 >= max_bytes
             \/ IsXop /\ Bits(Byte(length + 1), 3, 3) # 0 /\ length + 3 >= max_bytes
          /\ Seen(length + 2)
          /\ RunOut(max_bytes)

VexC4 ==
    /\ pc = "vex" /\ cfg.no_vex = 0 /\ Byte(length) = \hC4
    /\ length + 3 < max_bytes
    /\ ~ModrmIsMemory(length + 1)
    /\ LET e == [enc EXCEPT !.rexw = Bits(Byte(length + 2), 7, 1),
                            !.map = Bits(Byte(length + 1), 0, 5)]
       IN  \/ /\ ~ValidVexMap(e.map)
              /\ BadMap(length + 3, e)
              /\ Seen(length + 3)
              /\ pc' = "done"
              /\ UNCHANGED pfx
           \/ /\ ValidVexMap(e.map)
              /\ enc' = WithOpcode([e EXCEPT !.vexvalid = Vex], length + 3)
              /\ length' = length + 4
              /\ Seen(length + 4)
              /\ pc' = "evex"
              /\ UNCHANGED <<inputs, out_of_bytes, error, pfx, mrm, imd>>

VexC5 ==
    /\ pc = "vex" /\ cfg.no_vex = 0 /\ Byte(length) = \hC5
    /\ length + 2 < max_bytes
    /\ ~ModrmIsMemory(length + 1)
    /\ enc' = WithOpcode([enc EXCEPT !.vexvalid = Vex, !.map = 1], length + 2)
    /\ length' = length + 3
    /\ Seen(length + 3)
    /\ pc' = "evex"
    /\ UNCHANGED <<inputs, out_of_bytes, error, pfx, mrm, imd>>

(* an XOP map that does not exist is reported, and the opcode still eaten  *)
VexXop ==
    /\ pc = "vex" /\ cfg.no_vex = 0 /\ IsXop
    /\ length + 3 < max_bytes
    /\ Bits(Byte(length + 1), 3, 3) # 0
    /\ LET map == Bits(Byte(length + 1), 0, 5)
           e == [enc EXCEPT !.vexvalid = Xop,
                            !.rexw = Bits(Byte(length + 2), 7, 1),
                            !.map = IF ValidXopMap(map) THEN map ELSE InvalidMap]
       IN  /\ enc' = WithOpcode(e, length + 3)
           /\ error' = IF ValidXopMap(map) THEN error ELSE "BAD_MAP"
           /\ pc' = IF ValidXopMap(map) THEN "evex" ELSE "done"
    /\ length' = length + 4
    /\ Seen(length + 4)
    /\ UNCHANGED <<inputs, out_of_bytes, pfx, mrm, imd>>

-----------------------------------------------------------------------------
(* EVEX: 62 and three payload bytes, then the opcode.                      *)

IsEvex == enc.vexvalid = Legacy /\ decoder_supports_avx512 /\ Byte(length) = \h62

EvexNone ==
    /\ pc = "evex"
    /\ \/ (enc.vexvalid # Legacy \/ ~decoder_supports_avx512) /\ UNCHANGED reads
       \/ /\ enc.vexvalid = Legacy /\ decoder_supports_avx512
          /\ Byte(length) # \h62
          /\ Seen(length + 1)
       \/ /\ IsEvex
          /\ length + 1 < max_bytes
          /\ ModrmIsMemory(length + 1)
          /\ Seen(length + 2)
    /\ pc' = IF enc.vexvalid # Legacy THEN "catch_invalid" ELSE "rex2"
    /\ UNCHANGED <<inputs, length, out_of_bytes, error, pfx, enc, mrm, imd>>

(* with APX the top bit of the map field is register bit B4 *)
EvexMap(payload1) == Bits(payload1, 0, IF decoder_supports_apx THEN 3 ELSE 4)

(* the later of two errors of the third payload byte is the one that stays *)
EvexPayload3Error(b) ==
    IF Bits(b, 0, 3) = 0 /\ Bits(b, 7, 1) = 1 THEN "BAD_EVEX_Z_NO_MASKING"
    ELSE IF ~mode_64b /\ Bits(b, 3, 1) = 0 THEN "BAD_EVEX_V_PRIME"
    ELSE error

EvexShort ==
    /\ pc = "evex" /\ IsEvex
    /\ \/ length + 1 >= max_bytes /\ Seen(length + 1) /\ RunOut(max_bytes)
       \/ /\ length + 1 < max_bytes /\ ~ModrmIsMemory(length + 1)
          /\ EvexMap(Byte(length + 1)) # 0
          /\ length + 4 >= max_bytes
          /\ Seen(length + 2)
          /\ length' = max_bytes
          /\ enc' = [enc EXCEPT !.vexvalid = Evex, !.map = EvexMap(Byte(length + 1))]
          /\ too_short
          /\ pc' = "done"
          /\ UNCHANGED <<inputs, pfx, mrm, imd>>

EvexBadMap ==
    /\ pc = "evex" /\ IsEvex
    /\ length + 1 < max_bytes /\ ~ModrmIsMemory(length + 1)
    /\ LET map == EvexMap(Byte(length + 1))
       IN  \/ map = 0 /\ Seen(length + 2) /\ BadMap(length + 2, [enc EXCEPT !.vexvalid = Evex])
           \/ /\ map # 0 /\ length + 4 < max_bytes /\ ~ValidEvexMap(map)
              /\ Seen(length + 3)
              /\ BadMap(length + 4, [enc EXCEPT !.vexvalid = Evex])
    /\ pc' = "catch_invalid"
    /\ UNCHANGED pfx

EvexScan ==
    /\ pc = "evex" /\ IsEvex
    /\ length + 4 < max_bytes /\ ~ModrmIsMemory(length + 1)
    /\ ValidEvexMap(EvexMap(Byte(length + 1)))
    /\ LET p2 == Byte(length + 2)
           p3 == Byte(length + 3)
           e == [enc EXCEPT !.vexvalid = Evex, !.map = EvexMap(Byte(length + 1)),
                            !.rexw = Bits(p2, 7, 1), !.ubit = Bits(p2, 2, 1),
                            !.llrc = Bits(p3, 5, 2), !.bcrc = Bits(p3, 4, 1)]
       IN  /\ enc' = WithOpcode(e, length + 4)
           /\ pfx' = [pfx EXCEPT !.osz = IF Bits(p2, 0, 2) = 1 THEN 1 ELSE @]
           /\ error' = EvexPayload3Error(p3)
    /\ length' = length + 5
    /\ Seen(length + 5)
    /\ pc' = "catch_invalid"
    /\ UNCHANGED <<inputs, out_of_bytes, mrm, imd>>

(* mutant: an F2 prefix is let through *)
CatchInvalidButF2 ==
    /\ pc = "catch_invalid"
    /\ error' = IF mode_64b /\ pfx.rex = 1 THEN "BAD_REX_PREFIX"
                ELSE IF 1 \in {pfx.prefix66, pfx.f3} THEN "BAD_LEGACY_PREFIX"
                ELSE error
    /\ pc' = "modrm"
    /\ UNCHANGED <<inputs, length, out_of_bytes, reads, pfx, enc, mrm, imd>>

(* catch_invalid_rex_or_legacy_prefixes: replaces an error found before it *)
CatchInvalid ==
    /\ pc = "catch_invalid"
    /\ error' = IF mode_64b /\ pfx.rex = 1 THEN "BAD_REX_PREFIX"
                ELSE IF 1 \in {pfx.prefix66, pfx.f3, pfx.f2} THEN "BAD_LEGACY_PREFIX"
                ELSE error
    /\ pc' = "modrm"
    /\ UNCHANGED <<inputs, length, out_of_bytes, reads, pfx, enc, mrm, imd>>

(* rex2_scanner: D5, one payload byte, opcode.  A REX before it is an      *)
(* error, but the scan goes on.                                            *)
Rex2None ==
    /\ pc = "rex2"
    /\ decoder_supports_apx => Byte(length) # \hD5
    /\ IF decoder_supports_apx THEN Seen(length + 1) ELSE UNCHANGED reads
    /\ pc' = "opcode"
    /\ UNCHANGED <<inputs, length, out_of_bytes, error, pfx, enc, mrm, imd>>

Rex2 ==
    /\ pc = "rex2" /\ decoder_supports_apx /\ Byte(length) = \hD5
    /\ LET p == Byte(length + 1)
           e == [enc EXCEPT !.rex2 = 1, !.map = Bits(p, 7, 1), !.rexw = Bits(p, 3, 1)]
       IN  \/ length + 1 >= max_bytes /\ Seen(length + 1) /\ RunOut(max_bytes)
           \/ /\ length + 2 = max_bytes
              /\ Seen(length + 2)
              /\ length' = max_bytes
              /\ enc' = e
              /\ too_short
              /\ pc' = "done"
              /\ UNCHANGED <<inputs, pfx, mrm, imd>>
           \/ /\ length + 2 < max_bytes
              /\ Seen(length + 3)
              /\ enc' = WithOpcode(e, length + 2)
              /\ error' = IF pfx.rex = 1 THEN "BAD_REX_PREFIX" ELSE error
              /\ length' = length + 3
              /\ pc' = "modrm"
              /\ UNCHANGED <<inputs, out_of_bytes, pfx, mrm, imd>>

-----------------------------------------------------------------------------
(* opcode_scanner.  The escapes 0F 38, 0F 3A and 0F 0F name a map of their *)
(* own, any other byte after 0F is the opcode of map 1.                    *)

EscapeMap(b) == CASE b = \h38 -> 2 [] b = \h3A -> 3 [] b = \h0F -> Amd3DNow [] OTHER -> 1

OpcodeMap0 ==
    /\ pc = "opcode" /\ Byte(length) # \h0F
    /\ Seen(length + 1)
    /\ enc' = WithOpcode([enc EXCEPT !.map = 0], length)
    /\ length' = length + 1
    /\ pc' = "modrm"
    /\ UNCHANGED <<inputs, out_of_bytes, error, pfx, mrm, imd>>

AtEscape == pc = "opcode" /\ Byte(length) = \h0F
Escaped == LET map == EscapeMap(Byte(length + 1))
           IN  [enc EXCEPT !.map = map, !.info = MapInfo(Legacy, map)]

(* mutants: two bytes wanted after every 0F; the opcode of map 1 not eaten; *)
(* the opcode of maps 2 and 3 not tested against the end                    *)
OpcodeShortOfTwo == AtEscape /\ length + 2 >= max_bytes /\ Seen(length + 1) /\ RunOut(length)
OpcodeMap1NotEaten ==
    /\ AtEscape /\ length + 1 < max_bytes /\ Escaped.map = 1
    /\ Seen(length + 2)
    /\ enc' = WithOpcode(Escaped, length + 1)
    /\ length' = length + 1
    /\ pc' = "modrm"
    /\ UNCHANGED <<inputs, out_of_bytes, error, pfx, mrm, imd>>
OpcodeMap23Untested ==
    /\ AtEscape /\ length + 1 < max_bytes /\ Escaped.map \in {2, 3}
    /\ Seen(length + 3)
    /\ enc' = WithOpcode(Escaped, length + 2)
    /\ length' = length + 3
    /\ pc' = "modrm"
    /\ UNCHANGED <<inputs, out_of_bytes, error, pfx, mrm, imd>>

(* nothing after 0F, or a map without its opcode *)
OpcodeShort ==
    /\ AtEscape
    /\ \/ length + 1 >= max_bytes /\ Seen(length + 1) /\ RunOut(length)
       \/ /\ length + 2 = max_bytes
          /\ Escaped.map \in {2, 3}
          /\ Seen(length + 2)
          /\ enc' = Escaped
          /\ length' = length + 2
          /\ too_short
          /\ pc' = "done"
          /\ UNCHANGED <<inputs, pfx, mrm, imd>>

OpcodeMap1 ==
    /\ AtEscape /\ length + 1 < max_bytes /\ Escaped.map = 1
    /\ Seen(length + 2)
    /\ enc' = WithOpcode(Escaped, length + 1)
    /\ length' = length + 2
    /\ pc' = "modrm"
    /\ UNCHANGED <<inputs, out_of_bytes, error, pfx, mrm, imd>>

OpcodeMap23 ==
    /\ AtEscape /\ length + 2 < max_bytes /\ Escaped.map \in {2, 3}
    /\ Seen(length + 3)
    /\ enc' = WithOpcode(Escaped, length + 2)
    /\ length' = length + 3
    /\ pc' = "modrm"
    /\ UNCHANGED <<inputs, out_of_bytes, error, pfx, mrm, imd>>

(* the opcode of a 3DNow! instruction is its last byte *)
Opcode3DNow ==
    /\ AtEscape /\ length + 1 < max_bytes /\ Escaped.map = Amd3DNow
    /\ Seen(length + 2)
    /\ enc' = [Escaped EXCEPT !.amd3dnow = TRUE]
    /\ length' = length + 2
    /\ pc' = "modrm"
    /\ UNCHANGED <<inputs, out_of_bytes, error, pfx, mrm, imd>>

-----------------------------------------------------------------------------
(* From here on a scanner that runs out of bytes does not stop the next.   *)

(* mutant: the code for UD0 is not replaced by the chip's answer *)
HasModrmRaw ==
    IF enc.info.modrm = Var THEN ModrmCode(enc.vexvalid, enc.map, enc.opcode) ELSE enc.info.modrm

(* set_has_modrm *)
HasModrm ==
    LET code == ModrmCode(enc.vexvalid, enc.map, enc.opcode)
    IN  IF enc.info.modrm = Yes THEN ModrmTrue
        ELSE IF enc.info.modrm = No THEN ModrmFalse
        ELSE IF code # ModrmUd0 THEN code
        ELSE IF cfg.mode_short_ud0 THEN ModrmFalse ELSE ModrmTrue

(* bad_ll_check *)
BadLL(mod) == enc.llrc = 3 /\ (mod # 3 \/ enc.bcrc = 0)

ModrmScanner ==
    /\ pc = "modrm"
    /\ LET b == Byte(length)
           mod == Bits(b, 6, 2)
           rm == Bits(b, 0, 3)
           ea == EaMode(cfg.mode, pfx.asz)
           regular == HasModrm # ModrmIgnoreMod
       IN  \/ /\ HasModrm = ModrmFalse
              /\ mrm' = [mrm EXCEPT !.has_modrm = ModrmFalse]
              /\ UNCHANGED <<length, out_of_bytes, error, reads, imd>>
           \/ /\ HasModrm # ModrmFalse /\ length >= max_bytes
              /\ mrm' = [mrm EXCEPT !.has_modrm = HasModrm]
              /\ too_short
              /\ UNCHANGED <<length, reads, imd>>
           \/ /\ HasModrm # ModrmFalse /\ length < max_bytes
              /\ mrm' = [mrm EXCEPT !.has_modrm = HasModrm, !.pos_modrm = length,
                                    !.mod = mod, !.reg = Bits(b, 3, 3), !.rm = rm,
                                    !.has_sib = regular /\ HasSib(ea, mod, rm)]
              /\ imd' = [imd EXCEPT !.disp_width =
                                      IF regular THEN HasDispRegular(ea, mod, rm) ELSE @]
              /\ error' = IF BadLL(mod) THEN "BAD_EVEX_LL" ELSE error
              /\ length' = length + 1
              /\ Seen(length + 1)
              /\ UNCHANGED out_of_bytes
    /\ pc' = "sib"
    /\ UNCHANGED <<inputs, pfx, enc>>

SibScanner ==
    /\ pc = "sib"
    /\ \/ ~mrm.has_sib /\ UNCHANGED <<length, out_of_bytes, error, reads, mrm, imd>>
       \/ /\ mrm.has_sib /\ length >= max_bytes
          /\ too_short
          /\ UNCHANGED <<length, reads, mrm, imd>>
       \/ /\ mrm.has_sib /\ length < max_bytes
          /\ mrm' = [mrm EXCEPT !.pos_sib = length]
          /\ imd' = [imd EXCEPT !.disp_width =
                        IF Bits(Byte(length), 0, 3) = 5 /\ mrm.mod = 0 THEN 4 ELSE @]
          /\ length' = length + 1
          /\ Seen(length + 1)
          /\ UNCHANGED <<out_of_bytes, error>>
    /\ pc' = "disp"
    /\ UNCHANGED <<inputs, pfx, enc>>

(* the operands the L1 functions read *)
Cx == [mode |-> cfg.mode, osz |-> pfx.osz, asz |-> pfx.asz, rexw |-> enc.rexw,
       reg |-> mrm.reg, rex2 |-> enc.rex2, f2 |-> pfx.f2]

DispBytes ==
    LET w == DispWidth(enc.vexvalid, enc.map, enc.opcode, Cx)
    IN  IF enc.info.disp = Var /\ w # Keep THEN w ELSE imd.disp_width

(* without room for the displacement the length stays where it is *)
DispScanner ==
    /\ pc = "disp"
    /\ LET fits == length + DispBytes <= max_bytes
       IN  \/ /\ DispBytes = 0
              /\ imd' = [imd EXCEPT !.disp_width = 0]
              /\ UNCHANGED <<length, out_of_bytes, error, reads>>
           \/ /\ DispBytes # 0 /\ fits
              /\ imd' = [imd EXCEPT !.disp_width = DispBytes, !.pos_disp = length]
              /\ length' = length + DispBytes
              /\ Seen(length + DispBytes)
              /\ UNCHANGED <<out_of_bytes, error>>
           \/ /\ DispBytes # 0 /\ ~fits
              /\ imd' = [imd EXCEPT !.disp_width = DispBytes]
              /\ too_short
              /\ UNCHANGED <<length, reads>>
    /\ pc' = "imm"
    /\ UNCHANGED <<inputs, pfx, enc, mrm>>

(* set_imm_bytes, which looks the width up only where none is set *)
ImmBytes ==
    IF imd.imm_width # 0 THEN [imm |-> imd.imm_width, imm1 |-> imd.imm1_bytes]
    ELSE IF enc.info.imm # ImmVar THEN [imm |-> enc.info.imm, imm1 |-> imd.imm1_bytes]
    ELSE ImmWidth(enc.vexvalid, enc.map, enc.opcode, Cx)

(* mutant: the scanner runs again *)
AfterImmAgain == pc' = IF enc.vexvalid = Evex THEN "late_evex" ELSE "imm"

AfterImm == pc' = IF enc.vexvalid = Evex THEN "late_evex" ELSE "done"

(* a 3DNow! opcode comes after the operands, where an immediate would be *)
ImmScanner3DNow ==
    /\ pc = "imm" /\ enc.amd3dnow
    /\ imd' = [imd EXCEPT !.imm_width = ImmBytes.imm, !.imm1_bytes = ImmBytes.imm1]
    /\ \/ /\ length < max_bytes
          /\ enc' = [enc EXCEPT !.opcode = Byte(length), !.pos_opcode = length]
          /\ length' = length + 1
          /\ Seen(length + 1)
          /\ UNCHANGED <<out_of_bytes, error>>
       \/ /\ length >= max_bytes
          /\ too_short
          /\ UNCHANGED <<length, reads, enc>>
    /\ AfterImm
    /\ UNCHANGED <<inputs, pfx, mrm>>

ImmScanner ==
    /\ pc = "imm" /\ ~enc.amd3dnow
    /\ LET w == ImmBytes.imm
           w1 == ImmBytes.imm1
           widths == [imd EXCEPT !.imm_width = w, !.imm1_bytes = w1]
       IN  \/ /\ w = 0
              /\ imd' = widths
              /\ UNCHANGED <<length, out_of_bytes, error, reads>>
           \/ /\ w # 0 /\ length + w > max_bytes
              /\ imd' = widths
              /\ too_short
              /\ UNCHANGED <<length, reads>>
           \/ /\ w # 0 /\ length + w <= max_bytes /\ length + w + w1 > max_bytes
              /\ imd' = [widths EXCEPT !.pos_imm = length]
              /\ too_short
              /\ length' = length + w
              /\ UNCHANGED reads
           \/ /\ w # 0 /\ length + w + w1 <= max_bytes
              /\ imd' = [widths EXCEPT !.pos_imm = length,
                                       !.pos_imm1 = IF w1 # 0 THEN length + w ELSE @]
              /\ length' = length + w + w1
              /\ Seen(length + w + w1)
              /\ UNCHANGED <<out_of_bytes, error>>
    /\ AfterImm
    /\ UNCHANGED <<inputs, pfx, enc, mrm>>

(* late_evex_scanner: with APX a memory operand reuses U as register bit X4 *)
LateEvex ==
    /\ pc = "late_evex"
    /\ enc' = IF mrm.mod # 3 /\ decoder_supports_apx
              THEN [enc EXCEPT !.ubit = 1, !.rexx4 = 1 - enc.ubit] ELSE enc
    /\ pc' = "done"
    /\ UNCHANGED <<inputs, length, out_of_bytes, error, reads, pfx, mrm, imd>>

-----------------------------------------------------------------------------
Next == \/ PrefixByte \/ PrefixesOut
        \/ VexNone \/ VexShort \/ VexC4 \/ VexC5 \/ VexXop
        \/ EvexNone \/ EvexShort \/ EvexBadMap \/ EvexScan \/ CatchInvalid
        \/ Rex2None \/ Rex2 \/ OpcodeMap0
        \/ OpcodeShort \/ OpcodeMap1 \/ OpcodeMap23 \/ Opcode3DNow
        \/ ModrmScanner \/ SibScanner \/ DispScanner
        \/ ImmScanner3DNow \/ ImmScanner \/ LateEvex

Spec == Init /\ [][Next]_vars /\ WF_vars(Next)
=============================================================================
