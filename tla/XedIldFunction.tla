--------------------------- MODULE XedIldFunction ---------------------------
(***************************************************************************)
(* The length decoder as a function.  Step gives for a state of the scan   *)
(* the state after the scanner that runs next, as a value and not as an    *)
(* action, so that the scans of two decodes can be compared: one reaches   *)
(* what the other has reached as long as Step gives the same for both.     *)
(***************************************************************************)
EXTENDS XedIldProps

(* What a decode is asked: text, number of bytes offered, presets; and the *)
(* state of its scan.                                                      *)
Asked == [itext |-> itext, max_bytes |-> max_bytes, cfg |-> cfg]
State(at, n, short, e, r, p, k, m, d) ==
    [pc |-> at, length |-> n, out_of_bytes |-> short, error |-> e, reads |-> r,
     pfx |-> p, enc |-> k, mrm |-> m, imd |-> d]
Scan == State(pc, length, out_of_bytes, error, reads, pfx, enc, mrm, imd)
StartOfScan == State("prefix", 0, FALSE, "NONE", 0, NoPfx, NoEnc, NoMrm, NoImd)

AskedType == [itext : Seq(Byte256), max_bytes : Pos, cfg : Config]
ScanType == [pc : Pcs, length : Pos, out_of_bytes : BOOLEAN, error : Errors, reads : Pos,
           pfx : PfxType, enc : EncType, mrm : MrmType, imd : ImdType]

ByteOf(q, i) == IF i < Len(q.itext) THEN q.itext[i + 1] ELSE 0
In64(c) == c.mode = Mode64
HasApx(c) == c.no_apx = 0 /\ In64(c)
HasAvx512(c) == c.no_vex = 0 /\ c.no_evex = 0
Most(r, n) == IF n > r THEN n ELSE r

(* The scan goes on at another scanner, n bytes consumed and r read; other *)
(* operands; an error; out of bytes.                                       *)
Goes(s, at, n, r) ==
    State(at, n, s.out_of_bytes, s.error, Most(s.reads, r), s.pfx, s.enc, s.mrm, s.imd)
With(s, p, k, m, d) == State(s.pc, s.length, s.out_of_bytes, s.error, s.reads, p, k, m, d)
WithEnc(s, k) == With(s, s.pfx, k, s.mrm, s.imd)
WithImd(s, d) == With(s, s.pfx, s.enc, s.mrm, d)
Says(s, e) == State(s.pc, s.length, s.out_of_bytes, e, s.reads, s.pfx, s.enc, s.mrm, s.imd)
Short(q, s) ==
    State(s.pc, s.length, TRUE,
          IF q.max_bytes >= MaxInstructionBytes THEN "INSTR_TOO_LONG" ELSE "BUFFER_TOO_SHORT",
          s.reads, s.pfx, s.enc, s.mrm, s.imd)

-----------------------------------------------------------------------------
(* prefix_scanner: what one prefix byte does to the operands of a prefix,  *)
(* and what is derived from them when the loop ends.                       *)
HintAfter(c, p, b) ==
    CASE b \in {\h64, \h65} -> 0
      [] b = \h2E -> IF In64(c) /\ p.hint = 2 THEN 2 ELSE 1
      [] b = \h3E -> IF In64(c) /\ p.ild_seg \in {\h64, \h65} THEN p.hint ELSE 2
      [] b \in {\h26, \h36} -> IF In64(c) THEN p.hint ELSE 0
SegAfter(c, p, b) == IF In64(c) /\ b \notin {\h64, \h65} THEN p.ild_seg ELSE b
PfxAfter(c, p, b) ==
    CASE b = \h66           -> [p EXCEPT !.osz = 1, !.prefix66 = 1]
      [] b = \h67           -> [p EXCEPT !.asz = 1]
      [] b \in SegPrefixes  -> [p EXCEPT !.hint = HintAfter(c, p, b), !.ild_seg = SegAfter(c, p, b)]
      [] b = \hF0           -> [p EXCEPT !.lock = 1]
      [] b \in {\hF2, \hF3} -> LET v == IF b = \hF3 THEN 3 ELSE 2
                               IN  [p EXCEPT !.f2 = IF v = 2 THEN 1 ELSE @,
                                             !.f3 = IF v = 3 THEN 1 ELSE @,
                                             !.last_f2f3 = v,
                                             !.first_f2f3 = IF @ = 0 THEN v ELSE @]
      [] OTHER              -> [p EXCEPT !.nrexes = @ + 1]
PfxCounted(c, p, b) ==
    [PfxAfter(c, p, b) EXCEPT !.nprefixes = @ + 1, !.rexbyte = IF b \in RexPrefixes THEN b ELSE 0]
IsPrefixIn(c, b) == b \in LegacyPrefixes \/ (In64(c) /\ b \in RexPrefixes)

PfxDerived(c, p) ==
    [p EXCEPT !.rex = IF p.rexbyte # 0 THEN 1 ELSE @,
              !.rep = IF c.mode_first_prefix THEN p.first_f2f3 ELSE p.last_f2f3,
              !.seg_ovd = IF p.ild_seg # 0 THEN SegOvd(p.ild_seg) ELSE @]
EncDerived(p, k) == [k EXCEPT !.rexw = IF p.rexbyte # 0 THEN Bits(p.rexbyte, 3, 1) ELSE @]

AfterPrefixScanner(q, s) ==
    LET b == ByteOf(q, s.length)
    IN  IF s.length < q.max_bytes /\ IsPrefixIn(q.cfg, b)
        THEN With(Goes(s, "prefix", s.length + 1, s.length + 1), PfxCounted(q.cfg, s.pfx, b),
                  s.enc, s.mrm, s.imd)
        ELSE LET t == With(s, PfxDerived(q.cfg, s.pfx), EncDerived(s.pfx, s.enc), s.mrm, s.imd)
             IN  IF s.length < q.max_bytes THEN Goes(t, "vex", s.length, s.length + 1)
                                           ELSE Short(q, Goes(t, "done", s.length, 0))

-----------------------------------------------------------------------------
(* vex_scanner with vex_c4_scanner, vex_c5_scanner and xop_scanner *)
WithOpcodeOf(q, k, n) == [k EXCEPT !.opcode = ByteOf(q, n), !.pos_opcode = n,
                                   !.info = MapInfo(k.vexvalid, k.map)]
MemoryModrm(q, n) == ~In64(q.cfg) /\ Bits(ByteOf(q, n), 6, 2) # 3

VexMap(b1) == Bits(b1, 0, 5)
VexFields(k, b1, b2) == [k EXCEPT !.rexw = Bits(b2, 7, 1), !.map = VexMap(b1)]
VexEnc(k) == [k EXCEPT !.vexvalid = Vex]
BadVexEnc(k) == [k EXCEPT !.map = InvalidMap]
XopEnc(k, b1, b2) ==
    [k EXCEPT !.vexvalid = Xop, !.rexw = Bits(b2, 7, 1),
              !.map = IF ValidXopMap(VexMap(b1)) THEN VexMap(b1) ELSE InvalidMap]

AfterVexScanner(q, s) ==
    LET n == s.length
        b == ByteOf(q, n)
        b1 == ByteOf(q, n + 1)
        b2 == ByteOf(q, n + 2)
        xop == b = \h8F /\ q.cfg.could_support_xop
        none == IF xop THEN Bits(b1, 3, 3) = 0 ELSE MemoryModrm(q, n + 1)
        size == IF b = \hC5 THEN 3 ELSE 4
    IN  IF q.cfg.no_vex = 1 THEN Goes(s, "evex", n, 0)
        ELSE IF b \notin {\hC4, \hC5} /\ ~xop THEN Goes(s, "evex", n, n + 1)
        ELSE IF n + 1 >= q.max_bytes
             THEN Short(q, Goes(s, "done", IF xop THEN n ELSE q.max_bytes, n + 1))
        ELSE IF none THEN Goes(s, "evex", n, n + 2)
        ELSE IF n + size - 1 >= q.max_bytes THEN Short(q, Goes(s, "done", q.max_bytes, n + 2))
        ELSE IF b = \hC5
             THEN WithEnc(Goes(s, "evex", n + 3, n + 3),
                          WithOpcodeOf(q, [s.enc EXCEPT !.vexvalid = Vex, !.map = 1], n + 2))
        ELSE IF xop
             THEN Says(WithEnc(Goes(s, IF ValidXopMap(VexMap(b1)) THEN "evex" ELSE "done", n + 4, n + 4),
                               WithOpcodeOf(q, XopEnc(s.enc, b1, b2), n + 3)),
                       IF ValidXopMap(VexMap(b1)) THEN s.error ELSE "BAD_MAP")
        ELSE IF ValidVexMap(VexMap(b1))
             THEN WithEnc(Goes(s, "evex", n + 4, n + 4),
                          WithOpcodeOf(q, VexEnc(VexFields(s.enc, b1, b2)), n + 3))
             ELSE Says(WithEnc(Goes(s, "done", n + 3, n + 3), BadVexEnc(VexFields(s.enc, b1, b2))),
                       "BAD_MAP")

-----------------------------------------------------------------------------
(* evex_scanner, and catch_invalid_rex_or_legacy_prefixes *)
EvexMapOf(c, b) == Bits(b, 0, IF HasApx(c) THEN 3 ELSE 4)
ErrorOfPayload3(c, b, e) ==
    IF Bits(b, 0, 3) = 0 /\ Bits(b, 7, 1) = 1 THEN "BAD_EVEX_Z_NO_MASKING"
    ELSE IF ~In64(c) /\ Bits(b, 3, 1) = 0 THEN "BAD_EVEX_V_PRIME"
    ELSE e

EvexMapped(k, map) == [k EXCEPT !.vexvalid = Evex, !.map = map]
EvexEnc(k, map, p2, p3) ==
    [k EXCEPT !.vexvalid = Evex, !.map = map, !.rexw = Bits(p2, 7, 1), !.ubit = Bits(p2, 2, 1),
              !.llrc = Bits(p3, 5, 2), !.bcrc = Bits(p3, 4, 1)]
EvexPfx(p, p2) == [p EXCEPT !.osz = IF Bits(p2, 0, 2) = 1 THEN 1 ELSE @]

AfterEvexScanner(q, s) ==
    LET n == s.length
        b == ByteOf(q, n)
        map == EvexMapOf(q.cfg, ByteOf(q, n + 1))
        p2 == ByteOf(q, n + 2)
        p3 == ByteOf(q, n + 3)
        bad == EvexMapped(s.enc, InvalidMap)
    IN  IF s.enc.vexvalid # Legacy THEN Goes(s, "catch_invalid", n, 0)
        ELSE IF ~HasAvx512(q.cfg) THEN Goes(s, "rex2", n, 0)
        ELSE IF b # \h62 THEN Goes(s, "rex2", n, n + 1)
        ELSE IF n + 1 >= q.max_bytes THEN Short(q, Goes(s, "done", q.max_bytes, n + 1))
        ELSE IF MemoryModrm(q, n + 1) THEN Goes(s, "rex2", n, n + 2)
        ELSE IF map = 0
             THEN Says(WithEnc(Goes(s, "catch_invalid", n + 2, n + 2), bad), "BAD_MAP")
        ELSE IF n + 4 >= q.max_bytes
             THEN WithEnc(Short(q, Goes(s, "done", q.max_bytes, n + 2)), EvexMapped(s.enc, map))
        ELSE IF ~ValidEvexMap(map)
             THEN Says(WithEnc(Goes(s, "catch_invalid", n + 4, n + 3), bad), "BAD_MAP")
        ELSE Says(With(Goes(s, "catch_invalid", n + 5, n + 5), EvexPfx(s.pfx, p2),
                       WithOpcodeOf(q, EvexEnc(s.enc, map, p2, p3), n + 4), s.mrm, s.imd),
                  ErrorOfPayload3(q.cfg, p3, s.error))

AfterCatchInvalid(q, s) ==
    Says(Goes(s, "modrm", s.length, 0),
         IF In64(q.cfg) /\ s.pfx.rex = 1 THEN "BAD_REX_PREFIX"
         ELSE IF 1 \in {s.pfx.prefix66, s.pfx.f3, s.pfx.f2} THEN "BAD_LEGACY_PREFIX"
         ELSE s.error)

-----------------------------------------------------------------------------
(* rex2_scanner and opcode_scanner *)
Rex2Enc(k, p) == [k EXCEPT !.rex2 = 1, !.map = Bits(p, 7, 1), !.rexw = Bits(p, 3, 1)]

AfterRex2Scanner(q, s) ==
    LET n == s.length
        e == Rex2Enc(s.enc, ByteOf(q, n + 1))
    IN  IF ~HasApx(q.cfg) THEN Goes(s, "opcode", n, 0)
        ELSE IF ByteOf(q, n) # \hD5 THEN Goes(s, "opcode", n, n + 1)
        ELSE IF n + 1 >= q.max_bytes THEN Short(q, Goes(s, "done", q.max_bytes, n + 1))
        ELSE IF n + 2 = q.max_bytes
             THEN WithEnc(Short(q, Goes(s, "done", q.max_bytes, n + 2)), e)
        ELSE Says(WithEnc(Goes(s, "modrm", n + 3, n + 3), WithOpcodeOf(q, e, n + 2)),
                  IF s.pfx.rex = 1 THEN "BAD_REX_PREFIX" ELSE s.error)

EscapedEnc(k, map) == [k EXCEPT !.map = map, !.info = MapInfo(Legacy, map)]
As3DNow(k) == [k EXCEPT !.amd3dnow = TRUE]

AfterOpcodeScanner(q, s) ==
    LET n == s.length
        map == EscapeMap(ByteOf(q, n + 1))
        e == EscapedEnc(s.enc, map)
    IN  IF ByteOf(q, n) # \h0F
        THEN WithEnc(Goes(s, "modrm", n + 1, n + 1), WithOpcodeOf(q, [s.enc EXCEPT !.map = 0], n))
        ELSE IF n + 1 >= q.max_bytes THEN Short(q, Goes(s, "done", n, n + 1))
        ELSE IF map = 1
             THEN WithEnc(Goes(s, "modrm", n + 2, n + 2), WithOpcodeOf(q, e, n + 1))
        ELSE IF map = Amd3DNow
             THEN WithEnc(Goes(s, "modrm", n + 2, n + 2), As3DNow(e))
        ELSE IF n + 2 = q.max_bytes
             THEN WithEnc(Short(q, Goes(s, "done", n + 2, n + 2)), e)
        ELSE WithEnc(Goes(s, "modrm", n + 3, n + 3), WithOpcodeOf(q, e, n + 2))

-----------------------------------------------------------------------------
(* modrm, SIB, displacement and immediates: what is there, and where *)
ModrmOf(c, k) ==
    LET code == ModrmCode(k.vexvalid, k.map, k.opcode)
    IN  IF k.info.modrm = Yes THEN ModrmTrue
        ELSE IF k.info.modrm = No THEN ModrmFalse
        ELSE IF code # ModrmUd0 THEN code
        ELSE IF c.mode_short_ud0 THEN ModrmFalse ELSE ModrmTrue

HasModrmIs(m, has) == [m EXCEPT !.has_modrm = has]
ModrmRead(m, has, n, b, sib) ==
    [m EXCEPT !.has_modrm = has, !.pos_modrm = n, !.mod = Bits(b, 6, 2), !.reg = Bits(b, 3, 3),
              !.rm = Bits(b, 0, 3), !.has_sib = sib]
DispIs(d, w) == [d EXCEPT !.disp_width = w]

AfterModrmScanner(q, s) ==
    LET n == s.length
        has == ModrmOf(q.cfg, s.enc)
        b == ByteOf(q, n)
        mod == Bits(b, 6, 2)
        rm == Bits(b, 0, 3)
        ea == EaMode(q.cfg.mode, s.pfx.asz)
        regular == has # ModrmIgnoreMod
        t == With(s, s.pfx, s.enc, HasModrmIs(s.mrm, has), s.imd)
    IN  IF has = ModrmFalse THEN Goes(t, "sib", n, 0)
        ELSE IF n >= q.max_bytes THEN Short(q, Goes(t, "sib", n, 0))
        ELSE Says(With(Goes(s, "sib", n + 1, n + 1), s.pfx, s.enc,
                       ModrmRead(s.mrm, has, n, b, regular /\ HasSib(ea, mod, rm)),
                       DispIs(s.imd, IF regular THEN HasDispRegular(ea, mod, rm)
                                                ELSE s.imd.disp_width)),
                  IF s.enc.llrc = 3 /\ (mod # 3 \/ s.enc.bcrc = 0) THEN "BAD_EVEX_LL" ELSE s.error)

AfterSibScanner(q, s) ==
    LET n == s.length
    IN  IF ~s.mrm.has_sib THEN Goes(s, "disp", n, 0)
        ELSE IF n >= q.max_bytes THEN Short(q, Goes(s, "disp", n, 0))
        ELSE With(Goes(s, "disp", n + 1, n + 1), s.pfx, s.enc,
                  [s.mrm EXCEPT !.pos_sib = n],
                  DispIs(s.imd, IF Bits(ByteOf(q, n), 0, 3) = 5 /\ s.mrm.mod = 0
                                THEN 4 ELSE s.imd.disp_width))

ContextOf(c, s) ==
    [mode |-> c.mode, osz |-> s.pfx.osz, asz |-> s.pfx.asz, rexw |-> s.enc.rexw,
     reg |-> s.mrm.reg, rex2 |-> s.enc.rex2, f2 |-> s.pfx.f2]
DispOf(c, s) ==
    LET w == DispWidth(s.enc.vexvalid, s.enc.map, s.enc.opcode, ContextOf(c, s))
    IN  IF s.enc.info.disp = Var /\ w # Keep THEN w ELSE s.imd.disp_width

DispFound(d, w, n) == [d EXCEPT !.disp_width = w, !.pos_disp = n]

AfterDispScanner(q, s) ==
    LET n == s.length
        w == DispOf(q.cfg, s)
    IN  IF w = 0 THEN WithImd(Goes(s, "imm", n, 0), DispIs(s.imd, 0))
        ELSE IF n + w <= q.max_bytes
             THEN WithImd(Goes(s, "imm", n + w, n + w), DispFound(s.imd, w, n))
        ELSE WithImd(Short(q, Goes(s, "imm", n, 0)), DispIs(s.imd, w))

ImmOf(c, s) ==
    IF s.imd.imm_width # 0 THEN [imm |-> s.imd.imm_width, imm1 |-> s.imd.imm1_bytes]
    ELSE IF s.enc.info.imm # ImmVar THEN [imm |-> s.enc.info.imm, imm1 |-> s.imd.imm1_bytes]
    ELSE ImmWidth(s.enc.vexvalid, s.enc.map, s.enc.opcode, ContextOf(c, s))

ImmIs(d, w, w1) == [d EXCEPT !.imm_width = w, !.imm1_bytes = w1]
ImmFound(d, n) == [d EXCEPT !.pos_imm = n]
BothImmFound(d, n, n1) == [d EXCEPT !.pos_imm = n, !.pos_imm1 = n1]
OpcodeBehind(k, b, n) == [k EXCEPT !.opcode = b, !.pos_opcode = n]

AfterImmScanner(q, s) ==
    LET n == s.length
        w == ImmOf(q.cfg, s).imm
        w1 == ImmOf(q.cfg, s).imm1
        d == ImmIs(s.imd, w, w1)
        to == IF s.enc.vexvalid = Evex THEN "late_evex" ELSE "done"
    IN  IF s.enc.amd3dnow
        THEN IF n < q.max_bytes
             THEN With(Goes(s, to, n + 1, n + 1), s.pfx, OpcodeBehind(s.enc, ByteOf(q, n), n), s.mrm, d)
             ELSE WithImd(Short(q, Goes(s, to, n, 0)), d)
        ELSE IF w = 0 THEN WithImd(Goes(s, to, n, 0), d)
        ELSE IF n + w > q.max_bytes THEN WithImd(Short(q, Goes(s, to, n, 0)), d)
        ELSE IF n + w + w1 > q.max_bytes
             THEN WithImd(Short(q, Goes(s, to, n + w, 0)), ImmFound(d, n))
        ELSE WithImd(Goes(s, to, n + w + w1, n + w + w1),
                     BothImmFound(d, n, IF w1 # 0 THEN n + w ELSE d.pos_imm1))

AfterLateEvex(q, s) ==
    WithEnc(Goes(s, "done", s.length, 0),
            IF s.mrm.mod # 3 /\ HasApx(q.cfg)
            THEN [s.enc EXCEPT !.ubit = 1, !.rexx4 = 1 - s.enc.ubit] ELSE s.enc)

-----------------------------------------------------------------------------
(* xed_instruction_length_decode: the scanner that runs next *)
Step(q, s) ==
    CASE s.pc = "prefix"        -> AfterPrefixScanner(q, s)
      [] s.pc = "vex"           -> AfterVexScanner(q, s)
      [] s.pc = "evex"          -> AfterEvexScanner(q, s)
      [] s.pc = "catch_invalid" -> AfterCatchInvalid(q, s)
      [] s.pc = "rex2"          -> AfterRex2Scanner(q, s)
      [] s.pc = "opcode"        -> AfterOpcodeScanner(q, s)
      [] s.pc = "modrm"         -> AfterModrmScanner(q, s)
      [] s.pc = "sib"           -> AfterSibScanner(q, s)
      [] s.pc = "disp"          -> AfterDispScanner(q, s)
      [] s.pc = "imm"           -> AfterImmScanner(q, s)
      [] s.pc = "late_evex"     -> AfterLateEvex(q, s)
      [] OTHER                  -> s
=============================================================================
