---------------------------- MODULE MCXedDecode -----------------------------
(***************************************************************************)
(* A client that decodes a few instruction texts, in several modes and for *)
(* several chips, one after the other into one structure.                  *)
(***************************************************************************)
EXTENDS XedDecodeProps, SequencesExt


(* the opcodes that occur: 0F 05 and A6 have no ModRM byte, 0F 04 no table  *)
(* entry, 0F FF the length the chip gives it                               *)
MCModrm(vv, map, op_) ==
    CASE vv = Legacy /\ map = 0 /\ op_ \in {\h90, \hA6} -> ModrmFalse
      [] vv = Legacy /\ map = 1 /\ op_ = \h05 -> ModrmFalse
      [] vv = Legacy /\ map = 1 /\ op_ = \h04 -> ModrmUndef
      [] vv = Legacy /\ map = 1 /\ op_ = \hFF -> ModrmUd0
      [] OTHER -> ModrmTrue
MCDisp(vv, map, op_, cx) == Keep
MCImm(vv, map, op_, cx) ==
    [imm |-> IF vv = Vex /\ map = 1 /\ op_ = \h70 THEN 1 ELSE 0, imm1 |-> 0]

Plain(iform, isa_set) == Entry(iform, isa_set, {}, "NONE", FALSE)

MCLookup(c, p, e, m) ==
    LET is(vv, map, opcode) == e.vexvalid = vv /\ e.map = map /\ e.opcode = opcode
    IN  CASE is(Legacy, 0, \h90) -> Plain("NOP", "I86")
          [] is(Legacy, 0, \hA6) -> Plain(CASE p.rep = 2 -> "REPNE_CMPSB"
                                            [] p.rep = 3 -> "REPE_CMPSB"
                                            [] OTHER -> "CMPSB", "I86")
          [] is(Legacy, 0, \h01) ->
               Entry("ADD", "I86", (IF m.mod # 3 THEN {"LOCKED"} ELSE {})
                                   \cup (IF e.rex2 = 1 THEN {"APX"} ELSE {}), "NONE", FALSE)
          [] is(Legacy, 0, \hC5) -> IF m.mod # 3 THEN Plain("LDS", "I86") ELSE Undefined
          [] is(Legacy, 0, \h8E) ->   \* MOV to a segment register: there are six, and CS is none
               Entry("MOV_SEG", "I86", {}, IF m.reg \in {1, 6, 7} THEN "BAD_REGISTER" ELSE "NONE", FALSE)
          [] is(Legacy, 1, \hFF) ->
               IF c.mode_short_ud0 THEN Plain("UD0", "PPRO_UD0_SHORT") ELSE Plain("UD0", "PPRO_UD0_LONG")
          [] is(Legacy, 1, \h00) -> Entry("LLDT", "I286PROTECTED", {"PROTECTED_MODE"}, "NONE", FALSE)
          [] is(Legacy, 1, \h05) -> IF c.mode = Mode64 THEN Plain("SYSCALL", "LONGMODE") ELSE Undefined
          [] is(Vex, 1, \h70)  -> Plain("VPSHUFD", "AVX")
          [] is(Vex, 2, \h90)  -> Entry("VPGATHERDD", "AVX2GATHER", {"GATHER"}, "NONE", m.reg = m.rm)
          [] is(Evex, 1, \h58) -> Plain("VADDPS", "AVX512")
          [] is(Xop, 9, \h90)  -> Plain("VPROTB", "XOP")
          [] OTHER -> Undefined

(* a first-prefix chip, one with AVX and XOP, one with all but XOP *)
Old == {"I86", "I286PROTECTED"}
MCChipTable ==
    [INVALID   |-> [first_prefix |-> FALSE, xop |-> TRUE,  features |-> {}],
     I386      |-> [first_prefix |-> TRUE,  xop |-> FALSE, features |-> Old],
     BULLDOZER |-> [first_prefix |-> FALSE, xop |-> TRUE,
                    features |-> Old \cup {"AVX", "XOP", "LONGMODE", "PPRO_UD0_SHORT"}],
     DMR       |-> [first_prefix |-> FALSE, xop |-> FALSE,
                    features |-> Old \cup {"AVX", "AVX2GATHER", "AVX512", "APX_F", "LONGMODE",
                                           "PPRO_UD0_LONG"}]]

(* DMR's features without those that need 512-bit registers *)
MCCpuid == {MCChipTable["DMR"].features \ {"AVX512", "APX_F"}}

LongMode == [mode |-> Mode64, realmode |-> FALSE]
MCModes == {LongMode, [mode |-> Mode32, realmode |-> FALSE], [mode |-> Mode16, realmode |-> TRUE]}
TwoModes == {LongMode, [mode |-> Mode32, realmode |-> FALSE]}

All(itext_) == [itext |-> itext_, bytes |-> Len(itext_)]
Prefixes66(n) == [i \in 1..n |-> \h66]

History == {All(<<\hF2, \hF3, \hA6>>), All(<<\hC5, \hF9, \h70, \hC0, \h01>>),
            All(<<\h0F, \hFF, \hC0>>), All(<<\hD5, \h08, \h01, \hC0>>)}

Everything ==
    History \cup
    {All(<<\hF0, \h90>>), All(<<\hF0, \h01, \h00>>), All(<<\hF0, \h01, \hC0>>),
     All(<<\h0F, \h04, \hC0>>), All(<<\h0F, \h05>>), All(<<\h0F, \h00, \hD0>>),
     All(<<\h8E, \hC0>>), All(<<\h8E, \hC8>>), All(<<\hC5, \hF9>>),
     All(<<\hC4, \hE2, \h79, \h90, \hC0>>), All(<<\hC4, \hE2, \h79, \h90, \hC1>>),
     All(<<\h62, \hF1, \h7C, \h08, \h58, \hC0>>), All(<<\h8F, \hE9, \h78, \h90, \hC0>>),
     All(<<\h66, \hC5, \hF9, \h70, \hC0, \h01>>), All(Prefixes66(14)), All(Prefixes66(16)),
     [itext |-> <<\hC5, \hF9, \h70, \hC0, \h01>>, bytes |-> 4]}

(* One decode of everything, and more after those of History in two modes.  *)
Explored ==
    \/ calls = 0
    \/ calls = 1 /\ ~fresh
    \/ /\ itext \in {in.itext : in \in History}
       /\ cfg.mode # Mode16 /\ \A a \in first : a.question[2] # Mode16
=============================================================================
