----------------------------- MODULE XedDecode -----------------------------
(***************************************************************************)
(* The life of the xed_decoded_inst_t a client decodes into, call after    *)
(* call: one of the initialisation functions, then perhaps a chip, then    *)
(* xed_decode, xed_decode_with_features or xed_ild_decode.  The decode     *)
(* pipeline starts with the length decoder of XedIld, whose variables are  *)
(* the operand storage.  What the generated tables and capture functions   *)
(* say of an instruction is the constant Lookup.  The client initialises   *)
(* the structure before every decode, as the documentation requires.       *)
(***************************************************************************)
EXTENDS XedIld, FiniteSets

CONSTANTS
    MachineModes,       \* records [mode, realmode], from xed_state_t
    ChipTable,          \* chip -> [first_prefix, xop, features]
    InvalidChip,        \* XED_CHIP_INVALID: no chip chosen
    CpuidVectors,       \* feature vectors for xed_decode_with_features
    Lookup(_, _, _, _), \* the table entry, by cfg, pfx, enc and mrm
    MaxCalls            \* bound on the decodes of the client

ASSUME MachineAssumption == MachineModes \subseteq [mode : Modes, realmode : BOOLEAN]
ASSUME ChipAssumption ==
    /\ InvalidChip \in DOMAIN ChipTable
    /\ \A c \in DOMAIN ChipTable :
          /\ ChipTable[c].first_prefix \in BOOLEAN /\ ChipTable[c].xop \in BOOLEAN
          /\ \A x \in ChipTable[c].features : x \in STRING
ASSUME CpuidAssumption == \A f \in CpuidVectors : \A x \in f : x \in STRING

VARIABLES
    phase,              \* "client", or the stage of the decode that runs
    op,                 \* the function called last: "decode" or "ild"
    chip,               \* the CHIP operand
    realmode,           \* the REALMODE operand
    features,           \* {} or {the feature set of this call}
    inst,               \* _inst
    returned,           \* what the last decode returned
    fresh,              \* initialised, and not yet decoded into
    calls,
    first               \* history: {} or {the answer to the client's first decode}

storage == <<length, out_of_bytes, error, pfx, enc, mrm, imd>>
dvars == <<phase, op, chip, realmode, features, inst, returned, fresh, calls, first>>
allvars == <<vars, dvars>>

(* An entry of xed_inst_table: its isa_set and attributes, the error its   *)
(* capture functions end with, and whether the registers it captured are   *)
(* such that its register check objects.                                   *)
Entry(iform, isa_set, attributes, capture_error, collide) ==
    [iform |-> iform, isa_set |-> isa_set, attributes |-> attributes,
     capture_error |-> capture_error, collide |-> collide]

NoInst == Entry("NULL", "INVALID", {}, "NONE", FALSE)       \* _inst = 0
Undefined == Entry("INVALID", "INVALID", {}, "NONE", FALSE) \* entry 0, what a lookup without a hit gives

(* the preset operands, all zero but the mode, and could_support_xop_instr *)
ZeroConfig(mode) ==
    [mode |-> mode, no_vex |-> 0, no_evex |-> 0, no_apx |-> 0,
     could_support_xop |-> ChipTable[InvalidChip].xop,
     mode_first_prefix |-> FALSE, mode_short_ud0 |-> FALSE]

InitDecode ==
    /\ \E m \in MachineModes : cfg = ZeroConfig(m.mode) /\ realmode = m.realmode
    /\ itext = <<>> /\ max_bytes = 0
    /\ pc = "done" /\ length = 0 /\ reads = 0 /\ out_of_bytes = FALSE /\ error = "NONE"
    /\ pfx = NoPfx /\ enc = NoEnc /\ mrm = NoMrm /\ imd = NoImd
    /\ phase = "client" /\ op = "none" /\ chip = InvalidChip /\ features = {}
    /\ inst = NoInst /\ returned = "NONE" /\ fresh = TRUE /\ calls = 0 /\ first = {}

-----------------------------------------------------------------------------
(* What a decode was asked and what it left. *)
Question == <<op, cfg.mode, realmode, chip, features, itext, max_bytes>>
Answer == [question |-> Question, result |-> <<returned, inst, storage>>]

Client == phase = "client" /\ calls < MaxCalls

ZeroOperandsButImm ==       \* mutant: the immediate widths are left
    /\ out_of_bytes' = FALSE
    /\ error' = "NONE"
    /\ pfx' = NoPfx /\ enc' = NoEnc /\ mrm' = NoMrm /\ imd' = imd
ZeroOperands ==
    /\ out_of_bytes' = FALSE
    /\ error' = "NONE"
    /\ pfx' = NoPfx /\ enc' = NoEnc /\ mrm' = NoMrm /\ imd' = NoImd

(* The initialisation functions zero the operand storage, the chip and     *)
(* what it preset included; they differ in the mode they leave.            *)
Zero(mode) ==
    /\ length' = 0
    /\ ZeroOperands
    /\ inst' = NoInst
    /\ chip' = InvalidChip
    /\ cfg' = ZeroConfig(mode)
    /\ fresh' = TRUE
    /\ first' = IF first = {} THEN {Answer} ELSE first
    /\ UNCHANGED <<pc, itext, max_bytes, reads, phase, op, features, returned, calls>>

ZeroSetMode ==
    /\ Client /\ ~fresh
    /\ \E m \in MachineModes : Zero(m.mode) /\ realmode' = m.realmode

ZeroKeepMode ==
    /\ Client /\ ~fresh
    /\ Zero(cfg.mode)
    /\ UNCHANGED realmode

SetInputChip ==
    /\ Client /\ fresh
    /\ chip' \in DOMAIN ChipTable \ {chip}
    /\ UNCHANGED <<vars, phase, op, realmode, features, inst, returned, fresh, calls, first>>

-----------------------------------------------------------------------------
(* set_chip_modes.  Old chips set mode_first_prefix and none clears it;    *)
(* the other operands depend on the features, when there are any.          *)
Absent(f, x) == IF \A s \in f : x \in s THEN 0 ELSE 1
(* mutant: not for the length decoder on its own *)
SetIsaModesInDecode(c, f) ==
    IF op' = "ild" THEN c
    ELSE [c EXCEPT !.no_vex = Absent(f, "AVX"), !.no_evex = Absent(f, "AVX512"),
                   !.no_apx = Absent(f, "APX_F"),
                   !.mode_short_ud0 = Absent(f, "PPRO_UD0_SHORT") = 0]
SetIsaModes(c, f) ==
    [c EXCEPT !.no_vex = Absent(f, "AVX"), !.no_evex = Absent(f, "AVX512"),
              !.no_apx = Absent(f, "APX_F"),
              !.mode_short_ud0 = Absent(f, "PPRO_UD0_SHORT") = 0]
SetChipModes(f) ==
    LET c == [cfg EXCEPT !.mode_first_prefix = @ \/ ChipTable[chip].first_prefix,
                         !.could_support_xop = ChipTable[chip].xop]
    IN  IF f = {} THEN c ELSE SetIsaModes(c, f)

ChipFeatures == IF chip = InvalidChip THEN {} ELSE {ChipTable[chip].features}

(* Up to the call of xed_instruction_length_decode. *)
Start(function, in, f) ==
    /\ Client /\ fresh
    /\ op' = function
    /\ features' = f
    /\ cfg' = SetChipModes(f)
    /\ itext' = in.itext
    /\ max_bytes' = MaxBytes(in.bytes)
    /\ pc' = "prefix"
    /\ reads' = 0
    /\ phase' = "ild"
    /\ fresh' = FALSE
    /\ calls' = calls + 1
    /\ UNCHANGED <<storage, chip, realmode, inst, returned, first>>

Decode(in) == Start("decode", in, ChipFeatures)
(* mutant: explicit features added to the chip's *)
DecodeWithMoreFeatures(in) == \E f \in CpuidVectors : Start("decode", in, {f} \cup ChipFeatures)

(* explicit features take the place of the chip's *)
DecodeWithFeatures(in) == \E f \in CpuidVectors : Start("decode", in, {f})
IldDecode(in) == Start("ild", in, ChipFeatures)

IldStep ==
    /\ phase = "ild"
    /\ Next
    /\ UNCHANGED dvars

Return(e) == phase' = "client" /\ returned' = e

(* xed_ild_decode calls both ways to run out of bytes BUFFER_TOO_SHORT. *)
IldReturn ==
    /\ phase = "ild" /\ pc = "done" /\ op = "ild"
    /\ Return(IF out_of_bytes THEN "BUFFER_TOO_SHORT" ELSE error)
    /\ UNCHANGED <<vars, op, chip, realmode, features, inst, fresh, calls, first>>

(* An ILD error ends the decode.  The operand and address size             *)
(* nonterminals of part 1 have no case that fails, so the lookup follows;  *)
(* when it finds nothing only the caller is told.                          *)
StaticDecode ==
    /\ phase = "ild" /\ pc = "done" /\ op = "decode"
    /\ \/ /\ error # "NONE"
          /\ Return(error)
          /\ UNCHANGED inst
       \/ /\ error = "NONE"
          /\ inst' = Lookup(cfg, pfx, enc, mrm)
          /\ IF inst' = Undefined THEN Return("GENERAL_ERROR")
                                  ELSE phase' = "capture" /\ UNCHANGED returned
    /\ UNCHANGED <<vars, op, chip, realmode, features, fresh, calls, first>>

(* part 2 and the operands: the captures stop at the first error *)
CaptureOperands ==
    /\ phase = "capture"
    /\ error' = inst.capture_error
    /\ IF error' # "NONE" THEN Return(error') ELSE phase' = "finalize" /\ UNCHANGED returned
    /\ UNCHANGED <<pc, inputs, length, out_of_bytes, reads, pfx, enc, mrm, imd,
                   op, chip, realmode, features, inst, fresh, calls, first>>

-----------------------------------------------------------------------------
Has(attribute) == attribute \in inst.attributes

(* The checks after that of LOCK, in the code's order: a later one that    *)
(* objects replaces the error of an earlier one.                           *)
Checks ==
    <<[objects |-> inst.collide /\ (Has("NO_SRC_DEST_MATCH") \/ Has("NO_REG_MATCH")),
       error   |-> "BAD_REG_MATCH"],
      [objects |-> inst.collide /\ Has("GATHER"),
       error   |-> "GATHER_REGS"],
      [objects |-> Has("NO_RIP_REL") /\ mrm.rm = 5 /\ mrm.mod = 0 /\ mode_64b,
       error   |-> "GENERAL_ERROR"],
      [objects |-> /\ realmode
                   /\ enc.vexvalid # Legacy \/ Has("PROTECTED_MODE")
                   /\ inst.isa_set \notin {"SEP", "SMX"},
       error   |-> "INVALID_MODE"]>>

(* mutant: LOCK not checked *)
FinalErrorButLock ==
    LET objecting == {i \in DOMAIN Checks : Checks[i].objects}
    IN  IF objecting = {} THEN error
        ELSE Checks[CHOOSE i \in objecting : \A j \in objecting : j <= i].error

FinalError ==
    LET objecting == {i \in DOMAIN Checks : Checks[i].objects}
    IN  IF pfx.lock = 1 /\ ~Has("LOCKED") THEN "BAD_LOCK_PREFIX"
        ELSE IF objecting = {} THEN error
        ELSE Checks[CHOOSE i \in objecting : \A j \in objecting : j <= i].error

InvalidForChip ==
    \E f \in features : inst.isa_set \notin f \/ (~decoder_supports_apx /\ Has("APX"))

(* xed_decode_finalize_operand_storage_fields and the test of the chip,    *)
(* whose error is returned but not kept in the operand storage             *)
Finalize ==
    /\ phase = "finalize"
    /\ error' = FinalError
    /\ Return(IF FinalError = "NONE" /\ InvalidForChip THEN "INVALID_FOR_CHIP" ELSE FinalError)
    /\ UNCHANGED <<pc, inputs, length, out_of_bytes, reads, pfx, enc, mrm, imd,
                   op, chip, realmode, features, inst, fresh, calls, first>>

-----------------------------------------------------------------------------
Pipeline == IldStep \/ IldReturn \/ StaticDecode \/ CaptureOperands \/ Finalize

NextDecode ==
    \/ ZeroSetMode \/ ZeroKeepMode \/ SetInputChip
    \/ \E in \in Inputs : Decode(in) \/ DecodeWithFeatures(in) \/ IldDecode(in)
    \/ Pipeline

SpecDecode == InitDecode /\ [][NextDecode]_allvars
=============================================================================
