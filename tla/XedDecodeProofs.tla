-------------------------- MODULE XedDecodeProofs --------------------------
(***************************************************************************)
(* Proofs about a client's decodes, for every table, chip, set of features *)
(* and number of calls.  The length decoder runs inside each decode: what  *)
(* its own proofs establish is carried along from the call that enters it  *)
(* to the answer the client gets.                                          *)
(***************************************************************************)
EXTENDS XedDecodeProps, XedIldFieldProofs

(* The operands a decode starts from, which the client's initialisation    *)
(* has zeroed (xed_decoded_inst_zero and its variants).                    *)
Zeroed == /\ length = 0 /\ out_of_bytes = FALSE /\ error = "NONE"
          /\ pfx = NoPfx /\ enc = NoEnc /\ mrm = NoMrm /\ imd = NoImd
FreshInv == fresh => phase = "client" /\ Zeroed

(* The length decoder's own invariants hold while it runs, and afterwards  *)
(* as long as no later stage of the decode has found an error.             *)
IldStands == ~fresh /\ (phase = "ild" \/ error = "NONE")
StandsInv == IldStands => IldInv /\ PrefixInv /\ FieldsInv

(* set_chip_modes ran for this call, with its chip and its features *)
PresetInv ==
    ~fresh => /\ cfg.could_support_xop = ChipTable[chip].xop
              /\ features # {} => /\ cfg.no_vex = Absent(features, "AVX")
                                 /\ cfg.no_evex = Absent(features, "AVX512")
                                 /\ cfg.no_apx = Absent(features, "APX_F")

(* the encoding spaces open to the length decoder under its presets *)
SpacesInv ==
    /\ cfg.no_vex = 1 => enc.vexvalid = Legacy
    /\ ~decoder_supports_avx512 => enc.vexvalid # Evex
    /\ ~decoder_supports_apx => enc.rex2 = 0
    /\ enc.vexvalid = Xop => cfg.could_support_xop

(* The lookup answers with the address of an entry of xed_inst_table, if   *)
(* only of the undefined one: it never leaves _inst the null pointer.      *)
LookupFinds == \A c, p, e, m : Lookup(c, p, e, m) # NoInst

(* only a decode that found an instruction goes past the lookup *)
FoundInv == phase \in {"capture", "finalize"} =>
               /\ ~fresh /\ op = "decode" /\ error = "NONE"
               /\ inst # Undefined /\ (LookupFinds => inst # NoInst)

(* an answer without an error leaves none in the operand storage *)
ReturnedInv == AtRest /\ returned = "NONE" => error = "NONE"

DecodeInv == /\ TypeOKDecode /\ FreshInv /\ StandsInv /\ PresetInv
             /\ (~fresh => SpacesInv) /\ FoundInv /\ ReturnedInv

-----------------------------------------------------------------------------
(* The feature sets: of a chip, or of the call; there is at most one. *)
LEMMA FeaturesOfCall ==
    ASSUME TypeOKDecode, NEW f, f = ChipFeatures \/ \E v \in CpuidVectors : f = {v}
    PROVE  (\A v \in f : \A x \in v : x \in STRING) /\ Cardinality(f) <= 1
<1>1. PICK v : f = {} \/ (f = {v} /\ \A x \in v : x \in STRING)
  BY ChipAssumption, CpuidAssumption DEF ChipFeatures, TypeOKDecode
<1>2. Cardinality(f) = 0 \/ Cardinality(f) = 1
  BY <1>1, FS_EmptySet, FS_Singleton
<1>. QED  BY <1>1, <1>2

LEMMA ZeroConfigType == ASSUME NEW mode \in Modes PROVE ZeroConfig(mode) \in Config
BY ChipAssumption DEF ZeroConfig, Config, Bit

(* set_chip_modes writes all the operands that depend on the features. *)
LEMMA ChipModes ==
    ASSUME cfg \in Config, chip \in DOMAIN ChipTable, NEW F
    PROVE  /\ SetChipModes(F) \in Config
           /\ SetChipModes(F).could_support_xop = ChipTable[chip].xop
           /\ F # {} => /\ SetChipModes(F).no_vex = Absent(F, "AVX")
                       /\ SetChipModes(F).no_evex = Absent(F, "AVX512")
                       /\ SetChipModes(F).no_apx = Absent(F, "APX_F")
<1>. DEFINE c == [cfg EXCEPT !.mode_first_prefix = @ \/ ChipTable[chip].first_prefix,
                             !.could_support_xop = ChipTable[chip].xop]
<1>1. c \in Config /\ c.could_support_xop = ChipTable[chip].xop
  BY ChipAssumption DEF Config
<1>2. SetChipModes(F) = IF F = {} THEN c ELSE SetIsaModes(c, F)
  BY DEF SetChipModes
<1>. HIDE DEF c
<1>3. \A x : Absent(F, x) \in Bit
  BY DEF Absent, Bit
<1>4. /\ SetIsaModes(c, F) \in Config
      /\ SetIsaModes(c, F).could_support_xop = c.could_support_xop
      /\ SetIsaModes(c, F).no_vex = Absent(F, "AVX")
      /\ SetIsaModes(c, F).no_evex = Absent(F, "AVX512")
      /\ SetIsaModes(c, F).no_apx = Absent(F, "APX_F")
  BY <1>1, <1>3 DEF SetIsaModes, Config
<1>. QED  BY <1>1, <1>2, <1>4

LEMMA InitDecodeInv == InitDecode => DecodeInv
<1>. SUFFICES ASSUME InitDecode PROVE DecodeInv
  OBVIOUS
<1>1. PICK m \in MachineModes : cfg = ZeroConfig(m.mode) /\ realmode = m.realmode
  BY DEF InitDecode
<1>2. m.mode \in Modes /\ m.realmode \in BOOLEAN
  BY MachineAssumption
<1>3. TypeOKDecode
  BY <1>1, <1>2, ZeroConfigType, ChipAssumption, FS_EmptySet DEF InitDecode, TypeOKDecode
<1>. QED  BY <1>3 DEF InitDecode, DecodeInv, FreshInv, Zeroed, StandsInv, IldStands, PresetInv, SpacesInv,
                      FoundInv, ReturnedInv, AtRest

-----------------------------------------------------------------------------
(* The client between two decodes. *)
LEMMA ZeroInv ==
    ASSUME DecodeInv, Client, NEW mode \in Modes, Zero(mode), realmode' \in BOOLEAN
    PROVE  DecodeInv'
<1>1. TypeOKDecode'
  <2>1. cfg' \in Config
    BY ZeroConfigType DEF Zero
  <2>2. Cardinality(first') <= 1
    <3>1. first' = first \/ first' = {Answer}
      BY DEF Zero
    <3>2. \A a : Cardinality({a}) <= 1
      <4>1. \A a : Cardinality({a}) = 1
        BY FS_Singleton
      <4>. QED  BY <4>1
    <3>3. Cardinality(first) <= 1
      BY DEF DecodeInv, TypeOKDecode
    <3>. QED  BY <3>1, <3>2, <3>3, Zenon
  <2>. QED  BY <2>1, <2>2, ChipAssumption DEF Zero, DecodeInv, TypeOKDecode, Client
<1>2. FreshInv'
  BY DEF Zero, ZeroOperands, FreshInv, Zeroed, Client
<1>. QED  BY <1>1, <1>2 DEF Zero, Client, DecodeInv, StandsInv, IldStands, PresetInv, FoundInv,
                            ReturnedInv, AtRest

LEMMA ClientInv ==
    ASSUME DecodeInv, ZeroSetMode \/ ZeroKeepMode \/ SetInputChip
    PROVE  DecodeInv'
<1>1. CASE ZeroSetMode
  <2>1. PICK m \in MachineModes : Client /\ Zero(m.mode) /\ realmode' = m.realmode
    BY <1>1 DEF ZeroSetMode
  <2>2. m.mode \in Modes /\ m.realmode \in BOOLEAN
    BY MachineAssumption
  <2>. QED  BY <2>1, <2>2, ZeroInv
<1>2. CASE ZeroKeepMode
  <2>1. cfg.mode \in Modes /\ realmode' \in BOOLEAN
    BY <1>2 DEF DecodeInv, TypeOKDecode, Config, ZeroKeepMode
  <2>. QED  BY <1>2, <2>1, ZeroInv DEF ZeroKeepMode
<1>3. CASE SetInputChip
  <2>1. TypeOKDecode'
    BY <1>3 DEF SetInputChip, Client, vars, DecodeInv, TypeOKDecode
  <2>. QED  BY <1>3, <2>1 DEF SetInputChip, Client, vars, DecodeInv, FreshInv, Zeroed, StandsInv,
                    IldStands, PresetInv, FoundInv, ReturnedInv, AtRest
<1>. QED  BY <1>1, <1>2, <1>3

-----------------------------------------------------------------------------
(* The call that enters the length decoder. *)
LEMMA StartStarted ==
    ASSUME DecodeInv, NEW function, NEW in \in Inputs, NEW f, Start(function, in, f)
    PROVE  Started'
<1>1. in.itext \in Seq(Byte256) /\ in.bytes \in Nat
  BY InputAssumption
<1>2. max_bytes' \in Pos
  BY <1>1, MaxBytesRange DEF Start
<1>3. cfg' \in Config
  BY ChipModes DEF Start, DecodeInv, TypeOKDecode
<1>. QED  BY <1>1, <1>2, <1>3 DEF Start, storage, DecodeInv, FreshInv, Zeroed, Started

LEMMA StartInv ==
    ASSUME DecodeInv, NEW function \in {"decode", "ild"}, NEW in \in Inputs, NEW f,
           f = ChipFeatures \/ (\E v \in CpuidVectors : f = {v}), Start(function, in, f),
           Started' => IldInv' /\ PrefixInv' /\ FieldsInv'
    PROVE  DecodeInv'
<1>1. Started'
  BY StartStarted
<1>2. TypeOKDecode'
  <2>1. (\A v \in f : \A x \in v : x \in STRING) /\ Cardinality(f) <= 1
    BY FeaturesOfCall DEF DecodeInv
  <2>. QED  BY <1>1, <2>1 DEF Start, DecodeInv, TypeOKDecode, Started
<1>3. StandsInv'
  BY <1>1 DEF StandsInv
<1>4. PresetInv'
  BY ChipModes DEF Start, PresetInv, DecodeInv, TypeOKDecode
<1>5. SpacesInv'
  BY <1>1 DEF Started, SpacesInv, NoEnc, Legacy, Evex, Xop
<1>. QED  BY <1>2, <1>3, <1>4, <1>5 DEF Start, Client, DecodeInv, FreshInv, FoundInv, ReturnedInv, AtRest

(* Recording an opcode leaves the space and the REX2 flag. *)
LEMMA SpaceOfOpcode ==
    ASSUME NEW e, NEW p, {"vexvalid", "rex2", "opcode", "pos_opcode", "info"} \subseteq DOMAIN e
    PROVE  WithOpcode(e, p).vexvalid = e.vexvalid /\ WithOpcode(e, p).rex2 = e.rex2
BY DEF WithOpcode

(* What a step of the length decoder takes the encoding from, and which    *)
(* presets it asked first.                                                 *)
LEMMA SpaceOfStep ==
    ASSUME IldInv, Next
    PROVE  \/ enc'.vexvalid = enc.vexvalid /\ enc'.rex2 = enc.rex2
           \/ /\ enc'.rex2 = enc.rex2 /\ cfg.no_vex = 0
              /\ \/ enc'.vexvalid = Vex
                 \/ enc'.vexvalid = Xop /\ cfg.could_support_xop
                 \/ enc'.vexvalid = Evex /\ decoder_supports_avx512
           \/ enc'.vexvalid = enc.vexvalid /\ decoder_supports_apx
<1>. enc \in EncType
  BY DEF IldInv, TypeOK
<1>1. CASE PrefixByte \/ PrefixesOut \/ CatchInvalid \/ Rex2None \/ VexNone \/ EvexNone
  BY <1>1 DEF PrefixByte, PrefixesOut, CatchInvalid, Rex2None, VexNone, EvexNone, EncType
<1>2. CASE VexShort \/ OpcodeShort
  BY <1>2 DEF VexShort, OpcodeShort, RunOut, EncType, Escaped
<1>3. CASE VexC4
  <2>. DEFINE e == [enc EXCEPT !.rexw = Bits(Byte(length + 2), 7, 1),
                               !.map = Bits(Byte(length + 1), 0, 5)]
              v == [e EXCEPT !.vexvalid = Vex]
              bad == [e EXCEPT !.map = InvalidMap]
  <2>1. cfg.no_vex = 0 /\ (enc' = WithOpcode(v, length + 3) \/ enc' = bad)
    BY <1>3, Zenon DEF VexC4, BadMap
  <2>2. e.vexvalid = enc.vexvalid /\ e.rex2 = enc.rex2 /\ DOMAIN e = DOMAIN enc
    BY DEF EncType
  <2>. HIDE DEF e
  <2>3. v.vexvalid = Vex /\ v.rex2 = enc.rex2 /\ DOMAIN v = DOMAIN enc
    BY <2>2 DEF EncType
  <2>4. bad.vexvalid = enc.vexvalid /\ bad.rex2 = enc.rex2
    BY <2>2 DEF EncType
  <2>. HIDE DEF v, bad
  <2>5. {"vexvalid", "rex2", "opcode", "pos_opcode", "info"} \subseteq DOMAIN v
    BY <2>3 DEF EncType
  <2>. QED  BY <2>1, <2>3, <2>4, <2>5, SpaceOfOpcode
<1>4. CASE VexC5
  BY <1>4 DEF VexC5, WithOpcode, EncType
<1>13. CASE VexXop
  <2>. DEFINE map == Bits(Byte(length + 1), 0, 5)
              m == IF ValidXopMap(map) THEN map ELSE InvalidMap
              w == Bits(Byte(length + 2), 7, 1)
              e == [enc EXCEPT !.vexvalid = Xop, !.rexw = w, !.map = m]
  <2>1. cfg.no_vex = 0 /\ cfg.could_support_xop /\ enc' = WithOpcode(e, length + 3)
    BY <1>13, Zenon DEF VexXop, IsXop
  <2>. HIDE DEF m, w
  <2>2. e.vexvalid = Xop /\ e.rex2 = enc.rex2 /\ DOMAIN e = DOMAIN enc
    BY DEF EncType
  <2>. HIDE DEF e
  <2>3. {"vexvalid", "rex2", "opcode", "pos_opcode", "info"} \subseteq DOMAIN e
    BY <2>2 DEF EncType
  <2>. QED  BY <2>1, <2>2, <2>3, SpaceOfOpcode
<1>5. CASE EvexShort
  BY <1>5 DEF EvexShort, RunOut, EncType, IsEvex, decoder_supports_avx512
<1>6. CASE EvexBadMap
  BY <1>6 DEF EvexBadMap, BadMap, EncType, IsEvex, decoder_supports_avx512
<1>7. CASE EvexScan
  BY <1>7 DEF EvexScan, WithOpcode, EncType, IsEvex, decoder_supports_avx512
<1>8. CASE Rex2
  <2>. DEFINE p == Byte(length + 1)
              e == [enc EXCEPT !.rex2 = 1, !.map = Bits(p, 7, 1), !.rexw = Bits(p, 3, 1)]
  <2>1. decoder_supports_apx /\ enc' \in {enc, e, WithOpcode(e, length + 2)}
    BY <1>8 DEF Rex2, RunOut
  <2>2. e.vexvalid = enc.vexvalid /\ DOMAIN e = DOMAIN enc
    BY DEF EncType
  <2>. HIDE DEF e
  <2>3. {"vexvalid", "rex2", "opcode", "pos_opcode", "info"} \subseteq DOMAIN e
    BY <2>2 DEF EncType
  <2>. QED  BY <2>1, <2>2, <2>3, SpaceOfOpcode
<1>9. CASE OpcodeMap0 \/ OpcodeMap1 \/ OpcodeMap23 \/ Opcode3DNow
  BY <1>9 DEF OpcodeMap0, OpcodeMap1, OpcodeMap23, Opcode3DNow, WithOpcode, Escaped, EncType
<1>10. CASE ModrmScanner \/ SibScanner \/ DispScanner
  BY <1>10 DEF ModrmScanner, SibScanner, DispScanner
<1>11. CASE ImmScanner3DNow \/ ImmScanner
  BY <1>11 DEF ImmScanner3DNow, ImmScanner, EncType
<1>12. CASE LateEvex
  BY <1>12 DEF LateEvex, EncType
<1>. QED  BY <1>1, <1>2, <1>3, <1>4, <1>5, <1>6, <1>7, <1>8, <1>9, <1>10, <1>11, <1>12, <1>13 DEF Next

LEMMA IldStepSpaces ==
    ASSUME IldInv, SpacesInv, Next
    PROVE  SpacesInv'
<1>1. /\ cfg' = cfg /\ cfg \in Config
      /\ decoder_supports_apx' = decoder_supports_apx
      /\ decoder_supports_avx512' = decoder_supports_avx512
  BY InputsStay DEF inputs, decoder_supports_apx, decoder_supports_avx512, mode_64b, IldInv, TypeOK
<1>2. decoder_supports_avx512 => cfg.no_vex = 0
  BY DEF decoder_supports_avx512
<1>. QED  BY <1>1, <1>2, SpaceOfStep DEF SpacesInv, Legacy, Vex, Evex, Xop

(* A step of the length decoder inside a decode. *)
LEMMA IldStepInv ==
    ASSUME DecodeInv, IldStep
    PROVE  DecodeInv'
<1>1. /\ phase = "ild" /\ Next /\ ~fresh /\ ~fresh' /\ dvars' = dvars /\ phase' = "ild"
  BY DEF IldStep, DecodeInv, FreshInv, dvars
<1>2. IldInv /\ PrefixInv /\ FieldsInv
  BY <1>1 DEF DecodeInv, StandsInv, IldStands
<1>3. IldInv' /\ PrefixInv' /\ FieldsInv'
  BY <1>1, <1>2, NextInv, PrefixInvStep, FieldsStep
<1>4. cfg' = cfg
  BY <1>1, InputsStay DEF inputs
<1>5. TypeOKDecode'
  BY <1>1, <1>4 DEF DecodeInv, TypeOKDecode, dvars
<1>6. PresetInv'
  BY <1>1, <1>4 DEF DecodeInv, PresetInv, dvars
<1>7. SpacesInv'
  BY <1>1, <1>2, IldStepSpaces DEF DecodeInv
<1>. QED  BY <1>1, <1>3, <1>5, <1>6, <1>7 DEF DecodeInv, FreshInv, StandsInv, FoundInv, ReturnedInv, AtRest

-----------------------------------------------------------------------------
(* The stages behind the length decoder: the operand storage keeps what it *)
(* has, but for the error.                                                 *)
LEMMA LaterInv ==
    ASSUME DecodeInv, phase # "client", phase' \in {"client", "capture", "finalize"},
           UNCHANGED <<pc, inputs, length, out_of_bytes, reads, pfx, enc, mrm, imd>>,
           UNCHANGED <<op, chip, realmode, features, fresh, calls, first>>,
           pc = "done", error' = "NONE" => error = "NONE"
    PROVE  TypeOKDecode' /\ FreshInv' /\ StandsInv' /\ PresetInv' /\ (~fresh => SpacesInv)'
<1>1. ~fresh /\ ~fresh'
  BY DEF DecodeInv, FreshInv
<1>2. TypeOKDecode'
  BY DEF DecodeInv, TypeOKDecode, inputs
<1>3. StandsInv'
  <2>. SUFFICES ASSUME error' = "NONE" PROVE IldInv' /\ PrefixInv' /\ FieldsInv'
    BY DEF StandsInv, IldStands
  <2>1. vars' = vars
    BY DEF vars, inputs
  <2>2. IldInv /\ PrefixInv /\ FieldsInv
    BY <1>1 DEF DecodeInv, StandsInv, IldStands
  <2>. QED  BY <2>1, <2>2, NextInv, PrefixInvStep, FieldsStep
<1>4. PresetInv'
  BY <1>1 DEF DecodeInv, PresetInv, inputs
<1>5. SpacesInv'
  BY <1>1 DEF DecodeInv, SpacesInv, inputs, decoder_supports_apx, decoder_supports_avx512, mode_64b
<1>. QED  BY <1>1, <1>2, <1>3, <1>4, <1>5 DEF FreshInv

(* What is known of the error when no check objects. *)
LEMMA NoCheckObjects ==
    ASSUME FinalError = "NONE"
    PROVE  /\ error = "NONE"
           /\ pfx.lock = 1 => Has("LOCKED")
           /\ \A i \in 1..4 : ~Checks[i].objects
<1>. DEFINE objecting == {i \in DOMAIN Checks : Checks[i].objects}
<1>1. DOMAIN Checks = 1..4 /\ \A i \in 1..4 : Checks[i].error # "NONE"
  BY DEF Checks
<1>2. objecting = {}
  <2>. SUFFICES ASSUME objecting # {} PROVE FALSE
    OBVIOUS
  <2>1. \E i \in objecting : \A j \in objecting : j <= i
    BY <1>1
  <2>2. (CHOOSE i \in objecting : \A j \in objecting : j <= i) \in 1..4
    BY <1>1, <2>1
  <2>. QED  BY <1>1, <2>2 DEF FinalError
<1>. QED  BY <1>1, <1>2 DEF FinalError

LEMMA ReturnInv ==
    ASSUME DecodeInv, IldReturn \/ StaticDecode \/ CaptureOperands \/ Finalize
    PROVE  DecodeInv'
<1>1. CASE IldReturn
  <2>1. TypeOKDecode' /\ FreshInv' /\ StandsInv' /\ PresetInv' /\ (~fresh => SpacesInv)'
    BY <1>1, LaterInv DEF IldReturn, Return, vars, inputs
  <2>. QED  BY <1>1, <2>1 DEF IldReturn, Return, vars, DecodeInv, FoundInv, ReturnedInv, AtRest
<1>2. CASE StaticDecode
  <2>1. TypeOKDecode' /\ FreshInv' /\ StandsInv' /\ PresetInv' /\ (~fresh => SpacesInv)'
    BY <1>2, LaterInv DEF StaticDecode, Return, vars, inputs
  <2>2. FoundInv' /\ ReturnedInv'
    BY <1>2 DEF LookupFinds, StaticDecode, Return, vars, DecodeInv, FreshInv, FoundInv, ReturnedInv, AtRest
  <2>. QED  BY <2>1, <2>2 DEF DecodeInv
<1>3. CASE CaptureOperands
  <2>1. pc = "done" /\ error = "NONE"
    BY <1>3 DEF CaptureOperands, DecodeInv, TypeOKDecode, FoundInv
  <2>2. TypeOKDecode' /\ FreshInv' /\ StandsInv' /\ PresetInv' /\ (~fresh => SpacesInv)'
    BY <1>3, <2>1, LaterInv DEF CaptureOperands, Return
  <2>. QED  BY <1>3, <2>2 DEF CaptureOperands, Return, DecodeInv, FoundInv, ReturnedInv, AtRest
<1>4. CASE Finalize
  <2>1. pc = "done" /\ error = "NONE"
    BY <1>4 DEF Finalize, DecodeInv, TypeOKDecode, FoundInv
  <2>2. TypeOKDecode' /\ FreshInv' /\ StandsInv' /\ PresetInv' /\ (~fresh => SpacesInv)'
    BY <1>4, <2>1, LaterInv DEF Finalize, Return
  <2>. QED  BY <1>4, <2>2 DEF Finalize, Return, DecodeInv, FoundInv, ReturnedInv, AtRest
<1>. QED  BY <1>1, <1>2, <1>3, <1>4

LEMMA StutterInv == DecodeInv /\ UNCHANGED allvars => DecodeInv'
<1>. SUFFICES ASSUME DecodeInv, UNCHANGED allvars PROVE DecodeInv'
  OBVIOUS
<1>1. StandsInv'
  <2>. SUFFICES ASSUME IldStands PROVE IldInv' /\ PrefixInv' /\ FieldsInv'
    BY DEF StandsInv, IldStands, allvars, vars, dvars
  <2>. QED  BY NextInv, PrefixInvStep, FieldsStep DEF DecodeInv, StandsInv, allvars
<1>2. TypeOKDecode' /\ FreshInv' /\ PresetInv' /\ FoundInv' /\ ReturnedInv'
  BY DEF DecodeInv, TypeOKDecode, FreshInv, Zeroed, PresetInv, FoundInv, ReturnedInv, AtRest,
         allvars, vars, dvars
<1>3. (~fresh => SpacesInv)'
  BY DEF DecodeInv, SpacesInv, decoder_supports_apx, decoder_supports_avx512, mode_64b,
         allvars, vars, dvars
<1>. QED  BY <1>1, <1>2, <1>3 DEF DecodeInv

(* The invariant of the decoder's life. *)
LEMMA DecodeInvariant == SpecDecode => []DecodeInv
<1>1. Started' => IldInv' /\ PrefixInv' /\ FieldsInv'
  <2>1. Started => IldInv /\ PrefixInv /\ FieldsInv
    BY StartedInv, StartedPrefixInv, StartedFieldsInv
  <2>. QED  BY <2>1, PTL
<1>2. DecodeInv /\ [NextDecode]_allvars => DecodeInv'
  <2>. SUFFICES ASSUME DecodeInv, [NextDecode]_allvars PROVE DecodeInv'
    OBVIOUS
  <2>1. CASE ZeroSetMode \/ ZeroKeepMode \/ SetInputChip
    BY <2>1, ClientInv
  <2>2. CASE \E in \in Inputs : Decode(in) \/ DecodeWithFeatures(in) \/ IldDecode(in)
    <3>1. PICK in \in Inputs : Decode(in) \/ DecodeWithFeatures(in) \/ IldDecode(in)
      BY <2>2
    <3>2. PICK function, f :
             /\ function \in {"decode", "ild"} /\ (f = ChipFeatures \/ \E v \in CpuidVectors : f = {v})
             /\ Start(function, in, f)
      BY <3>1, Zenon DEF Decode, DecodeWithFeatures, IldDecode
    <3>. QED  BY <1>1, <3>2, StartInv
  <2>3. CASE Pipeline
    BY <2>3, IldStepInv, ReturnInv DEF Pipeline
  <2>4. CASE UNCHANGED allvars
    BY <2>4, StutterInv
  <2>. QED  BY <2>1, <2>2, <2>3, <2>4 DEF NextDecode
<1>. QED  BY InitDecodeInv, <1>2, PTL DEF SpecDecode

-----------------------------------------------------------------------------
(* Every operand a client can see has its type, and between decodes the    *)
(* length decoder is not left half way.                                    *)
THEOREM DecodeTypes == SpecDecode => []TypeOKDecode
<1>1. DecodeInv => TypeOKDecode
  BY DEF DecodeInv
<1>. QED  BY <1>1, DecodeInvariant, PTL

(* Nothing decodes in an encoding space that the chip's or the call's      *)
(* features close: set_chip_modes has preset the operands before the       *)
(* length decoder looks at the first byte, for xed_ild_decode too.         *)
THEOREM EncodingsAreTheChips == SpecDecode => []EncodingsOfTheChip
<1>1. ASSUME DecodeInv PROVE EncodingsOfTheChip
  <2>. SUFFICES ASSUME AtRest
                PROVE  /\ \A f \in features :
                             /\ "AVX" \notin f => enc.vexvalid = Legacy
                             /\ "AVX512" \notin f => enc.vexvalid # Evex
                             /\ "APX_F" \notin f => enc.rex2 = 0
                       /\ enc.vexvalid = Xop => ChipTable[chip].xop
    BY DEF EncodingsOfTheChip
  <2>1. ~fresh /\ SpacesInv /\ PresetInv
    BY <1>1 DEF AtRest, DecodeInv
  <2>2. ASSUME NEW f \in features, NEW x, x \notin f PROVE Absent(features, x) = 1
    BY <2>2 DEF Absent
  <2>3. ASSUME NEW f \in features
        PROVE  /\ "AVX" \notin f => cfg.no_vex = 1
               /\ "AVX512" \notin f => cfg.no_evex = 1
               /\ "APX_F" \notin f => cfg.no_apx = 1
    BY <2>1, <2>2 DEF PresetInv
  <2>. QED  BY <2>1, <2>3 DEF PresetInv, SpacesInv, decoder_supports_apx, decoder_supports_avx512
<1>. QED  BY <1>1, DecodeInvariant, PTL

(* What xed_decode accepts is an instruction of the tables that is legal   *)
(* here: no later check, of the registers, of real mode or of the chip,    *)
(* has undone the objection of an earlier one                              *)
(* (xed_decode_finalize_operand_storage_fields).                           *)
THEOREM AcceptedInstructionsAreLegal == ASSUME LookupFinds PROVE SpecDecode => []AcceptedIsLegal
<1>1. InitDecode => AcceptedIsLegal
  BY DEF InitDecode, AcceptedIsLegal, Accepted, AtRest
<1>2. DecodeInv /\ AcceptedIsLegal /\ [NextDecode]_allvars => AcceptedIsLegal'
  <2>. SUFFICES ASSUME DecodeInv, AcceptedIsLegal, [NextDecode]_allvars, Accepted'
                PROVE  AcceptedIsLegal'
    BY DEF AcceptedIsLegal
  <2>1. CASE UNCHANGED allvars
    BY <2>1 DEF AcceptedIsLegal, Accepted, AtRest, Has, allvars, vars, dvars
  <2>2. CASE ZeroSetMode \/ ZeroKeepMode \/ SetInputChip
    BY <2>2 DEF ZeroSetMode, ZeroKeepMode, Zero, SetInputChip, Accepted, AtRest
  <2>3. CASE \E in \in Inputs : Decode(in) \/ DecodeWithFeatures(in) \/ IldDecode(in)
    BY <2>3 DEF Decode, DecodeWithFeatures, IldDecode, Start, Accepted, AtRest
  <2>4. CASE IldStep \/ IldReturn \/ StaticDecode \/ CaptureOperands
    BY <2>4 DEF IldStep, dvars, IldReturn, StaticDecode, CaptureOperands, Return, Accepted, AtRest
  <2>5. CASE Finalize
    <3>1. FinalError = "NONE" /\ ~InvalidForChip
      BY <2>5 DEF Finalize, Return, Accepted, AtRest
    <3>2. inst \notin {NoInst, Undefined}
      BY <2>5 DEF Finalize, DecodeInv, FoundInv
    <3>3. \A f \in features : inst.isa_set \in f
      BY <3>1 DEF InvalidForChip
    <3>4. pfx.lock = 1 => Has("LOCKED")
      BY <3>1, NoCheckObjects
    <3>5. realmode /\ inst.isa_set \notin {"SEP", "SMX"} => enc.vexvalid = Legacy /\ ~Has("PROTECTED_MODE")
      <4>1. ~Checks[4].objects
        BY <3>1, NoCheckObjects
      <4>. QED  BY <4>1 DEF Checks
    <3>6. inst.collide => ~\E a \in {"NO_REG_MATCH", "NO_SRC_DEST_MATCH", "GATHER"} : Has(a)
      <4>1. ~Checks[1].objects /\ ~Checks[2].objects
        BY <3>1, NoCheckObjects
      <4>. QED  BY <4>1 DEF Checks
    <3>. QED  BY <2>5, <3>2, <3>3, <3>4, <3>5, <3>6 DEF Finalize, AcceptedIsLegal, Has
  <2>. QED  BY <2>1, <2>2, <2>3, <2>4, <2>5 DEF NextDecode, Pipeline
<1>. QED  BY <1>1, <1>2, DecodeInvariant, PTL DEF SpecDecode

LaidOut == AtRest /\ returned = "NONE" =>
              /\ FieldsTile /\ NoLookahead
              /\ RepChoice /\ SegChoice /\ NoTrackHint /\ RexCounts /\ VexRefusesPrefixes

(* The length decoder's promises hold for what a client is told is good,   *)
(* by either function and after any earlier decodes: the fields tile the   *)
(* instruction, the prefixes that count are the right ones, and no byte    *)
(* past the instruction has been looked at.                                *)
THEOREM GoodAnswersKeepTheirFields == SpecDecode => []LaidOut
<1>1. ASSUME DecodeInv PROVE LaidOut
  <2>. SUFFICES ASSUME AtRest, returned = "NONE"
                PROVE  /\ FieldsTile /\ NoLookahead
                       /\ RepChoice /\ SegChoice /\ NoTrackHint /\ RexCounts /\ VexRefusesPrefixes
    BY DEF LaidOut
  <2>1. IldInv /\ PrefixInv /\ FieldsInv
    BY <1>1 DEF AtRest, DecodeInv, ReturnedInv, StandsInv, IldStands
  <2>. QED  BY <2>1, TilesOfFields, LookaheadOfFields, RepOfHistory, SegOfHistory, HintOfHistory,
                RexOfFields, VexOfFields
<1>. QED  BY <1>1, DecodeInvariant, PTL

-----------------------------------------------------------------------------
(* The answer to a question as a value.  The presets are those of the       *)
(* initialised structure, overwritten for the chip and the features; f is   *)
(* what the length decoder leaves.                                          *)
Presets(mode, c, F) ==
    LET p == [ZeroConfig(mode) EXCEPT !.mode_first_prefix = ChipTable[c].first_prefix,
                                      !.could_support_xop = ChipTable[c].xop]
    IN  IF F = {} THEN p ELSE SetIsaModes(p, F)

ErrorOfChecks(i, c, r, f) ==
    LET has(attribute) == attribute \in i.attributes
        checks ==
            <<[objects |-> i.collide /\ (has("NO_SRC_DEST_MATCH") \/ has("NO_REG_MATCH")),
               error   |-> "BAD_REG_MATCH"],
              [objects |-> i.collide /\ has("GATHER"),
               error   |-> "GATHER_REGS"],
              [objects |-> has("NO_RIP_REL") /\ f.mrm.rm = 5 /\ f.mrm.mod = 0 /\ c.mode = Mode64,
               error   |-> "GENERAL_ERROR"],
              [objects |-> /\ r
                           /\ f.enc.vexvalid # Legacy \/ has("PROTECTED_MODE")
                           /\ i.isa_set \notin {"SEP", "SMX"},
               error   |-> "INVALID_MODE"]>>
        objecting == {n \in DOMAIN checks : checks[n].objects}
    IN  IF f.pfx.lock = 1 /\ ~has("LOCKED") THEN "BAD_LOCK_PREFIX"
        ELSE IF objecting = {} THEN "NONE"
        ELSE checks[CHOOSE n \in objecting : \A m \in objecting : m <= n].error
NotOnChip(i, c, F) ==
    \E s \in F : i.isa_set \notin s \/ (~HasApx(c) /\ "APX" \in i.attributes)

(* the error in the operand storage and the one returned, with _inst *)
Ends(o, c, r, F, f) ==
    LET i == Lookup(c, f.pfx, f.enc, f.mrm)
        e == ErrorOfChecks(i, c, r, f)
        end(returns, entry, stores) == [returned |-> returns, inst |-> entry, error |-> stores]
    IN  IF o = "ild" THEN end(IF f.out_of_bytes THEN "BUFFER_TOO_SHORT" ELSE f.error, NoInst, f.error)
        ELSE IF f.error # "NONE" THEN end(f.error, NoInst, f.error)
        ELSE IF i = Undefined THEN end("GENERAL_ERROR", i, f.error)
        ELSE IF i.capture_error # "NONE" THEN end(i.capture_error, i, i.capture_error)
        ELSE end(IF e = "NONE" /\ NotOnChip(i, c, F) THEN "INVALID_FOR_CHIP" ELSE e, i, e)

AskedBy(x) == [itext |-> x[6], max_bytes |-> x[7], cfg |-> Presets(x[2], x[4], x[5])]
ResultOf(x, f) ==
    LET e == Ends(x[1], AskedBy(x).cfg, x[3], x[5], f)
    IN  <<e.returned, e.inst,
          <<f.length, f.out_of_bytes, e.error, f.pfx, f.enc, f.mrm, f.imd>> >>
Ended(q, f) == f.pc = "done" /\ Sane(q, f) /\ Leads(q, StartOfScan, f)
IsAnswer(x, result) == \E f \in ScanType : Ended(AskedBy(x), f) /\ result = ResultOf(x, f)

(* What a decode in progress has of its answer. *)
Stored(f) ==
    /\ length = f.length /\ out_of_bytes = f.out_of_bytes
    /\ pfx = f.pfx /\ enc = f.enc /\ mrm = f.mrm /\ imd = f.imd
Found(f) == /\ f.error = "NONE" /\ op = "decode"
            /\ inst = Lookup(cfg, f.pfx, f.enc, f.mrm) /\ inst # Undefined
PresetsInv == cfg = IF fresh THEN ZeroConfig(cfg.mode) ELSE Presets(cfg.mode, chip, features)
StageInv ==
    /\ fresh \/ phase = "ild" => inst = NoInst
    /\ phase = "ild" => ScanInv
    /\ phase = "capture" => \E f \in ScanType : Ended(Asked, f) /\ Stored(f) /\ Found(f)
    /\ phase = "finalize" =>
          \E f \in ScanType : Ended(Asked, f) /\ Stored(f) /\ Found(f) /\ inst.capture_error = "NONE"
FirstInv == \A a \in first : IsAnswer(a.question, a.result)
AnswerInv == /\ PresetsInv /\ StageInv /\ FirstInv
             /\ ~fresh => op \in {"decode", "ild"}
             /\ AtRest => IsAnswer(Question, Answer.result)

(* The presets of the call. *)
LEMMA PresetsOfCall ==
    ASSUME TypeOKDecode, cfg = ZeroConfig(cfg.mode), NEW F
    PROVE  SetChipModes(F) = Presets(cfg.mode, chip, F) /\ SetChipModes(F).mode = cfg.mode
<1>. DEFINE z == ZeroConfig(cfg.mode)
            a == [cfg EXCEPT !.mode_first_prefix = @ \/ ChipTable[chip].first_prefix,
                             !.could_support_xop = ChipTable[chip].xop]
            b == [z EXCEPT !.mode_first_prefix = ChipTable[chip].first_prefix,
                           !.could_support_xop = ChipTable[chip].xop]
<1>1. cfg \in Config /\ ChipTable[chip].first_prefix \in BOOLEAN
  BY ChipAssumption DEF TypeOKDecode
<1>2. cfg = z /\ cfg.mode_first_prefix = FALSE
  BY DEF ZeroConfig
<1>3. a = b
  <2>1. (cfg.mode_first_prefix \/ ChipTable[chip].first_prefix) = ChipTable[chip].first_prefix
    BY <1>1, <1>2
  <2>. QED  BY <1>2, <2>1
<1>4. b.mode = cfg.mode /\ DOMAIN b = DOMAIN cfg
  BY <1>1, <1>2 DEF Config
<1>5. SetChipModes(F) = IF F = {} THEN b ELSE SetIsaModes(b, F)
  BY <1>3 DEF SetChipModes
<1>6. Presets(cfg.mode, chip, F) = IF F = {} THEN b ELSE SetIsaModes(b, F)
  BY DEF Presets
<1>. HIDE DEF b
<1>7. SetIsaModes(b, F).mode = b.mode
  BY <1>1, <1>4 DEF SetIsaModes, Config
<1>. QED  BY <1>4, <1>5, <1>6, <1>7

LEMMA AskedByThis == cfg = Presets(cfg.mode, chip, features) => AskedBy(Question) = Asked
BY DEF AskedBy, Question, Asked

(* The checks, as a value. *)
LEMMA ChecksAre == error = "NONE" => FinalError = ErrorOfChecks(inst, cfg, realmode, [pfx |-> pfx, enc |-> enc, mrm |-> mrm])
BY SMTT(30) DEF FinalError, ErrorOfChecks, Checks, Has, mode_64b

LEMMA ErrorOfChecksOf ==
    ASSUME NEW i, NEW c, NEW r, NEW f, NEW g, f.pfx = g.pfx, f.enc = g.enc, f.mrm = g.mrm
    PROVE  ErrorOfChecks(i, c, r, f) = ErrorOfChecks(i, c, r, g)
BY DEF ErrorOfChecks

LEMMA ChipTestIs == InvalidForChip <=> NotOnChip(inst, cfg, features)
BY DEF InvalidForChip, NotOnChip, Has, decoder_supports_apx, HasApx, In64, mode_64b

(* The stage that answers. *)
LEMMA Answered ==
    ASSUME DecodeInv, ~fresh, cfg = Presets(cfg.mode, chip, features),
           NEW f \in ScanType, Ended(Asked, f), Stored(f),
           UNCHANGED <<pc, inputs, length, out_of_bytes, reads, pfx, enc, mrm, imd>>,
           UNCHANGED <<op, chip, realmode, features, fresh, calls, first>>,
           NEW e, e = Ends(op, cfg, realmode, features, f),
           returned' = e.returned, inst' = e.inst, error' = e.error
    PROVE  IsAnswer(Question, Answer.result)'
<1>. DEFINE x == Question
            r == Answer.result
<1>1. AskedBy(x) = Asked
  BY AskedByThis
<1>2. x[1] = op /\ x[3] = realmode /\ x[5] = features
  BY DEF Question
<1>3. Asked.cfg = cfg
  BY DEF Asked
<1>4. ResultOf(x, f) = <<e.returned, e.inst,
          <<f.length, f.out_of_bytes, e.error, f.pfx, f.enc, f.mrm, f.imd>> >>
  BY <1>1, <1>2, <1>3 DEF ResultOf
<1>5. x' = x /\ r' = ResultOf(x, f)
  BY <1>4 DEF Question, Answer, storage, inputs, Stored
<1>6. IsAnswer(x, r')
  BY <1>1, <1>5 DEF IsAnswer
<1>7. IsAnswer(x', r')
  BY <1>5, <1>6
<1>. QED  BY <1>7 DEF IsAnswer

-----------------------------------------------------------------------------
(* The length decoder hands its scan over. *)
LEMMA ScanIsFound ==
    ASSUME DecodeInv, AnswerInv, phase = "ild", pc = "done"
    PROVE  /\ Scan \in ScanType /\ Ended(Asked, Scan) /\ Stored(Scan) /\ Scan.error = error
           /\ inst = NoInst /\ ~fresh /\ cfg = Presets(cfg.mode, chip, features)
<1>1. ScanInv /\ inst = NoInst
  BY DEF AnswerInv, StageInv
<1>2. Sane(Asked, Scan)
  BY <1>1, SaneScan DEF ScanInv
<1>3. Scan \in ScanType
  BY <1>2 DEF Sane
<1>4. Ended(Asked, Scan)
  BY <1>1, <1>2, ScanFields DEF Ended, ScanInv
<1>5. Scan.out_of_bytes = out_of_bytes
  BY Zenon DEF Scan, State
<1>6. Stored(Scan)
  BY <1>5, ScanFields DEF Stored
<1>7. ~fresh
  BY DEF DecodeInv, FreshInv
<1>. QED  BY <1>1, <1>3, <1>4, <1>6, <1>7, ScanFields DEF AnswerInv, PresetsInv

LEMMA IldReturns == ASSUME DecodeInv, AnswerInv, IldReturn PROVE IsAnswer(Question, Answer.result)'
<1>1. phase = "ild" /\ pc = "done" /\ op = "ild"
  BY DEF IldReturn
<1>. DEFINE f == Scan
            e == Ends(op, cfg, realmode, features, f)
<1>2. f \in ScanType /\ Ended(Asked, f) /\ Stored(f) /\ f.error = error /\ inst = NoInst /\ ~fresh
  BY <1>1, ScanIsFound
<1>3. e = [returned |-> IF out_of_bytes THEN "BUFFER_TOO_SHORT" ELSE error, inst |-> NoInst, error |-> error]
  BY <1>1, <1>2, Zenon DEF Ends, Stored
<1>4. returned' = e.returned /\ inst' = e.inst /\ error' = e.error
  BY <1>2, <1>3 DEF IldReturn, Return, vars
<1>5. UNCHANGED <<pc, inputs, length, out_of_bytes, reads, pfx, enc, mrm, imd>>
  BY DEF IldReturn, vars, inputs
<1>6. UNCHANGED <<op, chip, realmode, features, fresh, calls, first>>
  BY DEF IldReturn
<1>7. cfg = Presets(cfg.mode, chip, features)
  BY <1>1, ScanIsFound
<1>. HIDE DEF f, e
<1>. QED  BY <1>2, <1>4, <1>5, <1>6, <1>7, Answered DEF e

LEMMA FoundStays ==
    ASSUME NEW f, Ended(Asked, f), Stored(f),
           UNCHANGED <<inputs, length, out_of_bytes, pfx, enc, mrm, imd>>
    PROVE  Ended(Asked, f)' /\ Stored(f)'
<1>. DEFINE q == Asked'
<1>1. q = Asked
  BY Zenon DEF Asked, inputs
<1>2. Ended(q, f)
  BY <1>1
<1>3. Ended(Asked, f)'
  BY <1>2 DEF Ended
<1>. QED  BY <1>3 DEF Stored

(* The lookup: what it finds goes on, what it does not is the answer. *)
LEMMA StaticReturns ==
    ASSUME DecodeInv, AnswerInv, StaticDecode
    PROVE  StageInv' /\ (AtRest' => IsAnswer(Question, Answer.result)')
<1>1. phase = "ild" /\ pc = "done" /\ op = "decode"
  BY DEF StaticDecode
<1>2. PICK f \in ScanType : /\ Ended(Asked, f) /\ Stored(f) /\ f.error = error
                             /\ inst = NoInst /\ ~fresh
  BY <1>1, ScanIsFound
<1>. DEFINE i == Lookup(cfg, f.pfx, f.enc, f.mrm)
            e == Ends(op, cfg, realmode, features, f)
<1>3. i = Lookup(cfg, pfx, enc, mrm)
  BY <1>2 DEF Stored
<1>4. UNCHANGED <<pc, inputs, length, out_of_bytes, reads, pfx, enc, mrm, imd>>
  BY DEF StaticDecode, vars, inputs
<1>5. UNCHANGED <<op, chip, realmode, features, fresh, calls, first, error>>
  BY DEF StaticDecode, vars
<1>6. cfg = Presets(cfg.mode, chip, features)
  BY <1>1, ScanIsFound
<1>7. CASE error # "NONE" \/ i = Undefined
  <2>1. phase' = "client" /\ returned' = e.returned /\ inst' = e.inst /\ error' = e.error
    <3>1. CASE error # "NONE"
      <4>1. e = [returned |-> error, inst |-> NoInst, error |-> error]
        BY <1>1, <1>2, <3>1, Zenon DEF Ends
      <4>2. phase' = "client" /\ returned' = error /\ inst' = inst /\ error' = error
        BY <3>1, <1>5 DEF StaticDecode, Return
      <4>. QED  BY <1>2, <4>1, <4>2
    <3>2. CASE error = "NONE"
      <4>1. i = Undefined
        BY <1>7, <3>2
      <4>2. e = [returned |-> "GENERAL_ERROR", inst |-> i, error |-> error]
        BY <1>1, <1>2, <3>2, <4>1, Zenon DEF Ends
      <4>3. phase' = "client" /\ returned' = "GENERAL_ERROR" /\ inst' = i /\ error' = error
        BY <1>3, <1>5, <3>2, <4>1 DEF StaticDecode, Return
      <4>. QED  BY <4>2, <4>3
    <3>. QED  BY <3>1, <3>2
  <2>2. IsAnswer(Question, Answer.result)'
    <3>. HIDE DEF e
    <3>. QED  BY <1>2, <1>4, <1>5, <1>6, <2>1, Answered DEF e
  <2>. HIDE DEF e, i
  <2>. QED  BY <1>2, <1>5, <2>1, <2>2 DEF StageInv
<1>8. CASE error = "NONE" /\ i # Undefined
  <2>1. phase' = "capture" /\ inst' = i
    BY <1>3, <1>8 DEF StaticDecode, Return
  <2>2. Ended(Asked, f)' /\ Stored(f)'
    BY <1>2, <1>4, <1>5, FoundStays
  <2>3. Found(f)'
    BY <1>1, <1>2, <1>3, <1>4, <1>5, <1>8, <2>1 DEF Found, inputs
  <2>. QED  BY <1>2, <1>5, <2>1, <2>2, <2>3 DEF StageInv, AtRest
<1>. QED  BY <1>7, <1>8

(* The later stages: the error of the captures, then that of the checks. *)
LEMMA CaptureReturns ==
    ASSUME DecodeInv, AnswerInv, CaptureOperands
    PROVE  StageInv' /\ (AtRest' => IsAnswer(Question, Answer.result)')
<1>1. PICK f \in ScanType : Ended(Asked, f) /\ Stored(f) /\ Found(f)
  BY DEF CaptureOperands, AnswerInv, StageInv
<1>. DEFINE e == Ends(op, cfg, realmode, features, f)
<1>2. UNCHANGED <<pc, inputs, length, out_of_bytes, reads, pfx, enc, mrm, imd>>
  BY DEF CaptureOperands
<1>3. UNCHANGED <<op, chip, realmode, features, fresh, calls, first>>
  BY DEF CaptureOperands
<1>4. ~fresh /\ cfg = Presets(cfg.mode, chip, features) /\ inst' = inst /\ error' = inst.capture_error
  BY DEF CaptureOperands, DecodeInv, FoundInv, AnswerInv, PresetsInv
<1>5. CASE inst.capture_error # "NONE"
  <2>1. phase' = "client" /\ returned' = inst.capture_error
    BY <1>4, <1>5 DEF CaptureOperands, Return
  <2>2. e = [returned |-> inst.capture_error, inst |-> inst, error |-> inst.capture_error]
    <3>1. op # "ild" /\ f.error = "NONE" /\ inst = Lookup(cfg, f.pfx, f.enc, f.mrm) /\ inst # Undefined
      BY <1>1 DEF Found
    <3>. QED  BY <1>5, <3>1, Zenon DEF Ends
  <2>. HIDE DEF e
  <2>3. IsAnswer(Question, Answer.result)'
    BY <1>1, <1>2, <1>3, <1>4, <2>1, <2>2, Answered DEF e
  <2>. QED  BY <1>3, <1>4, <2>1, <2>3 DEF StageInv
<1>6. CASE inst.capture_error = "NONE"
  <2>1. phase' = "finalize"
    BY <1>4, <1>6 DEF CaptureOperands, Return
  <2>2. Ended(Asked, f)' /\ Stored(f)'
    BY <1>1, <1>2, FoundStays
  <2>3. Found(f)'
    BY <1>1, <1>2, <1>3, <1>4 DEF Found, inputs
  <2>. QED  BY <1>3, <1>4, <1>6, <2>1, <2>2, <2>3 DEF StageInv, AtRest
<1>. QED  BY <1>5, <1>6

LEMMA FinalizeReturns ==
    ASSUME DecodeInv, AnswerInv, Finalize
    PROVE  StageInv' /\ (AtRest' => IsAnswer(Question, Answer.result)')
<1>1. PICK f \in ScanType : Ended(Asked, f) /\ Stored(f) /\ Found(f) /\ inst.capture_error = "NONE"
  BY DEF Finalize, AnswerInv, StageInv
<1>. DEFINE e == Ends(op, cfg, realmode, features, f)
            g == [pfx |-> pfx, enc |-> enc, mrm |-> mrm]
<1>2. UNCHANGED <<pc, inputs, length, out_of_bytes, reads, pfx, enc, mrm, imd>>
  BY DEF Finalize
<1>3. UNCHANGED <<op, chip, realmode, features, inst, fresh, calls, first>>
  BY DEF Finalize
<1>4. ~fresh /\ error = "NONE" /\ cfg = Presets(cfg.mode, chip, features)
  BY DEF Finalize, DecodeInv, FoundInv, AnswerInv, PresetsInv
<1>5. FinalError = ErrorOfChecks(inst, cfg, realmode, f)
  <2>1. FinalError = ErrorOfChecks(inst, cfg, realmode, g)
    BY <1>4, ChecksAre
  <2>2. f.pfx = g.pfx /\ f.enc = g.enc /\ f.mrm = g.mrm
    BY <1>1 DEF Stored
  <2>. QED  BY <2>1, <2>2, ErrorOfChecksOf
<1>6. InvalidForChip <=> NotOnChip(inst, cfg, features)
  BY ChipTestIs
<1>7. /\ phase' = "client" /\ error' = FinalError
      /\ returned' = IF FinalError = "NONE" /\ InvalidForChip THEN "INVALID_FOR_CHIP" ELSE FinalError
  BY DEF Finalize, Return
<1>8. e = [returned |-> IF FinalError = "NONE" /\ NotOnChip(inst, cfg, features)
                        THEN "INVALID_FOR_CHIP" ELSE FinalError,
           inst |-> inst, error |-> FinalError]
  <2>1. op # "ild" /\ f.error = "NONE" /\ inst = Lookup(cfg, f.pfx, f.enc, f.mrm) /\ inst # Undefined
    BY <1>1 DEF Found
  <2>. QED  BY <1>1, <1>5, <2>1, Zenon DEF Ends
<1>9. returned' = e.returned /\ inst' = e.inst /\ error' = e.error
  BY <1>3, <1>6, <1>7, <1>8
<1>. HIDE DEF e
<1>10. IsAnswer(Question, Answer.result)'
  BY <1>1, <1>2, <1>3, <1>4, <1>9, Answered DEF e
<1>. QED  BY <1>3, <1>4, <1>7, <1>10 DEF StageInv

-----------------------------------------------------------------------------
(* The client's own steps. *)
LEMMA ZeroConfigMode == ASSUME NEW mode PROVE ZeroConfig(mode).mode = mode
BY DEF ZeroConfig

LEMMA ZeroAnswers ==
    ASSUME DecodeInv, AnswerInv, Client, ~fresh, NEW mode, Zero(mode)
    PROVE  AnswerInv'
<1>1. FirstInv'
  <2>1. first' = first \/ first' = {Answer}
    BY DEF Zero
  <2>2. IsAnswer(Question, Answer.result)
    BY DEF AnswerInv, AtRest, Client
  <2>3. Answer.question = Question
    BY DEF Answer
  <2>4. \A a \in first' : IsAnswer(a.question, a.result)
    BY <2>1, <2>2, <2>3 DEF AnswerInv, FirstInv
  <2>. QED  BY <2>4 DEF FirstInv
<1>2. fresh' /\ cfg' = ZeroConfig(mode) /\ inst' = NoInst /\ phase' = "client"
  BY DEF Zero, Client
<1>3. PresetsInv'
  BY <1>2, ZeroConfigMode DEF PresetsInv
<1>. QED  BY <1>1, <1>2, <1>3 DEF AnswerInv, StageInv, AtRest

LEMMA ClientAnswers ==
    ASSUME DecodeInv, AnswerInv, ZeroSetMode \/ ZeroKeepMode \/ SetInputChip
    PROVE  AnswerInv'
<1>1. CASE ZeroSetMode
  <2>1. PICK m \in MachineModes : Client /\ ~fresh /\ Zero(m.mode)
    BY <1>1 DEF ZeroSetMode
  <2>. QED  BY <2>1, ZeroAnswers
<1>2. CASE ZeroKeepMode
  BY <1>2, ZeroAnswers DEF ZeroKeepMode
<1>3. CASE SetInputChip
  <2>1. phase = "client" /\ fresh /\ UNCHANGED <<phase, fresh, cfg, inst, first>>
    BY <1>3 DEF SetInputChip, Client, vars, inputs
  <2>2. FirstInv'
    <3>1. \A a \in first' : IsAnswer(a.question, a.result)
      BY <2>1 DEF AnswerInv, FirstInv
    <3>. QED  BY <3>1 DEF FirstInv
  <2>. QED  BY <2>1, <2>2 DEF AnswerInv, PresetsInv, StageInv, AtRest
<1>. QED  BY <1>1, <1>2, <1>3

LEMMA StartAnswers ==
    ASSUME DecodeInv, AnswerInv, NEW function \in {"decode", "ild"}, NEW in \in Inputs, NEW f,
           Start(function, in, f), Started' => ScanInv'
    PROVE  AnswerInv'
<1>1. ScanInv'
  BY StartStarted
<1>2. fresh /\ ~fresh' /\ phase' = "ild" /\ op' = function /\ features' = f /\ cfg' = SetChipModes(f)
      /\ UNCHANGED <<inst, first, chip>>
  BY DEF Start
<1>3. PresetsInv'
  BY <1>2, PresetsOfCall DEF DecodeInv, AnswerInv, PresetsInv
<1>4. FirstInv'
  <2>1. \A a \in first' : IsAnswer(a.question, a.result)
    BY <1>2 DEF AnswerInv, FirstInv
  <2>. QED  BY <2>1 DEF FirstInv
<1>. QED  BY <1>1, <1>2, <1>3, <1>4 DEF AnswerInv, StageInv, AtRest

LEMMA StayAnswers ==
    ASSUME AnswerInv, UNCHANGED dvars, cfg' = cfg
    PROVE  PresetsInv' /\ FirstInv'
<1>1. UNCHANGED <<fresh, chip, features, first>>
  BY DEF dvars
<1>2. \A a \in first' : IsAnswer(a.question, a.result)
  BY <1>1 DEF AnswerInv, FirstInv
<1>. QED  BY <1>1, <1>2 DEF AnswerInv, FirstInv, PresetsInv

LEMMA IldStepAnswers == ASSUME DecodeInv, AnswerInv, IldStep PROVE AnswerInv'
<1>1. phase = "ild" /\ Next /\ UNCHANGED dvars
  BY DEF IldStep
<1>2. UNCHANGED <<phase, fresh, inst, op>>
  BY <1>1 DEF dvars
<1>3. ScanInv'
  BY <1>1, ScanStep DEF AnswerInv, StageInv
<1>4. cfg' = cfg
  BY <1>1, InputsStay DEF inputs
<1>. QED  BY <1>1, <1>2, <1>3, <1>4, StayAnswers DEF AnswerInv, StageInv, AtRest

LEMMA StutterAnswers == ASSUME AnswerInv, UNCHANGED allvars PROVE AnswerInv'
<1>1. UNCHANGED vars /\ UNCHANGED dvars
  BY DEF allvars
<1>2. UNCHANGED <<phase, op, chip, realmode, features, inst, returned, fresh, first>>
  BY <1>1 DEF dvars
<1>3. UNCHANGED <<pc, cfg, itext, max_bytes, length, out_of_bytes, error, reads, pfx, enc, mrm, imd>>
  BY <1>1 DEF vars, inputs
<1>4. PresetsInv' /\ FirstInv'
  BY <1>1, <1>3, StayAnswers
<1>5. phase = "ild" => ScanInv'
  BY <1>1, ScanStep DEF AnswerInv, StageInv
<1>6. AtRest' => IsAnswer(Question, Answer.result)'
  <2>. DEFINE x == Question
              r == Answer.result
  <2>1. x' = x /\ r' = r
    BY <1>2, <1>3 DEF Question, Answer, storage
  <2>2. AtRest' => IsAnswer(x', r')
    BY <1>2, <2>1 DEF AnswerInv, AtRest
  <2>. QED  BY <2>2 DEF IsAnswer
<1>7. StageInv'
  <2>1. CASE phase = "ild"
    BY <1>2, <1>5, <2>1 DEF AnswerInv, StageInv
  <2>2. CASE phase \in {"capture", "finalize"}
    <3>1. PICK f \in ScanType : /\ Ended(Asked, f) /\ Stored(f) /\ Found(f)
                                /\ phase = "finalize" => inst.capture_error = "NONE"
      BY <2>2 DEF AnswerInv, StageInv
    <3>2. Ended(Asked, f)' /\ Stored(f)'
      <4>1. UNCHANGED <<inputs, length, out_of_bytes, pfx, enc, mrm, imd>>
        BY <1>3 DEF inputs
      <4>. QED  BY <3>1, <4>1, FoundStays
    <3>3. Found(f)'
      <4>1. UNCHANGED <<op, inst, cfg, error>>
        BY <1>2, <1>3
      <4>. QED  BY <3>1, <4>1 DEF Found
    <3>. QED  BY <1>2, <2>2, <3>1, <3>2, <3>3 DEF AnswerInv, StageInv
  <2>3. CASE phase \notin {"ild", "capture", "finalize"}
    BY <1>2, <2>3 DEF AnswerInv, StageInv
  <2>. QED  BY <2>1, <2>2, <2>3
<1>. QED  BY <1>2, <1>4, <1>6, <1>7 DEF AnswerInv

LEMMA ReturnAnswers ==
    ASSUME DecodeInv, AnswerInv, IldReturn \/ StaticDecode \/ CaptureOperands \/ Finalize
    PROVE  AnswerInv'
<1>1. UNCHANGED <<cfg, fresh, chip, features, first>> /\ ~fresh
  BY DEF IldReturn, StaticDecode, CaptureOperands, Finalize, vars, inputs, DecodeInv, FreshInv
<1>2. PresetsInv'
  BY <1>1 DEF AnswerInv, PresetsInv
<1>3. FirstInv'
  <2>1. \A a \in first' : IsAnswer(a.question, a.result)
    BY <1>1 DEF AnswerInv, FirstInv
  <2>. QED  BY <2>1 DEF FirstInv
<1>4. IldReturn => StageInv' /\ (AtRest' => IsAnswer(Question, Answer.result)')
  BY <1>1, IldReturns DEF IldReturn, Return, StageInv
<1>5. op' = op
  BY DEF IldReturn, StaticDecode, CaptureOperands, Finalize
<1>. QED  BY <1>1, <1>2, <1>3, <1>4, <1>5, StaticReturns, CaptureReturns, FinalizeReturns DEF AnswerInv

(* A decode in progress has found what there is to find, and what it       *)
(* returns is an answer to its question.                                   *)
LEMMA AnswerInvariant == SpecDecode => []AnswerInv
<1>1. InitDecode => AnswerInv
  BY ZeroConfigMode DEF InitDecode, AnswerInv, PresetsInv, StageInv, FirstInv, AtRest
<1>2. Started' => ScanInv'
  BY ScanStarts, PTL
<1>3. DecodeInv /\ AnswerInv /\ [NextDecode]_allvars => AnswerInv'
  <2>. SUFFICES ASSUME DecodeInv, AnswerInv, [NextDecode]_allvars PROVE AnswerInv'
    OBVIOUS
  <2>1. CASE ZeroSetMode \/ ZeroKeepMode \/ SetInputChip
    BY <2>1, ClientAnswers
  <2>2. CASE \E in \in Inputs : Decode(in) \/ DecodeWithFeatures(in) \/ IldDecode(in)
    <3>1. PICK in \in Inputs : Decode(in) \/ DecodeWithFeatures(in) \/ IldDecode(in)
      BY <2>2
    <3>2. \E function \in {"decode", "ild"} : \E f : Start(function, in, f)
      BY <3>1 DEF Decode, DecodeWithFeatures, IldDecode
    <3>. QED  BY <1>2, <3>2, StartAnswers
  <2>3. CASE Pipeline
    BY <2>3, IldStepAnswers, ReturnAnswers DEF Pipeline
  <2>4. CASE UNCHANGED allvars
    BY <2>4, StutterAnswers
  <2>. QED  BY <2>1, <2>2, <2>3, <2>4 DEF NextDecode
<1>. QED  BY <1>1, <1>3, DecodeInvariant, PTL DEF SpecDecode

-----------------------------------------------------------------------------
(* There is one answer to a question; and the two functions' answers are   *)
(* answers of the same scan.                                               *)
LEMMA AnswersAgree ==
    ASSUME NEW x, NEW r, NEW s, IsAnswer(x, r), IsAnswer(x, s) PROVE r = s
<1>1. PICK f \in ScanType : Ended(AskedBy(x), f) /\ r = ResultOf(x, f)
  BY DEF IsAnswer
<1>2. PICK g \in ScanType : Ended(AskedBy(x), g) /\ s = ResultOf(x, g)
  BY DEF IsAnswer
<1>3. f = g
  BY <1>1, <1>2, OneAnswer, StartIsScan DEF Ended
<1>. QED  BY <1>1, <1>2, <1>3

LEMMA FunctionsAgree ==
    ASSUME NEW x, NEW y, AskedBy(x) = AskedBy(y), x[1] = "decode", y[1] = "ild",
           NEW r, NEW s, IsAnswer(x, r), IsAnswer(y, s), r[1] = "NONE"
    PROVE  s[1] = "NONE" /\ r[3][1] = s[3][1]
<1>1. PICK f \in ScanType : Ended(AskedBy(x), f) /\ r = ResultOf(x, f)
  BY DEF IsAnswer
<1>2. PICK g \in ScanType : Ended(AskedBy(y), g) /\ s = ResultOf(y, g)
  BY DEF IsAnswer
<1>3. f = g
  BY <1>1, <1>2, OneAnswer, StartIsScan DEF Ended
<1>. DEFINE d == Ends(x[1], AskedBy(x).cfg, x[3], x[5], f)
            e == Ends(y[1], AskedBy(y).cfg, y[3], y[5], f)
<1>4. d.returned = "NONE" => f.error = "NONE"
  <2>1. ASSUME f.error # "NONE" PROVE d = [returned |-> f.error, inst |-> NoInst, error |-> f.error]
    BY <2>1, Zenon DEF Ends
  <2>. QED  BY <2>1
<1>5. e.returned = IF f.out_of_bytes THEN "BUFFER_TOO_SHORT" ELSE f.error
  BY DEF Ends
<1>6. f.out_of_bytes => f.error # "NONE"
  BY <1>1 DEF Ended, Sane
<1>7. r[1] = d.returned /\ r[3][1] = f.length
  BY <1>1 DEF ResultOf
<1>8. s[1] = e.returned /\ s[3][1] = f.length
  BY <1>2, <1>3 DEF ResultOf
<1>. HIDE DEF d, e
<1>. QED  BY <1>4, <1>5, <1>6, <1>7, <1>8

(* The same question has the same answer, in every operand: a decode that  *)
(* follows an initialisation of the structure is the decode it would have  *)
(* been in a structure never used (xed_decoded_inst_zero and variants, and *)
(* the operands that set_chip_modes presets).                              *)
THEOREM DecodesAreRepeatable == SpecDecode => []SameQuestionSameAnswer
<1>1. ASSUME AnswerInv PROVE SameQuestionSameAnswer
  <2>. SUFFICES ASSUME AtRest, NEW a \in first, a.question = Question PROVE a.result = Answer.result
    BY DEF SameQuestionSameAnswer
  <2>1. IsAnswer(Question, a.result) /\ IsAnswer(Question, Answer.result)
    BY <1>1 DEF AnswerInv, FirstInv
  <2>. QED  BY <2>1, AnswersAgree
<1>. QED  BY <1>1, AnswerInvariant, PTL

(* xed_ild_decode agrees with xed_decode on the bytes that xed_decode      *)
(* accepts: both end the same scan, of which one keeps more.               *)
THEOREM DecodersAgreeOnLength == SpecDecode => []LengthsAgree
<1>1. ASSUME AnswerInv PROVE LengthsAgree
  <2>. DEFINE other == [Question EXCEPT ![1] = IF op = "ild" THEN "decode" ELSE "ild"]
              accepted(a) == IF op = "ild" THEN a.result[1] ELSE returned
              ild_says(a) == IF op = "ild" THEN returned ELSE a.result[1]
  <2>. SUFFICES ASSUME AtRest, NEW a \in first, a.question = other, accepted(a) = "NONE"
                PROVE  ild_says(a) = "NONE" /\ a.result[3][1] = length
    BY DEF LengthsAgree
  <2>1. IsAnswer(other, a.result) /\ IsAnswer(Question, Answer.result)
    BY <1>1 DEF AnswerInv, FirstInv
  <2>2. op \in {"decode", "ild"} /\ Question[1] = op
    BY <1>1 DEF AnswerInv, AtRest, Question
  <2>3. other[1] = IF op = "ild" THEN "decode" ELSE "ild"
    BY DEF Question
  <2>4. AskedBy(other) = AskedBy(Question)
    BY DEF AskedBy, Question
  <2>5. Answer.result[1] = returned /\ Answer.result[3][1] = length
    BY DEF Answer, storage
  <2>. HIDE DEF other
  <2>6. CASE op = "ild"
    BY <2>1, <2>2, <2>3, <2>4, <2>5, <2>6, FunctionsAgree
  <2>7. CASE op = "decode"
    BY <2>1, <2>2, <2>3, <2>4, <2>5, <2>7, FunctionsAgree
  <2>. QED  BY <2>2, <2>6, <2>7
<1>. QED  BY <1>1, AnswerInvariant, PTL
=============================================================================
