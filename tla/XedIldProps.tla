---------------------------- MODULE XedIldProps ----------------------------
(***************************************************************************)
(* What the instruction length decoder promises.  The properties compare   *)
(* the operand storage it leaves with the bytes it was given.              *)
(***************************************************************************)
EXTENDS XedIld, FiniteSets

Pcs == {"prefix", "vex", "evex", "catch_invalid", "rex2", "opcode",
        "modrm", "sib", "disp", "imm", "late_evex", "done"}

Pos == 0..MaxInstructionBytes

(* What the four records of the operand storage range over. *)
PfxType == [nprefixes : Pos, nrexes : Pos, rexbyte : {0} \cup RexPrefixes, rex : Bit,
            osz : Bit, asz : Bit, prefix66 : Bit, lock : Bit, f2 : Bit, f3 : Bit,
            first_f2f3 : {0, 2, 3}, last_f2f3 : {0, 2, 3}, rep : {0, 2, 3},
            hint : 0..2, ild_seg : {0} \cup SegPrefixes, seg_ovd : 0..6]
InfoType == [modrm : 0..2, disp : 0..2, imm : {0, 1, 4, 7}]
EncType == [vexvalid : Spaces, map : MapIds, opcode : Byte256, pos_opcode : Pos,
            rexw : Bit, rex2 : Bit, llrc : 0..3, bcrc : Bit, ubit : Bit, rexx4 : Bit,
            amd3dnow : BOOLEAN, info : InfoType]
MrmType == [has_modrm : 0..3, pos_modrm : Pos, mod : 0..3, reg : 0..7, rm : 0..7,
            has_sib : BOOLEAN, pos_sib : Pos]
ImdType == [disp_width : Widths, pos_disp : Pos, imm_width : Widths, pos_imm : Pos,
            imm1_bytes : Bit, pos_imm1 : Pos]

(* The type invariant: no scanner leaves an operand outside its range,     *)
(* and no width or position outside what an instruction can have.          *)
TypeOK ==
    /\ pc \in Pcs
    /\ itext \in Seq(Byte256)
    /\ max_bytes \in Pos
    /\ cfg \in Config
    /\ length \in Pos
    /\ out_of_bytes \in BOOLEAN
    /\ error \in Errors
    /\ reads \in Pos
    /\ pfx \in PfxType
    /\ enc \in EncType
    /\ mrm \in MrmType
    /\ imd \in ImdType

-----------------------------------------------------------------------------
Done == pc = "done"
Success == Done /\ error = "NONE"
AfterPrefixes == pc # "prefix"

(* The bytes before the first one that is no prefix, by position *)
PrefixPositions == 0..(pfx.nprefixes - 1)
LastOf(S) == {i \in PrefixPositions : Byte(i) \in S /\
                 \A j \in PrefixPositions : Byte(j) \in S => j <= i}
FirstOf(S) == {i \in PrefixPositions : Byte(i) \in S /\
                 \A j \in PrefixPositions : Byte(j) \in S => i <= j}
HasPrefix(S) == \E i \in PrefixPositions : Byte(i) \in S

(* No scanner reads a byte the caller did not offer, whatever the bytes    *)
(* and however short the buffer, and none leaves the length past the       *)
(* buffer (xed-ild.c: the tests of length against max_bytes).              *)
InBounds == reads <= max_bytes /\ length <= max_bytes

(* A length that is reported as good rests on exactly the bytes of the     *)
(* instruction: no lookahead byte behind it was examined, none of its own  *)
(* bytes was skipped.                                                      *)
NoLookahead == Success => reads = length

(* Prefix byte count, escape or VEX/XOP/EVEX/REX2 bytes *)
EscapeBytes ==
    CASE enc.vexvalid = Vex  -> IF Byte(pfx.nprefixes) = \hC5 THEN 2 ELSE 3
      [] enc.vexvalid = Xop  -> 3
      [] enc.vexvalid = Evex -> 4
      [] enc.rex2 = 1        -> 2
      [] OTHER               -> IF enc.map = 0 THEN 0 ELSE IF enc.map = 1 THEN 1 ELSE 2

Span(first, width) == first..(first + width - 1)
Spans ==
    {<<"prefixes", PrefixPositions>>,
     <<"escape", Span(pfx.nprefixes, EscapeBytes)>>,
     <<"opcode", Span(enc.pos_opcode, 1)>>,
     <<"modrm", IF mrm.has_modrm # 0 THEN Span(mrm.pos_modrm, 1) ELSE {}>>,
     <<"sib", IF mrm.has_sib THEN Span(mrm.pos_sib, 1) ELSE {}>>,
     <<"disp", Span(imd.pos_disp, imd.disp_width)>>,
     <<"imm", IF enc.amd3dnow THEN {} ELSE Span(imd.pos_imm, imd.imm_width)>>,
     <<"imm1", IF enc.amd3dnow THEN {} ELSE Span(imd.pos_imm1, imd.imm1_bytes)>>}

(* Prefixes, escape bytes, opcode, ModRM, SIB, displacement and immediates *)
(* of a successful decode tile the instruction: every byte before length   *)
(* belongs to exactly one of them and none of them reaches past it.  The   *)
(* positions are what xed_patch_disp and the encoder's users rely on.      *)
FieldsTile ==
    Success =>
       /\ \A s \in Spans : s[2] \subseteq 0..(length - 1)
       /\ \A i \in 0..(length - 1) : Cardinality({s \in Spans : i \in s[2]}) = 1

(* The result says "out of bytes" exactly when it has one of the two       *)
(* errors that ask for bytes, and the one saying that no instruction is    *)
(* so long is kept for a caller that offered the longest (too_short).      *)
OutOfBytesMeaning ==
    Done => /\ out_of_bytes <=> error \in {"BUFFER_TOO_SHORT", "INSTR_TOO_LONG"}
            /\ error = "INSTR_TOO_LONG" <=> out_of_bytes /\ max_bytes = MaxInstructionBytes

(* Scanners keep running after one that ran out of bytes, but none of them *)
(* can withdraw that result or replace its error by another.               *)
OutOfBytesSticks == [][out_of_bytes => out_of_bytes' /\ error' = error]_vars

(* REX counts in 64-bit mode only, and only as the very last prefix.       *)
RexCounts ==
    AfterPrefixes =>
       /\ pfx.rex = 1 <=> /\ mode_64b /\ pfx.nprefixes > 0
                          /\ Byte(pfx.nprefixes - 1) \in RexPrefixes
       /\ Success /\ enc.rexw = 1 /\ enc.vexvalid = Legacy /\ enc.rex2 = 0 => pfx.rex = 1

(* Of several F2 and F3 prefixes the last one counts, on the chips with    *)
(* mode_first_prefix the first, other prefixes in between or not.          *)
RepChoice ==
    AfterPrefixes =>
       LET which == IF cfg.mode_first_prefix THEN FirstOf({\hF2, \hF3})
                                             ELSE LastOf({\hF2, \hF3})
       IN  pfx.rep = IF which = {} THEN 0 ELSE Byte(CHOOSE i \in which : TRUE) - \hF0

(* The segment override is the last segment prefix; in 64-bit mode the     *)
(* last FS or GS prefix, CS, DS, ES and SS being ignored wherever they are. *)
SegChoice ==
    AfterPrefixes =>
       LET which == LastOf(IF mode_64b THEN {\h64, \h65} ELSE SegPrefixes)
       IN  pfx.seg_ovd = IF which = {} THEN 0 ELSE SegOvd(Byte(CHOOSE i \in which : TRUE))

(* CET no-track: in 64-bit mode 3E marks an indirect branch exactly when   *)
(* no FS or GS prefix is present, before or after it, whatever the order   *)
(* of 2E and 3E.                                                           *)
NoTrackHint ==
    AfterPrefixes /\ mode_64b =>
       (pfx.hint = 2 <=> HasPrefix({\h3E}) /\ ~HasPrefix({\h64, \h65}))

(* A successful VEX, EVEX or XOP instruction has no 66, F2 or F3 prefix    *)
(* anywhere and no REX that counts, and REX2 none before it.               *)
VexRefusesPrefixes ==
    Success => /\ enc.vexvalid # Legacy =>
                    ~HasPrefix({\h66, \hF2, \hF3}) /\ pfx.rex = 0
               /\ enc.rex2 = 1 => pfx.rex = 0

(* Decoding ends for every input: no scanner loops.                        *)
Terminates == <>Done

=============================================================================
