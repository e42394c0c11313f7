------------------------------ MODULE XedPatch ------------------------------
(***************************************************************************)
(* Patching an instruction in place (src/encdec/xed-patch.c): the client   *)
(* has encoded an instruction and decoded it, and replaces a displacement  *)
(* or its first immediate by another of the same width, at the position    *)
(* the length decoder recorded.  The second decode of XedIldTruncation     *)
(* then reads the patched text, offered as many bytes as the first.        *)
(***************************************************************************)
EXTENDS XedIldTruncation

CONSTANTS PatchWidths, \* widths in bytes the client passes
          PatchBytes   \* what every byte of the new value may be
ASSUME PatchAssumption == PatchBytes \subseteq Byte256   \* the code masks each with 0xff

VARIABLE patched  \* the last call of a patch function, with its result

NoPatch == [field |-> "none", width |-> 0, value |-> 0, result |-> FALSE]
patch_vars == <<vars, more_vars, patched>>

(* Width and position of a field as the decode left them.  xed_patch_disp  *)
(* and xed_patch_brdisp read the same two operands.                        *)
Recorded(field) == IF field = "imm0" THEN [width |-> imd.imm_width, pos |-> imd.pos_imm]
                                     ELSE [width |-> imd.disp_width, pos |-> imd.pos_disp]

(* mutant: the position is not compared with zero *)
PatchAppliesUntested(at, width) == at.width = width
(* mutant: a shorter value is let through *)
PatchAppliesShorter(at, width) == at.pos # 0 /\ at.width <= width
PatchApplies(at, width) == at.pos # 0 /\ at.width = width

(* mutant: the loop starts one byte early *)
PatchedTextEarly(text, at, value) ==
    [i \in DOMAIN text |-> IF i - 1 \in (at.pos - 1)..(at.pos + at.width - 1) THEN value ELSE text[i]]
(* itext[pos+i] = (value >> (i*8)) & 0xff for i < width/8; text[i+1] is    *)
(* itext[i].  The bytes of the value are taken all alike.                  *)
PatchedText(text, at, value) ==
    [i \in DOMAIN text |-> IF i - 1 \in at.pos..(at.pos + at.width - 1) THEN value ELSE text[i]]

(* xed_patch_disp, xed_patch_brdisp, xed_patch_imm0 *)
Patch(field, width, value) ==
    /\ Success
    /\ more_pc = "prefix" /\ more_length = 0   \* the patched text is decoded afterwards
    /\ LET at == Recorded(field)
       IN  /\ patched' = [field |-> field, width |-> width, value |-> value,
                          result |-> PatchApplies(at, width)]
           /\ more_itext' = IF PatchApplies(at, width) THEN PatchedText(more_itext, at, value)
                                                       ELSE more_itext
    /\ more_max_bytes' = max_bytes
    /\ UNCHANGED <<vars, more_pc, more_length, more_out_of_bytes, more_error, more_reads,
                   more_pfx, more_enc, more_mrm, more_imd>>

InitPatch == InitBoth /\ patched = NoPatch

NextPatch ==
    \/ NextBoth /\ UNCHANGED patched
    \/ /\ patched = NoPatch
       /\ \E field \in {"disp", "brdisp", "imm0"}, width \in PatchWidths, value \in PatchBytes :
             Patch(field, width, value)

SpecPatch == InitPatch /\ [][NextPatch]_patch_vars

-----------------------------------------------------------------------------
(* A patched instruction is the same instruction: decoded again, it has    *)
(* the same length, prefixes, opcode, ModRM and SIB, and its displacement  *)
(* and immediates are where they were.  This needs the recorded positions  *)
(* to be those of the fields and no scanner to decide by a value patched.  *)
PatchKeepsTheRest ==
    BothDone /\ patched # NoPatch =>
       <<more_length, more_out_of_bytes, more_error, more_pfx, more_enc, more_mrm, more_imd>>
     = <<length, out_of_bytes, error, pfx, enc, mrm, imd>>

(* The fields of the patched kind in the instruction, per the spans that   *)
(* tile it: none, or one.                                                  *)
PatchSpan == IF patched.field = "imm0"
             THEN IF enc.amd3dnow THEN {} ELSE Span(imd.pos_imm, imd.imm_width)
             ELSE Span(imd.pos_disp, imd.disp_width)

(* The answer of a patch function is yes exactly when the instruction has  *)
(* a field of that kind and width, whatever pos 0 may stand for; then all  *)
(* bytes of the field are the new ones and no other byte differs, and      *)
(* after a no nothing differs.                                             *)
PatchExactly ==
    patched # NoPatch =>
       /\ patched.result <=> /\ PatchSpan # {} 
                             /\ Cardinality(PatchSpan) = patched.width
       /\ \A i \in 0..(Len(itext) - 1) :
             more_itext[i + 1] = IF patched.result /\ i \in PatchSpan THEN patched.value
                                                                      ELSE Byte(i)
=============================================================================
