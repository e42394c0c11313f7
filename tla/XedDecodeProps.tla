--------------------------- MODULE XedDecodeProps ---------------------------
(***************************************************************************)
(* What a client of the decoder may rely on from one decode to the next.   *)
(***************************************************************************)
EXTENDS XedDecode

(* a decode has returned and the client has not touched the structure since *)
AtRest == phase = "client" /\ ~fresh
Accepted == AtRest /\ op = "decode" /\ returned = "NONE"

(* The type invariant. *)
TypeOKDecode ==
    /\ phase \in {"client", "ild", "capture", "finalize"}
    /\ op \in {"none", "decode", "ild"}
    /\ cfg \in Config
    /\ chip \in DOMAIN ChipTable
    /\ realmode \in BOOLEAN /\ fresh \in BOOLEAN
    /\ \A f \in features : \A x \in f : x \in STRING
    /\ pc = "done" \/ phase = "ild"
    /\ Cardinality(features) <= 1 /\ Cardinality(first) <= 1

(* The answer depends on the question alone.  A client that initialises    *)
(* the structure, with either function, gets for the same bytes, mode,     *)
(* chip and features the answer it got the first time, in every operand:   *)
(* nothing of the decodes in between is left behind (the zeroing functions *)
(* and the operands that set_chip_modes presets and never clears).         *)
SameQuestionSameAnswer ==
    AtRest => \A a \in first : a.question = Question => a.result = Answer.result

(* xed_ild_decode and xed_decode agree on where an instruction ends: when  *)
(* the full decoder accepts the bytes of a question, the length decoder    *)
(* reports no error for them, and the same length.                         *)
LengthsAgree ==
    AtRest => \A a \in first :
       LET other == [Question EXCEPT ![1] = IF op = "ild" THEN "decode" ELSE "ild"]
           accepted == IF op = "ild" THEN a.result[1] ELSE returned
           ild_says == IF op = "ild" THEN returned ELSE a.result[1]
       IN  a.question = other /\ accepted = "NONE" =>
              ild_says = "NONE" /\ a.result[3][1] = length

(* The encodings of a chip: under a feature set without AVX nothing        *)
(* decodes as VEX, EVEX or XOP, without AVX512 nothing as EVEX, without    *)
(* APX nothing as REX2, and XOP only on the chips that have it.  This      *)
(* holds for the length decoder alone too, so the presets must be in place *)
(* before it runs and be those of this decode's features.                  *)
EncodingsOfTheChip ==
    AtRest /\ returned = "NONE" =>
       /\ \A f \in features :
             /\ "AVX" \notin f => enc.vexvalid = Legacy
             /\ "AVX512" \notin f => enc.vexvalid # Evex
             /\ "APX_F" \notin f => enc.rex2 = 0
       /\ enc.vexvalid = Xop => ChipTable[chip].xop

(* An accepted instruction is one of the tables, belongs to a feature that *)
(* is there, has LOCK only where the instruction allows it, is neither VEX *)
(* nor protected-mode only in real mode, and has passed its register       *)
(* checks: no check's error is lost behind the others.                     *)
AcceptedIsLegal ==
    Accepted =>
       /\ inst \notin {NoInst, Undefined}
       /\ \A f \in features : inst.isa_set \in f
       /\ pfx.lock = 1 => Has("LOCKED")
       /\ realmode /\ inst.isa_set \notin {"SEP", "SMX"} =>
             enc.vexvalid = Legacy /\ ~Has("PROTECTED_MODE")
       /\ inst.collide => ~\E a \in {"NO_REG_MATCH", "NO_SRC_DEST_MATCH", "GATHER"} : Has(a)
=============================================================================
