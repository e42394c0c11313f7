------------------------- MODULE XedIldFieldProofs -------------------------
(***************************************************************************)
(* What a successful length decode says about the bytes, proved for every  *)
(* instance: which prefixes count, which bytes each field is made of, and  *)
(* that no byte behind the instruction was looked at.                      *)
(***************************************************************************)
EXTENDS XedIldProofs, FiniteSetTheorems

(* What the prefix loop has stored is a function of the bytes it passed:   *)
(* each operand tells whether some prefix occurred, or which occurred last *)
(* or first.                                                               *)
RexIsLast == mode_64b /\ pfx.nprefixes > 0 /\ Byte(pfx.nprefixes - 1) \in RexPrefixes
SegThatCount == IF mode_64b THEN {\h64, \h65} ELSE SegPrefixes
RepBytes == {\hF2, \hF3}

RexHistory == pfx.rexbyte # 0 <=> RexIsLast
FlagHistory == /\ pfx.prefix66 = 1 <=> HasPrefix({\h66})
               /\ pfx.f2 = 1 <=> HasPrefix({\hF2})
               /\ pfx.f3 = 1 <=> HasPrefix({\hF3})
RepHistory ==
    /\ \/ pfx.last_f2f3 = 0 /\ LastOf(RepBytes) = {}
       \/ \E i \in PrefixPositions : LastOf(RepBytes) = {i} /\ pfx.last_f2f3 = Byte(i) - \hF0
    /\ \/ pfx.first_f2f3 = 0 /\ ~HasPrefix(RepBytes)
       \/ \E i \in PrefixPositions : FirstOf(RepBytes) = {i} /\ pfx.first_f2f3 = Byte(i) - \hF0
SegHistory ==
    \/ pfx.ild_seg = 0 /\ LastOf(SegThatCount) = {}
    \/ /\ pfx.ild_seg # 0
       /\ \E i \in PrefixPositions : LastOf(SegThatCount) = {i} /\ pfx.ild_seg = Byte(i)
HintHistory ==
    mode_64b => /\ pfx.ild_seg # 0 <=> HasPrefix({\h64, \h65})
                /\ pfx.hint = 2 <=> HasPrefix({\h3E}) /\ ~HasPrefix({\h64, \h65})
PrefixHistory == RexHistory /\ FlagHistory /\ RepHistory /\ SegHistory /\ HintHistory

(* Behind the loop the operands that later stages read are derived. *)
PrefixResults ==
    IF pc = "prefix" THEN pfx.rex = 0 /\ pfx.seg_ovd = 0 /\ enc.rexw = 0
    ELSE /\ pfx.rex = 1 <=> pfx.rexbyte # 0
         /\ pfx.rep = IF cfg.mode_first_prefix THEN pfx.first_f2f3 ELSE pfx.last_f2f3
         /\ pfx.seg_ovd = IF pfx.ild_seg # 0 THEN SegOvd(pfx.ild_seg) ELSE 0

PrefixInv == PrefixHistory /\ PrefixResults

-----------------------------------------------------------------------------
(* The ends of the fields, each counted from the one before it. *)
EscapeEnd == pfx.nprefixes + EscapeBytes
OpcodeEnd == IF enc.amd3dnow THEN EscapeEnd ELSE EscapeEnd + 1
ModrmEnd == OpcodeEnd + (IF mrm.has_modrm # 0 THEN 1 ELSE 0)
SibEnd == ModrmEnd + (IF mrm.has_sib THEN 1 ELSE 0)
DispEnd == SibEnd + imd.disp_width
ImmEnd == IF enc.amd3dnow THEN DispEnd + 1 ELSE DispEnd + imd.imm_width + imd.imm1_bytes

OpcodeAt == ~enc.amd3dnow => enc.pos_opcode = EscapeEnd
ModrmAt == mrm.has_modrm # 0 => mrm.pos_modrm = OpcodeEnd
SibAt == mrm.has_sib => mrm.pos_sib = ModrmEnd
DispAt == imd.disp_width # 0 => imd.pos_disp = SibEnd
ImmAt == IF enc.amd3dnow
         THEN enc.pos_opcode = DispEnd
         ELSE /\ imd.imm_width # 0 => imd.pos_imm = DispEnd
              /\ imd.imm1_bytes # 0 => imd.imm_width # 0 /\ imd.pos_imm1 = DispEnd + imd.imm_width

(* Where the scanners stand, and what none of them has touched yet. *)
FrontInv ==
    /\ pc = "prefix" \/ BeforeOpcode =>
          length = pfx.nprefixes /\ enc.vexvalid = Legacy /\ enc.rex2 = 0 /\ ~enc.amd3dnow
    /\ enc.vexvalid # Legacy => enc.rex2 = 0 /\ ~enc.amd3dnow
    /\ pc \in Early => mrm = NoMrm /\ imd = NoImd
    /\ pc \in {"sib", "disp", "imm"} => imd.imm_width = 0 /\ imd.imm1_bytes = 0

PastOpcode == pc \in {"catch_invalid", "modrm"} \/ (pc = "evex" /\ ~BeforeOpcode)

(* length is the end of the last field scanned *)
FieldInv ==
    /\ PastOpcode => length = OpcodeEnd /\ OpcodeAt
    /\ pc = "sib" => length = ModrmEnd /\ OpcodeAt /\ ModrmAt
    /\ pc = "disp" => length = SibEnd /\ OpcodeAt /\ ModrmAt /\ SibAt
    /\ pc = "imm" => length = DispEnd /\ OpcodeAt /\ ModrmAt /\ SibAt /\ DispAt
    /\ pc \in {"late_evex", "done"} =>
          length = ImmEnd /\ OpcodeAt /\ ModrmAt /\ SibAt /\ DispAt /\ ImmAt

(* what the checks of the scanners have established *)
CheckedInv ==
    /\ enc.vexvalid # Legacy /\ pc \notin {"evex", "catch_invalid"} =>
          pfx.prefix66 = 0 /\ pfx.f2 = 0 /\ pfx.f3 = 0 /\ pfx.rex = 0
    /\ enc.rex2 = 1 => pfx.rex = 0
    /\ enc.rexw = 1 /\ enc.vexvalid = Legacy /\ enc.rex2 = 0 => pfx.rex = 1

(* The bytes that the scanners have seen: at most two behind length, and   *)
(* the second of those only behind C4, C5, 62 or 8F, which then is an      *)
(* opcode with a ModRM byte.                                               *)
LesScanned == /\ enc.vexvalid = Legacy /\ enc.map = 0 /\ enc.rex2 = 0
              /\ enc.info = MapInfo(Legacy, 0) /\ enc.opcode \in LesOpcodes
ReadsInv ==
    /\ pc = "prefix" => reads = length
    /\ BeforeOpcode => \/ reads = length + 1
                       \/ reads = length + 2 /\ Byte(length) \in LesOpcodes
    /\ pc = "modrm" => reads = length \/ (reads = length + 1 /\ LesScanned)
    /\ pc # "prefix" /\ ~BeforeOpcode /\ pc # "modrm" => reads = length

(* All of this holds while no error is found. *)
FieldsInv == error = "NONE" => FrontInv /\ FieldInv /\ CheckedInv /\ ReadsInv

-----------------------------------------------------------------------------
(* One more prefix. *)
LEMMA BytesStay ==
    ASSUME inputs' = inputs
    PROVE  (\A i : Byte(i)' = Byte(i)) /\ mode_64b' = mode_64b /\ itext' = itext /\ cfg' = cfg
           /\ max_bytes' = max_bytes
BY DEF inputs, Byte, mode_64b

LEMMA OneMorePosition ==
    ASSUME pfx.nprefixes \in Nat, pfx'.nprefixes = pfx.nprefixes + 1
    PROVE  PrefixPositions' = PrefixPositions \cup {pfx.nprefixes}
           /\ \A i \in PrefixPositions : i \in Nat /\ i < pfx.nprefixes
BY DEF PrefixPositions

LEMMA HasPrefixStep ==
    ASSUME inputs' = inputs, pfx.nprefixes \in Nat, pfx'.nprefixes = pfx.nprefixes + 1, NEW S
    PROVE  HasPrefix(S)' <=> HasPrefix(S) \/ Byte(pfx.nprefixes) \in S
BY BytesStay, OneMorePosition, Zenon DEF HasPrefix

LEMMA LastOfStep ==
    ASSUME inputs' = inputs, pfx.nprefixes \in Nat, pfx'.nprefixes = pfx.nprefixes + 1, NEW S
    PROVE  LastOf(S)' = IF Byte(pfx.nprefixes) \in S THEN {pfx.nprefixes} ELSE LastOf(S)
<1>. DEFINE n == pfx.nprefixes
            P == PrefixPositions
<1>1. PrefixPositions' = P \cup {n} /\ n \in Nat /\ \A i \in P : i \in Nat /\ i < n
  BY OneMorePosition
<1>2. LastOf(S)' = {i \in P \cup {n} : Byte(i) \in S /\ \A j \in P \cup {n} : Byte(j) \in S => j <= i}
  BY <1>1, BytesStay, Zenon DEF LastOf
<1>3. LastOf(S) = {i \in P : Byte(i) \in S /\ \A j \in P : Byte(j) \in S => j <= i}
  BY DEF LastOf
<1>. HIDE DEF n, P
<1>4. ASSUME Byte(n) \in S PROVE LastOf(S)' = {n}
  BY <1>1, <1>2, <1>4
<1>5. ASSUME Byte(n) \notin S PROVE LastOf(S)' = LastOf(S)
  BY <1>1, <1>2, <1>3, <1>5
<1>. QED  BY <1>4, <1>5 DEF n

LEMMA FirstOfStep ==
    ASSUME inputs' = inputs, pfx.nprefixes \in Nat, pfx'.nprefixes = pfx.nprefixes + 1, NEW S
    PROVE  /\ Byte(pfx.nprefixes) \notin S \/ HasPrefix(S) => FirstOf(S)' = FirstOf(S)
           /\ Byte(pfx.nprefixes) \in S /\ ~HasPrefix(S) => FirstOf(S)' = {pfx.nprefixes}
<1>. DEFINE n == pfx.nprefixes
            P == PrefixPositions
<1>1. PrefixPositions' = P \cup {n} /\ n \in Nat /\ \A i \in P : i \in Nat /\ i < n
  BY OneMorePosition
<1>2. FirstOf(S)' = {i \in P \cup {n} : Byte(i) \in S /\ \A j \in P \cup {n} : Byte(j) \in S => i <= j}
  BY <1>1, BytesStay, Zenon DEF FirstOf
<1>3. /\ FirstOf(S) = {i \in P : Byte(i) \in S /\ \A j \in P : Byte(j) \in S => i <= j}
      /\ HasPrefix(S) <=> \E i \in P : Byte(i) \in S
  BY DEF FirstOf, HasPrefix
<1>. HIDE DEF n, P
<1>4. ASSUME Byte(n) \in S, ~HasPrefix(S) PROVE FirstOf(S)' = {n}
  BY <1>1, <1>2, <1>3, <1>4
<1>5. ASSUME Byte(n) \notin S \/ HasPrefix(S) PROVE FirstOf(S)' = FirstOf(S)
  BY <1>1, <1>2, <1>3, <1>5
<1>. QED  BY <1>4, <1>5 DEF n

(* what a prefix does to each operand *)
LEMMA PrefixOperands ==
    ASSUME IldInv, PrefixByte, NEW b, b = Byte(length)
    PROVE  /\ pfx'.nprefixes = pfx.nprefixes + 1
           /\ pfx'.rexbyte = IF b \in RexPrefixes THEN b ELSE 0
           /\ pfx'.prefix66 = IF b = \h66 THEN 1 ELSE pfx.prefix66
           /\ pfx'.f2 = IF b = \hF2 THEN 1 ELSE pfx.f2
           /\ pfx'.f3 = IF b = \hF3 THEN 1 ELSE pfx.f3
           /\ pfx'.last_f2f3 = IF b \in RepBytes THEN b - \hF0 ELSE pfx.last_f2f3
           /\ pfx'.first_f2f3 = IF b \in RepBytes /\ pfx.first_f2f3 = 0 THEN b - \hF0
                                ELSE pfx.first_f2f3
           /\ pfx'.ild_seg = IF b \in SegPrefixes THEN SegKept(b) ELSE pfx.ild_seg
           /\ pfx'.hint = IF b \in SegPrefixes THEN SegHint(b) ELSE pfx.hint
           /\ pfx'.rex = pfx.rex /\ pfx'.seg_ovd = pfx.seg_ovd
<1>. DEFINE q == AfterPrefix(b)
<1>1. pfx \in PfxType /\ b \in LegacyPrefixes \cup RexPrefixes
  BY DEF IldInv, TypeOK, PrefixByte, IsPrefixByte
<1>2. pfx' = [q EXCEPT !.nprefixes = @ + 1, !.rexbyte = IF b \in RexPrefixes THEN b ELSE 0]
  BY DEF PrefixByte
<1>3. pfx.nrexes + 1 \in Pos
  BY MaxAssumption DEF PrefixByte, IldInv, TypeOK, PfxType, PrefixCount, Pos
<1>4. q \in PfxType /\ q.nprefixes = pfx.nprefixes
  BY <1>1, <1>3, AfterPrefixType
<1>5. /\ q.prefix66 = IF b = \h66 THEN 1 ELSE pfx.prefix66
      /\ q.rex = pfx.rex /\ q.seg_ovd = pfx.seg_ovd
      /\ q.f2 = IF b = \hF2 THEN 1 ELSE pfx.f2
      /\ q.f3 = IF b = \hF3 THEN 1 ELSE pfx.f3
      /\ q.last_f2f3 = IF b \in RepBytes THEN b - \hF0 ELSE pfx.last_f2f3
      /\ q.first_f2f3 = IF b \in RepBytes /\ pfx.first_f2f3 = 0 THEN b - \hF0
                        ELSE pfx.first_f2f3
      /\ q.ild_seg = IF b \in SegPrefixes THEN SegKept(b) ELSE pfx.ild_seg
      /\ q.hint = IF b \in SegPrefixes THEN SegHint(b) ELSE pfx.hint
  <2>1. CASE b = \h66
    <3>1. q = [pfx EXCEPT !.osz = 1, !.prefix66 = 1]
      BY <2>1 DEF AfterPrefix, SegPrefixes
    <3>2. b \notin SegPrefixes /\ b \notin RepBytes /\ b # \hF2 /\ b # \hF3
      BY <2>1 DEF SegPrefixes, RepBytes
    <3>. HIDE DEF q
    <3>3. /\ q.prefix66 = 1 /\ q.f2 = pfx.f2 /\ q.f3 = pfx.f3
          /\ q.last_f2f3 = pfx.last_f2f3 /\ q.first_f2f3 = pfx.first_f2f3
          /\ q.ild_seg = pfx.ild_seg /\ q.hint = pfx.hint
          /\ q.rex = pfx.rex /\ q.seg_ovd = pfx.seg_ovd
      BY <1>1, <3>1 DEF PfxType
    <3>. QED  BY <2>1, <3>2, <3>3
  <2>2. CASE b = \h67
    <3>1. q = [pfx EXCEPT !.asz = 1]
      BY <2>2 DEF AfterPrefix, SegPrefixes
    <3>. QED  BY <1>1, <2>2, <3>1 DEF PfxType, SegPrefixes, RepBytes
  <2>3. CASE b = \hF0
    <3>1. q = [pfx EXCEPT !.lock = 1]
      BY <2>3 DEF AfterPrefix, SegPrefixes
    <3>. QED  BY <1>1, <2>3, <3>1 DEF PfxType, SegPrefixes, RepBytes
  <2>4. CASE b \in SegPrefixes
    <3>1. q = [pfx EXCEPT !.hint = SegHint(b), !.ild_seg = SegKept(b)]
      BY <2>4 DEF AfterPrefix, SegPrefixes, SegmentPrefix
    <3>2. b \notin {\h66, \h67, \hF0, \hF2, \hF3}
      BY <2>4 DEF SegPrefixes
    <3>. QED  BY <1>1, <2>4, <3>1, <3>2 DEF PfxType, RepBytes
  <2>5. CASE b = \hF2
    <3>. DEFINE z == IF pfx.first_f2f3 = 0 THEN 2 ELSE pfx.first_f2f3
    <3>1. q = [pfx EXCEPT !.f2 = 1, !.f3 = pfx.f3, !.last_f2f3 = 2, !.first_f2f3 = z]
      BY <1>1, <2>5 DEF AfterPrefix, SegPrefixes, RepPrefix, PfxType
    <3>2. b \notin SegPrefixes /\ b \in RepBytes /\ b - \hF0 = 2 /\ b # \h66 /\ b # \hF3
      BY <2>5 DEF SegPrefixes, RepBytes
    <3>3. z = IF b \in RepBytes /\ pfx.first_f2f3 = 0 THEN b - \hF0 ELSE pfx.first_f2f3
      BY <3>2
    <3>. HIDE DEF z, q
    <3>4. /\ q.f2 = 1 /\ q.f3 = pfx.f3 /\ q.last_f2f3 = 2 /\ q.first_f2f3 = z
          /\ q.prefix66 = pfx.prefix66 /\ q.ild_seg = pfx.ild_seg /\ q.hint = pfx.hint
          /\ q.rex = pfx.rex /\ q.seg_ovd = pfx.seg_ovd
      BY <1>1, <3>1 DEF PfxType
    <3>. QED  BY <2>5, <3>2, <3>3, <3>4
  <2>6. CASE b = \hF3
    <3>. DEFINE z == IF pfx.first_f2f3 = 0 THEN 3 ELSE pfx.first_f2f3
    <3>1. q = [pfx EXCEPT !.f2 = pfx.f2, !.f3 = 1, !.last_f2f3 = 3, !.first_f2f3 = z]
      BY <1>1, <2>6 DEF AfterPrefix, SegPrefixes, RepPrefix, PfxType
    <3>2. b \notin SegPrefixes /\ b \in RepBytes /\ b - \hF0 = 3 /\ b # \h66 /\ b # \hF2
      BY <2>6 DEF SegPrefixes, RepBytes
    <3>3. z = IF b \in RepBytes /\ pfx.first_f2f3 = 0 THEN b - \hF0 ELSE pfx.first_f2f3
      BY <3>2
    <3>. HIDE DEF z, q
    <3>4. /\ q.f3 = 1 /\ q.f2 = pfx.f2 /\ q.last_f2f3 = 3 /\ q.first_f2f3 = z
          /\ q.prefix66 = pfx.prefix66 /\ q.ild_seg = pfx.ild_seg /\ q.hint = pfx.hint
          /\ q.rex = pfx.rex /\ q.seg_ovd = pfx.seg_ovd
      BY <1>1, <3>1 DEF PfxType
    <3>. QED  BY <2>6, <3>2, <3>3, <3>4
  <2>7. CASE b \in RexPrefixes
    <3>1. q = [pfx EXCEPT !.nrexes = @ + 1]
      BY <2>7 DEF AfterPrefix, SegPrefixes, RexPrefixes
    <3>2. b \notin LegacyPrefixes
      BY <2>7 DEF LegacyPrefixes, SegPrefixes, RexPrefixes
    <3>. QED  BY <1>1, <3>1, <3>2 DEF PfxType, LegacyPrefixes, RepBytes
  <2>. QED  BY <1>1, <2>1, <2>2, <2>3, <2>4, <2>5, <2>6, <2>7 DEF LegacyPrefixes
<1>. HIDE DEF q
<1>6. /\ pfx'.nprefixes = q.nprefixes + 1
      /\ pfx'.rexbyte = IF b \in RexPrefixes THEN b ELSE 0
      /\ pfx'.prefix66 = q.prefix66 /\ pfx'.f2 = q.f2 /\ pfx'.f3 = q.f3
      /\ pfx'.last_f2f3 = q.last_f2f3 /\ pfx'.first_f2f3 = q.first_f2f3
      /\ pfx'.ild_seg = q.ild_seg /\ pfx'.hint = q.hint
      /\ pfx'.rex = q.rex /\ pfx'.seg_ovd = q.seg_ovd
  BY <1>2, <1>4 DEF PfxType
<1>. QED  BY <1>4, <1>5, <1>6

LEMMA PrefixBytePrefixInv ==
    ASSUME IldInv, PrefixInv, PrefixByte
    PROVE  PrefixInv'
<1>. DEFINE n == pfx.nprefixes
            b == Byte(length)
<1>1. n = length /\ n \in Nat /\ inputs' = inputs /\ pfx'.nprefixes = n + 1
  <2>1. n = length /\ inputs' = inputs
    BY DEF IldInv, PrefixCount, PrefixByte
  <2>. QED  BY <2>1, Numbers, PrefixOperands
<1>2. /\ \A i : Byte(i)' = Byte(i)
      /\ mode_64b' = mode_64b /\ cfg' = cfg
  BY <1>1, BytesStay
<1>3. \A S : HasPrefix(S)' <=> HasPrefix(S) \/ b \in S
  BY <1>1, HasPrefixStep
<1>4. \A S : LastOf(S)' = IF b \in S THEN {n} ELSE LastOf(S)
  BY <1>1, LastOfStep
<1>5. \A S : /\ b \notin S \/ HasPrefix(S) => FirstOf(S)' = FirstOf(S)
             /\ b \in S /\ ~HasPrefix(S) => FirstOf(S)' = {n}
  BY <1>1, FirstOfStep
<1>6. /\ PrefixPositions' = PrefixPositions \cup {n}
      /\ PrefixPositions \subseteq PrefixPositions' /\ n \in PrefixPositions'
  BY <1>1, OneMorePosition, Zenon
<1>7. b \in LegacyPrefixes \cup RexPrefixes /\ (b \in RexPrefixes => mode_64b)
  BY DEF PrefixByte, IsPrefixByte, LegacyPrefixes, RexPrefixes, SegPrefixes
<1>8. /\ pfx'.rexbyte = IF b \in RexPrefixes THEN b ELSE 0
      /\ pfx'.prefix66 = IF b = \h66 THEN 1 ELSE pfx.prefix66
      /\ pfx'.f2 = IF b = \hF2 THEN 1 ELSE pfx.f2
      /\ pfx'.f3 = IF b = \hF3 THEN 1 ELSE pfx.f3
      /\ pfx'.last_f2f3 = IF b \in RepBytes THEN b - \hF0 ELSE pfx.last_f2f3
      /\ pfx'.first_f2f3 = IF b \in RepBytes /\ pfx.first_f2f3 = 0 THEN b - \hF0
                           ELSE pfx.first_f2f3
      /\ pfx'.ild_seg = IF b \in SegPrefixes THEN SegKept(b) ELSE pfx.ild_seg
      /\ pfx'.hint = IF b \in SegPrefixes THEN SegHint(b) ELSE pfx.hint
      /\ pfx'.rex = pfx.rex /\ pfx'.seg_ovd = pfx.seg_ovd
  BY PrefixOperands
<1>9. /\ pfx.ild_seg \in {0} \cup SegPrefixes
      /\ pfx.hint \in 0..2
  BY DEF IldInv, TypeOK, PfxType
<1>10. RexHistory'
  <2>1. RexIsLast' <=> b \in RexPrefixes
    <3>1. RexIsLast' <=> mode_64b /\ n + 1 > 0 /\ Byte((n + 1) - 1) \in RexPrefixes
      BY <1>1, <1>2 DEF RexIsLast
    <3>2. n + 1 > 0 /\ (n + 1) - 1 = length
      BY <1>1
    <3>. QED  BY <1>7, <3>1, <3>2
  <2>2. pfx'.rexbyte # 0 <=> b \in RexPrefixes
    BY <1>8 DEF RexPrefixes
  <2>. QED  BY <2>1, <2>2 DEF RexHistory
<1>11. FlagHistory'
  <2>1. /\ HasPrefix({\h66})' <=> HasPrefix({\h66}) \/ b = \h66
        /\ HasPrefix({\hF2})' <=> HasPrefix({\hF2}) \/ b = \hF2
        /\ HasPrefix({\hF3})' <=> HasPrefix({\hF3}) \/ b = \hF3
    BY <1>3
  <2>2. FlagHistory
    BY DEF PrefixInv, PrefixHistory
  <2>. QED  BY <1>8, <2>1, <2>2 DEF FlagHistory
<1>12. RepHistory'
  <2>1. RepHistory
    BY DEF PrefixInv, PrefixHistory
  <2>2. \/ pfx'.last_f2f3 = 0 /\ LastOf(RepBytes)' = {}
        \/ \E i \in PrefixPositions' : LastOf(RepBytes)' = {i} /\ pfx'.last_f2f3 = Byte(i)' - \hF0
    <3>1. CASE b \in RepBytes
      BY <1>1, <1>2, <1>4, <1>6, <1>8, <3>1
    <3>2. CASE b \notin RepBytes
      BY <1>2, <1>4, <1>6, <1>8, <2>1, <3>2 DEF RepHistory
    <3>. QED  BY <3>1, <3>2
  <2>3. \/ pfx'.first_f2f3 = 0 /\ ~HasPrefix(RepBytes)'
        \/ \E i \in PrefixPositions' : FirstOf(RepBytes)' = {i} /\ pfx'.first_f2f3 = Byte(i)' - \hF0
    <3>1. CASE b \in RepBytes /\ pfx.first_f2f3 = 0 /\ ~HasPrefix(RepBytes)
      BY <1>1, <1>2, <1>5, <1>6, <1>8, <3>1
    <3>2. CASE b \notin RepBytes
      BY <1>2, <1>3, <1>5, <1>6, <1>8, <2>1, <3>2 DEF RepHistory
    <3>3. CASE b \in RepBytes /\ \E i \in PrefixPositions : FirstOf(RepBytes) = {i} /\ pfx.first_f2f3 = Byte(i) - \hF0
      <4>1. PICK i \in PrefixPositions : FirstOf(RepBytes) = {i} /\ pfx.first_f2f3 = Byte(i) - \hF0
        BY <3>3
      <4>2. Byte(i) \in RepBytes
        <5>1. i \in FirstOf(RepBytes)
          BY <4>1
        <5>. QED  BY <5>1 DEF FirstOf
      <4>3. HasPrefix(RepBytes) /\ pfx.first_f2f3 # 0
        BY <4>1, <4>2 DEF HasPrefix, RepBytes
      <4>4. FirstOf(RepBytes)' = {i} /\ pfx'.first_f2f3 = Byte(i)' - \hF0 /\ i \in PrefixPositions'
        BY <1>2, <1>5, <1>6, <1>8, <4>1, <4>3
      <4>. QED  BY <4>4
    <3>. QED  BY <2>1, <3>1, <3>2, <3>3 DEF RepHistory
  <2>. QED  BY <2>2, <2>3 DEF RepHistory
<1>13. SegHistory'
  <2>1. SegHistory /\ SegThatCount' = SegThatCount
    BY <1>2 DEF PrefixInv, PrefixHistory, SegThatCount
  <2>2. LastOf(SegThatCount)' = IF b \in SegThatCount THEN {n} ELSE LastOf(SegThatCount)
    <3>1. PICK S : S = SegThatCount
      OBVIOUS
    <3>2. LastOf(SegThatCount)' = LastOf(S)'
      BY <2>1, <3>1 DEF LastOf
    <3>. QED  BY <1>4, <3>1, <3>2
  <2>3. CASE b \in SegThatCount
    <3>1. b \in SegPrefixes /\ SegKept(b) = b /\ b # 0
      BY <2>3 DEF SegThatCount, SegPrefixes, SegKept
    <3>2. pfx'.ild_seg = b /\ b # 0
      BY <1>8, <3>1
    <3>. QED  BY <1>1, <1>2, <1>6, <2>2, <2>3, <3>2 DEF SegHistory
  <2>4. CASE b \notin SegThatCount
    <3>1. b \in SegPrefixes => SegKept(b) = pfx.ild_seg
      BY <2>4 DEF SegThatCount, SegKept
    <3>2. pfx'.ild_seg = pfx.ild_seg
      BY <1>8, <3>1
    <3>. QED  BY <1>2, <1>6, <2>1, <2>2, <2>4, <3>2 DEF SegHistory
  <2>. QED  BY <2>3, <2>4
<1>14. HintHistory'
  <2>. SUFFICES ASSUME mode_64b
                PROVE  /\ pfx'.ild_seg # 0 <=> HasPrefix({\h64, \h65})'
                       /\ pfx'.hint = 2 <=> HasPrefix({\h3E})' /\ ~HasPrefix({\h64, \h65})'
    BY <1>2 DEF HintHistory
  <2>1. /\ pfx.ild_seg # 0 <=> HasPrefix({\h64, \h65})
        /\ pfx.hint = 2 <=> HasPrefix({\h3E}) /\ ~HasPrefix({\h64, \h65})
    BY DEF PrefixInv, PrefixHistory, HintHistory
  <2>2. /\ HasPrefix({\h64, \h65})' <=> HasPrefix({\h64, \h65}) \/ b \in {\h64, \h65}
        /\ HasPrefix({\h3E})' <=> HasPrefix({\h3E}) \/ b = \h3E
    BY <1>3
  <2>3. pfx.ild_seg \in {0, \h64, \h65}
    <3>1. SegHistory /\ SegThatCount = {\h64, \h65}
      BY DEF PrefixInv, PrefixHistory, SegThatCount
    <3>2. \A i \in LastOf({\h64, \h65}) : Byte(i) \in {\h64, \h65}
      BY DEF LastOf
    <3>. QED  BY <3>1, <3>2 DEF SegHistory
  <2>4. CASE b \in {\h64, \h65}
    <3>1. b \in SegPrefixes /\ SegKept(b) = b /\ SegHint(b) = 0
      BY <2>4 DEF SegPrefixes, SegKept, SegHint
    <3>. QED  BY <1>8, <2>2, <2>4, <3>1
  <2>5. CASE b = \h3E
    <3>1. /\ b \in SegPrefixes /\ SegKept(b) = pfx.ild_seg
          /\ SegHint(b) = IF pfx.ild_seg \in {\h64, \h65} THEN pfx.hint ELSE 2
      BY <2>5 DEF SegPrefixes, SegKept, SegHint
    <3>. QED  BY <1>8, <2>1, <2>2, <2>3, <2>5, <3>1
  <2>6. CASE b \in {\h2E, \h26, \h36}
    <3>1. /\ b \in SegPrefixes /\ SegKept(b) = pfx.ild_seg
          /\ SegHint(b) = 2 <=> pfx.hint = 2
      BY <1>9, <2>6 DEF SegPrefixes, SegKept, SegHint
    <3>. QED  BY <1>8, <2>1, <2>2, <2>6, <3>1
  <2>7. CASE b \notin SegPrefixes
    <3>1. b \notin {\h64, \h65} /\ b # \h3E
      BY <2>7 DEF SegPrefixes
    <3>. QED  BY <1>8, <2>1, <2>2, <2>7, <3>1
  <2>. QED  BY <2>4, <2>5, <2>6, <2>7 DEF SegPrefixes
<1>15. PrefixResults'
  <2>1. pc = "prefix" /\ pc' = "prefix" /\ enc' = enc
    BY DEF PrefixByte
  <2>. QED  BY <1>8, <2>1 DEF PrefixInv, PrefixResults
<1>. QED  BY <1>10, <1>11, <1>12, <1>13, <1>14, <1>15 DEF PrefixInv, PrefixHistory

(* the fields of pfx that are written in the prefix loop only *)
HistoryFields(p) == <<p.nprefixes, p.rexbyte, p.prefix66, p.f2, p.f3, p.last_f2f3,
                      p.first_f2f3, p.ild_seg, p.hint>>

(* what the history of the prefixes says rests on those fields alone *)
LEMMA HistoryStays ==
    ASSUME PrefixHistory, inputs' = inputs, HistoryFields(pfx)' = HistoryFields(pfx)
    PROVE  PrefixHistory'
<1>1. /\ \A i : Byte(i)' = Byte(i)
      /\ mode_64b' = mode_64b /\ cfg' = cfg
  BY BytesStay
<1>2. /\ pfx'.nprefixes = pfx.nprefixes /\ pfx'.rexbyte = pfx.rexbyte
      /\ pfx'.prefix66 = pfx.prefix66 /\ pfx'.f2 = pfx.f2 /\ pfx'.f3 = pfx.f3
      /\ pfx'.last_f2f3 = pfx.last_f2f3 /\ pfx'.first_f2f3 = pfx.first_f2f3
      /\ pfx'.ild_seg = pfx.ild_seg /\ pfx'.hint = pfx.hint
  BY DEF HistoryFields
<1>3. PrefixPositions' = PrefixPositions
  BY <1>2 DEF PrefixPositions
<1>4. \A S : /\ HasPrefix(S)' <=> HasPrefix(S)
             /\ LastOf(S)' = LastOf(S) /\ FirstOf(S)' = FirstOf(S)
  BY <1>1, <1>3, Zenon DEF HasPrefix, LastOf, FirstOf
<1>5. LastOf(SegThatCount)' = LastOf(SegThatCount)
  <2>1. PICK S : S = SegThatCount
    OBVIOUS
  <2>2. LastOf(SegThatCount)' = LastOf(S)'
    BY <1>1, <2>1 DEF LastOf, SegThatCount
  <2>. QED  BY <1>4, <2>1, <2>2
<1>6. RexHistory'
  BY <1>1, <1>2 DEF PrefixHistory, RexHistory, RexIsLast
<1>7. FlagHistory'
  BY <1>2, <1>4 DEF PrefixHistory, FlagHistory
<1>8. RepHistory'
  BY <1>1, <1>2, <1>3, <1>4 DEF PrefixHistory, RepHistory
<1>9. SegHistory'
  BY <1>1, <1>2, <1>3, <1>5 DEF PrefixHistory, SegHistory
<1>10. HintHistory'
  BY <1>1, <1>2, <1>4 DEF PrefixHistory, HintHistory
<1>. QED  BY <1>6, <1>7, <1>8, <1>9, <1>10 DEF PrefixHistory

LEMMA PrefixesOutPrefixInv ==
    ASSUME IldInv, PrefixInv, PrefixesOut
    PROVE  PrefixInv'
<1>. DEFINE r == IF pfx.rexbyte # 0 THEN 1 ELSE pfx.rex
            v == IF cfg.mode_first_prefix THEN pfx.first_f2f3 ELSE pfx.last_f2f3
            s == IF pfx.ild_seg # 0 THEN SegOvd(pfx.ild_seg) ELSE pfx.seg_ovd
<1>1. pfx' = [pfx EXCEPT !.rex = r, !.rep = v, !.seg_ovd = s]
  BY DEF PrefixesOut
<1>2. pc = "prefix" /\ pc' # "prefix" /\ inputs' = inputs /\ pfx \in PfxType
  BY DEF PrefixesOut, IldInv, TypeOK
<1>3. pfx.rex = 0 /\ pfx.seg_ovd = 0
  BY <1>2 DEF PrefixInv, PrefixResults
<1>. HIDE DEF r, v, s
<1>4. /\ HistoryFields(pfx)' = HistoryFields(pfx)
      /\ pfx'.rex = r /\ pfx'.rep = v /\ pfx'.seg_ovd = s
      /\ pfx'.rexbyte = pfx.rexbyte /\ pfx'.ild_seg = pfx.ild_seg
      /\ pfx'.first_f2f3 = pfx.first_f2f3 /\ pfx'.last_f2f3 = pfx.last_f2f3
  BY <1>1, <1>2 DEF PfxType, HistoryFields
<1>5. PrefixHistory'
  BY <1>2, <1>4, HistoryStays DEF PrefixInv
<1>6. PrefixResults'
  BY <1>2, <1>3, <1>4 DEF PrefixResults, r, v, s, inputs
<1>. QED  BY <1>5, <1>6 DEF PrefixInv

(* Behind the loop only the EVEX scanner touches the prefix operands, and  *)
(* of them osz alone.                                                      *)
LEMMA LaterPrefixes ==
    ASSUME Next, pc # "prefix"
    PROVE  pc' # "prefix" /\ (pfx' = pfx \/ \E z \in {1, pfx.osz} : pfx' = [pfx EXCEPT !.osz = z])
<1>1. ~PrefixByte /\ ~PrefixesOut
  BY DEF PrefixByte, PrefixesOut
<1>2. VexNone \/ VexShort \/ VexC4 \/ VexC5 \/ VexXop => pc' # "prefix" /\ pfx' = pfx
  BY DEF VexNone, VexShort, RunOut, VexC4, VexC5, VexXop
<1>3. EvexNone \/ EvexShort \/ EvexBadMap \/ CatchInvalid => pc' # "prefix" /\ pfx' = pfx
  BY DEF EvexNone, EvexShort, RunOut, EvexBadMap, CatchInvalid
<1>4. EvexScan => pc' # "prefix" /\ \E z \in {1, pfx.osz} : pfx' = [pfx EXCEPT !.osz = z]
  BY DEF EvexScan
<1>5. Rex2None \/ Rex2 \/ OpcodeMap0 \/ OpcodeShort \/ OpcodeMap1 \/ OpcodeMap23 \/ Opcode3DNow
         => pc' # "prefix" /\ pfx' = pfx
  BY DEF Rex2None, Rex2, RunOut, OpcodeMap0, OpcodeShort, OpcodeMap1, OpcodeMap23, Opcode3DNow
<1>6. ModrmScanner \/ SibScanner \/ DispScanner \/ ImmScanner3DNow \/ ImmScanner \/ LateEvex
         => pc' # "prefix" /\ pfx' = pfx
  BY DEF ModrmScanner, SibScanner, DispScanner, ImmScanner3DNow, ImmScanner, AfterImm, LateEvex
<1>. QED  BY <1>1, <1>2, <1>3, <1>4, <1>5, <1>6, Zenon DEF Next

LEMMA LaterPrefixFields ==
    ASSUME IldInv, Next, pc # "prefix"
    PROVE  /\ HistoryFields(pfx)' = HistoryFields(pfx) /\ pfx'.nprefixes = pfx.nprefixes
           /\ pfx'.rexbyte = pfx.rexbyte /\ pfx'.rex = pfx.rex /\ pfx'.rep = pfx.rep
           /\ pfx'.seg_ovd = pfx.seg_ovd /\ pfx'.prefix66 = pfx.prefix66
           /\ pfx'.f2 = pfx.f2 /\ pfx'.f3 = pfx.f3
<1>1. pfx \in PfxType
  BY DEF IldInv, TypeOK
<1>2. CASE pfx' = pfx
  BY <1>2 DEF HistoryFields
<1>3. CASE \E z \in {1, pfx.osz} : pfx' = [pfx EXCEPT !.osz = z]
  BY <1>1, <1>3 DEF PfxType, HistoryFields
<1>. QED  BY <1>2, <1>3, LaterPrefixes

LEMMA PrefixInvStep ==
    ASSUME IldInv, PrefixInv, [Next]_vars
    PROVE  PrefixInv'
<1>1. CASE PrefixByte
  BY <1>1, PrefixBytePrefixInv
<1>2. CASE PrefixesOut
  BY <1>2, PrefixesOutPrefixInv
<1>3. CASE Next /\ pc # "prefix"
  <2>1. /\ HistoryFields(pfx)' = HistoryFields(pfx)
        /\ pfx'.rexbyte = pfx.rexbyte /\ pfx'.rex = pfx.rex /\ pfx'.rep = pfx.rep
        /\ pfx'.seg_ovd = pfx.seg_ovd /\ pc' # "prefix" /\ inputs' = inputs
    BY <1>3, LaterPrefixes, LaterPrefixFields, InputsStay
  <2>2. PrefixHistory'
    BY <2>1, HistoryStays DEF PrefixInv
  <2>3. PrefixResults'
    BY <1>3, <2>1 DEF PrefixInv, PrefixResults, HistoryFields, inputs
  <2>. QED  BY <2>2, <2>3 DEF PrefixInv
<1>4. CASE UNCHANGED vars
  <2>1. PrefixHistory'
    BY <1>4, HistoryStays DEF PrefixInv, vars, inputs, HistoryFields
  <2>2. PrefixResults'
    BY <1>4 DEF PrefixInv, PrefixResults, vars
  <2>. QED  BY <2>1, <2>2 DEF PrefixInv
<1>5. Next /\ pc = "prefix" => PrefixByte \/ PrefixesOut
  BY DEF Next, VexNone, VexShort, VexC4, VexC5, VexXop, EvexNone, EvexShort, EvexBadMap,
         EvexScan, CatchInvalid, Rex2None, Rex2, OpcodeMap0, OpcodeShort, OpcodeMap1,
         OpcodeMap23, Opcode3DNow, AtEscape, ModrmScanner, SibScanner, DispScanner,
         ImmScanner3DNow, ImmScanner, LateEvex
<1>. QED  BY <1>1, <1>2, <1>3, <1>4, <1>5

LEMMA StartedPrefixInv == Started => PrefixInv
<1>. SUFFICES ASSUME Started PROVE PrefixInv
  OBVIOUS
<1>1. /\ pc = "prefix" /\ pfx = NoPfx /\ enc = NoEnc
      /\ PrefixPositions = {}
  BY DEF Started, PrefixPositions, NoPfx
<1>2. \A S : LastOf(S) = {} /\ ~HasPrefix(S)
  BY <1>1 DEF LastOf, HasPrefix
<1>3. RexHistory /\ FlagHistory /\ RepHistory /\ SegHistory /\ HintHistory
  BY <1>1, <1>2 DEF RexHistory, RexIsLast, FlagHistory, RepHistory, SegHistory, HintHistory, NoPfx
<1>4. PrefixResults
  BY <1>1 DEF PrefixResults, NoPfx, NoEnc
<1>. QED  BY <1>3, <1>4 DEF PrefixInv, PrefixHistory

(* What the operands say of the prefixes holds from the first byte on.     *)
LEMMA PrefixInvariant == Spec => []PrefixInv
<1>1. Init => PrefixInv
  BY InitStarted, StartedPrefixInv
<1>2. IldInv /\ PrefixInv /\ [Next]_vars => PrefixInv'
  BY PrefixInvStep
<1>. QED  BY <1>1, <1>2, IldInvariant, PTL DEF Spec

LEMMA RepOfHistory == ASSUME IldInv, PrefixInv PROVE RepChoice
<1>. DEFINE which == IF cfg.mode_first_prefix THEN FirstOf(RepBytes) ELSE LastOf(RepBytes)
<1>. SUFFICES ASSUME pc # "prefix"
              PROVE  pfx.rep = IF which = {} THEN 0 ELSE Byte(CHOOSE i \in which : TRUE) - \hF0
  BY Zenon DEF RepChoice, AfterPrefixes, RepBytes
<1>1. pfx.rep = IF cfg.mode_first_prefix THEN pfx.first_f2f3 ELSE pfx.last_f2f3
  BY DEF PrefixInv, PrefixResults
<1>2. ~HasPrefix(RepBytes) => FirstOf(RepBytes) = {}
  BY DEF HasPrefix, FirstOf
<1>3. \/ pfx.rep = 0 /\ which = {}
      \/ \E i \in PrefixPositions : which = {i} /\ pfx.rep = Byte(i) - \hF0
  BY <1>1, <1>2 DEF PrefixInv, PrefixHistory, RepHistory
<1>. HIDE DEF which
<1>4. \A i : which = {i} => (CHOOSE j \in which : TRUE) = i
  OBVIOUS
<1>. QED  BY <1>3, <1>4

(* Of several F2 and F3 prefixes the last one counts, on the chips with    *)
(* mode_first_prefix the first, whatever stands between them               *)
(* (prefix_scanner).                                                       *)
THEOREM RepPrefixCounts == Spec => []RepChoice
<1>1. IldInv /\ PrefixInv => RepChoice
  BY RepOfHistory
<1>. QED  BY <1>1, IldInvariant, PrefixInvariant, PTL

LEMMA SegOfHistory == ASSUME IldInv, PrefixInv PROVE SegChoice
<1>. DEFINE which == LastOf(SegThatCount)
<1>. SUFFICES ASSUME pc # "prefix"
              PROVE  pfx.seg_ovd = IF which = {} THEN 0 ELSE SegOvd(Byte(CHOOSE i \in which : TRUE))
  BY Zenon DEF SegChoice, AfterPrefixes, SegThatCount
<1>1. pfx.seg_ovd = IF pfx.ild_seg # 0 THEN SegOvd(pfx.ild_seg) ELSE 0
  BY DEF PrefixInv, PrefixResults
<1>2. \/ pfx.ild_seg = 0 /\ which = {}
      \/ pfx.ild_seg # 0 /\ \E i \in PrefixPositions : which = {i} /\ pfx.ild_seg = Byte(i)
  BY DEF PrefixInv, PrefixHistory, SegHistory
<1>. HIDE DEF which
<1>3. \A i : which = {i} => (CHOOSE j \in which : TRUE) = i
  OBVIOUS
<1>. QED  BY <1>1, <1>2, <1>3

(* The segment override is that of the last segment prefix, in 64-bit mode *)
(* of the last FS or GS prefix, the others being ignored wherever they     *)
(* stand (prefix_scanner).                                                 *)
THEOREM SegPrefixCounts == Spec => []SegChoice
<1>1. IldInv /\ PrefixInv => SegChoice
  BY SegOfHistory
<1>. QED  BY <1>1, IldInvariant, PrefixInvariant, PTL

LEMMA HintOfHistory == ASSUME PrefixInv PROVE NoTrackHint
BY DEF PrefixInv, PrefixHistory, HintHistory, NoTrackHint

(* In 64-bit mode 3E is the no-track hint exactly when no FS or GS prefix  *)
(* stands anywhere before the opcode (prefix_scanner, the CET cases).      *)
THEOREM NoTrackMeans == Spec => []NoTrackHint
<1>1. PrefixInv => NoTrackHint
  BY HintOfHistory
<1>. QED  BY <1>1, PrefixInvariant, PTL

-----------------------------------------------------------------------------
(* An error may be replaced by another, but not taken back. *)
LEMMA ErrorStays == Next /\ error' = "NONE" => error = "NONE"
<1>1. PrefixByte \/ VexNone \/ VexC5 \/ EvexNone \/ Rex2None \/ OpcodeMap0 \/ OpcodeMap1
         \/ OpcodeMap23 \/ Opcode3DNow \/ LateEvex => error' = error
  BY DEF PrefixByte, VexNone, VexC5, EvexNone, Rex2None, OpcodeMap0, OpcodeMap1, OpcodeMap23,
         Opcode3DNow, LateEvex
<1>2. VexShort \/ EvexShort \/ EvexBadMap \/ OpcodeShort => error' # "NONE"
  BY DEF VexShort, EvexShort, EvexBadMap, OpcodeShort, RunOut, BadMap, too_short
<1>3. (PrefixesOut \/ VexC4 \/ VexXop \/ Rex2) /\ error' = "NONE" => error = "NONE"
  BY DEF PrefixesOut, VexC4, VexXop, Rex2, RunOut, BadMap, too_short
<1>4. (EvexScan \/ CatchInvalid) /\ error' = "NONE" => error = "NONE"
  BY DEF EvexScan, EvexPayload3Error, CatchInvalid
<1>5. (ModrmScanner \/ SibScanner \/ DispScanner \/ ImmScanner3DNow \/ ImmScanner)
         /\ error' = "NONE" => error = "NONE"
  BY DEF ModrmScanner, SibScanner, DispScanner, ImmScanner3DNow, ImmScanner, too_short
<1>. QED  BY <1>1, <1>2, <1>3, <1>4, <1>5 DEF Next

(* A step that finds the opcode behind k escape bytes. *)
TakesOpcode(e, k) ==
    /\ e \in EncType /\ ~e.amd3dnow /\ k \in 0..4
    /\ enc' = WithOpcode(e, length + k) /\ EscapeBytes' = k
    /\ length' = length + k + 1 /\ Seen(length + k + 1)
    /\ mrm' = mrm /\ imd' = imd
    /\ \/ pc' = "evex" /\ e.vexvalid \in {Vex, Xop} /\ e.rex2 = 0
       \/ pc' = "catch_invalid" /\ e.vexvalid = Evex /\ e.rex2 = 0
       \/ /\ pc' = "modrm" /\ e.vexvalid = Legacy
          /\ IF e.rex2 = 1 THEN pfx.rex = 0 ELSE e.rexw = enc.rexw
    /\ k = 0 => e.map = 0 /\ e.vexvalid = Legacy /\ e.rex2 = 0

LEMMA WithOpcodeFields ==
    ASSUME NEW e \in EncType, NEW p \in Nat
    PROVE  /\ WithOpcode(e, p).vexvalid = e.vexvalid /\ WithOpcode(e, p).map = e.map
           /\ WithOpcode(e, p).rex2 = e.rex2 /\ WithOpcode(e, p).rexw = e.rexw
           /\ WithOpcode(e, p).amd3dnow = e.amd3dnow
           /\ WithOpcode(e, p).opcode = Byte(p) /\ WithOpcode(e, p).pos_opcode = p
           /\ WithOpcode(e, p).info = MapInfo(e.vexvalid, e.map)
BY DEF WithOpcode, EncType

(* how many escape bytes there are, from the fields of the encoding *)
LEMMA EscapeBytesOf ==
    ASSUME inputs' = inputs, pfx'.nprefixes = pfx.nprefixes,
           NEW e \in EncType, NEW p \in Nat, enc' = WithOpcode(e, p), e.vexvalid # Legacy => e.rex2 = 0
    PROVE  /\ e.vexvalid = Vex => EscapeBytes' = IF Byte(pfx.nprefixes) = \hC5 THEN 2 ELSE 3
           /\ e.vexvalid = Xop => EscapeBytes' = 3
           /\ e.vexvalid = Evex => EscapeBytes' = 4
           /\ e.rex2 = 1 => EscapeBytes' = 2
           /\ e.vexvalid = Legacy /\ e.rex2 = 0 =>
                 EscapeBytes' = IF e.map = 0 THEN 0 ELSE IF e.map = 1 THEN 1 ELSE 2
<1>1. /\ enc'.vexvalid = e.vexvalid /\ enc'.map = e.map /\ enc'.rex2 = e.rex2
  BY WithOpcodeFields
<1>2. Byte(pfx.nprefixes)' = Byte(pfx.nprefixes)
  BY BytesStay
<1>. QED  BY <1>1, <1>2 DEF EscapeBytes, Legacy, Vex, Evex, Xop

LEMMA OpcodeOfVex ==
    ASSUME IldInv, FrontInv, BeforeOpcode, VexC4 \/ VexC5 \/ VexXop, error' = "NONE"
    PROVE  \E e, k : TakesOpcode(e, k)
<1>1. /\ pfx'.nprefixes = length /\ pfx.nprefixes = length /\ inputs' = inputs
      /\ enc \in EncType /\ enc.vexvalid = Legacy /\ enc.rex2 = 0 /\ ~enc.amd3dnow
      /\ length \in Nat /\ \A i \in Nat : Byte(i) \in Byte256
  <2>1. inputs' = inputs /\ pfx' = pfx
    BY DEF VexC4, VexC5, VexXop, BadMap
  <2>. QED  BY <2>1, Numbers DEF IldInv, TypeOK, FrontInv
<1>2. /\ Bits(Byte(length + 2), 7, 1) \in Bit /\ Bits(Byte(length + 1), 0, 5) \in MapIds
      /\ 1 \in MapIds /\ Vex \in Spaces /\ Xop \in Spaces /\ Vex # Legacy /\ Xop # Legacy
  <2>1. Byte(length + 2) \in Byte256 /\ Byte(length + 1) \in Byte256
    BY <1>1
  <2>. QED  BY <2>1, BitsRange DEF MapIds, Spaces, Legacy, Vex, Xop
<1>3. CASE VexC4
  <2>. DEFINE e == [enc EXCEPT !.rexw = Bits(Byte(length + 2), 7, 1),
                               !.map = Bits(Byte(length + 1), 0, 5)]
              v == [e EXCEPT !.vexvalid = Vex]
  <2>1. /\ enc' = WithOpcode(v, length + 3) /\ length' = length + 4 /\ Seen(length + 4)
        /\ pc' = "evex" /\ mrm' = mrm /\ imd' = imd
    BY <1>3, Zenon DEF VexC4, BadMap
  <2>2. e \in EncType /\ e.rex2 = 0 /\ ~e.amd3dnow
    BY <1>1, <1>2 DEF EncType
  <2>. HIDE DEF e
  <2>3. v \in EncType /\ v.rex2 = 0 /\ ~v.amd3dnow /\ v.vexvalid = Vex
    BY <1>2, <2>2 DEF EncType
  <2>. HIDE DEF v
  <2>4. EscapeBytes' = 3
    <3>1. length + 3 \in Nat /\ Byte(pfx.nprefixes) # \hC5
      BY <1>1, <1>3 DEF VexC4
    <3>. QED  BY <1>1, <2>1, <2>3, <3>1, EscapeBytesOf
  <2>5. length + 4 = length + 3 + 1
    BY <1>1
  <2>. QED  BY <2>1, <2>3, <2>4, <2>5 DEF TakesOpcode
<1>4. CASE VexC5
  <2>. DEFINE v == [enc EXCEPT !.vexvalid = Vex, !.map = 1]
  <2>1. /\ enc' = WithOpcode(v, length + 2) /\ length' = length + 3 /\ Seen(length + 3)
        /\ pc' = "evex" /\ mrm' = mrm /\ imd' = imd
    BY <1>4 DEF VexC5
  <2>2. v \in EncType /\ v.rex2 = 0 /\ ~v.amd3dnow /\ v.vexvalid = Vex
    BY <1>1, <1>2 DEF EncType
  <2>. HIDE DEF v
  <2>3. EscapeBytes' = 2
    <3>1. length + 2 \in Nat /\ Byte(pfx.nprefixes) = \hC5
      BY <1>1, <1>4 DEF VexC5
    <3>. QED  BY <1>1, <2>1, <2>2, <3>1, EscapeBytesOf
  <2>4. length + 3 = length + 2 + 1
    BY <1>1
  <2>. QED  BY <2>1, <2>2, <2>3, <2>4 DEF TakesOpcode
<1>5. CASE VexXop
  <2>. DEFINE w == Bits(Byte(length + 2), 7, 1)
              map == Bits(Byte(length + 1), 0, 5)
              v == [enc EXCEPT !.vexvalid = Xop, !.rexw = w, !.map = map]
  <2>1. ValidXopMap(map)
    BY <1>5 DEF VexXop
  <2>2. /\ enc' = WithOpcode(v, length + 3) /\ length' = length + 4 /\ Seen(length + 4)
        /\ pc' = "evex" /\ mrm' = mrm /\ imd' = imd
    BY <1>5, <2>1, Zenon DEF VexXop
  <2>3. v \in EncType /\ v.rex2 = 0 /\ ~v.amd3dnow /\ v.vexvalid = Xop
    BY <1>1, <1>2 DEF EncType
  <2>. HIDE DEF v
  <2>4. EscapeBytes' = 3
    <3>1. length + 3 \in Nat
      BY <1>1
    <3>. QED  BY <1>1, <2>2, <2>3, <3>1, EscapeBytesOf
  <2>5. length + 4 = length + 3 + 1
    BY <1>1
  <2>. QED  BY <2>2, <2>3, <2>4, <2>5 DEF TakesOpcode
<1>. QED  BY <1>3, <1>4, <1>5

LEMMA OpcodeOfEvex ==
    ASSUME IldInv, FrontInv, EvexScan
    PROVE  \E e, k : TakesOpcode(e, k)
<1>. DEFINE p2 == Byte(length + 2)
            p3 == Byte(length + 3)
            map == EvexMap(Byte(length + 1))
            rexw == Bits(p2, 7, 1)
            ubit == Bits(p2, 2, 1)
            llrc == Bits(p3, 5, 2)
            bcrc == Bits(p3, 4, 1)
            e == [enc EXCEPT !.vexvalid = Evex, !.map = map, !.rexw = rexw, !.ubit = ubit,
                             !.llrc = llrc, !.bcrc = bcrc]
<1>1. /\ enc' = WithOpcode(e, length + 4) /\ length' = length + 5 /\ Seen(length + 5)
      /\ pc' = "catch_invalid" /\ mrm' = mrm /\ imd' = imd /\ inputs' = inputs
      /\ pc = "evex" /\ enc.vexvalid = Legacy
  BY Zenon DEF EvexScan, IsEvex
<1>2. /\ enc \in EncType /\ enc.rex2 = 0 /\ ~enc.amd3dnow
  BY <1>1 DEF IldInv, TypeOK, FrontInv, BeforeOpcode
<1>3. pfx'.nprefixes = pfx.nprefixes
  <2>1. pfx' = [pfx EXCEPT !.osz = IF Bits(p2, 0, 2) = 1 THEN 1 ELSE @]
    BY DEF EvexScan
  <2>. QED  BY <2>1 DEF IldInv, TypeOK, PfxType
<1>4. length \in Nat /\ p2 \in Byte256 /\ p3 \in Byte256 /\ Byte(length + 1) \in Byte256
  BY Numbers
<1>5. /\ rexw \in Bit /\ ubit \in Bit /\ llrc \in 0..3 /\ bcrc \in Bit
      /\ Bits(Byte(length + 1), 0, 3) \in 0..7 /\ Bits(Byte(length + 1), 0, 4) \in 0..15
  BY <1>4, BitsRange
<1>6. map \in MapIds /\ Evex \in Spaces /\ Evex # Legacy
  BY <1>5 DEF EvexMap, MapIds, Spaces, Evex, Legacy
<1>. HIDE DEF p2, p3, map, rexw, ubit, llrc, bcrc
<1>7. e \in EncType /\ e.rex2 = 0 /\ ~e.amd3dnow /\ e.vexvalid = Evex
  <2>. DEFINE f == [enc EXCEPT !.vexvalid = Evex, !.map = map, !.rexw = rexw]
  <2>1. f \in EncType /\ f.rex2 = 0 /\ ~f.amd3dnow /\ f.vexvalid = Evex
    BY <1>2, <1>5, <1>6 DEF EncType
  <2>2. e = [f EXCEPT !.ubit = ubit, !.llrc = llrc, !.bcrc = bcrc]
    OBVIOUS
  <2>. HIDE DEF e, f
  <2>. QED  BY <1>5, <2>1, <2>2 DEF EncType
<1>. HIDE DEF e
<1>8. EscapeBytes' = 4
  <2>1. length + 4 \in Nat
    BY <1>4
  <2>. QED  BY <1>1, <1>3, <1>7, <2>1, EscapeBytesOf
<1>9. length + 5 = length + 4 + 1
  BY <1>4
<1>. QED  BY <1>1, <1>7, <1>8, <1>9 DEF TakesOpcode, Evex, Legacy

LEMMA OpcodeOfRex2 ==
    ASSUME IldInv, FrontInv, Rex2, error' = "NONE"
    PROVE  \E e, k : TakesOpcode(e, k)
<1>. DEFINE p == Byte(length + 1)
            map == Bits(p, 7, 1)
            rexw == Bits(p, 3, 1)
            e == [enc EXCEPT !.rex2 = 1, !.map = map, !.rexw = rexw]
<1>1. /\ enc' = WithOpcode(e, length + 2) /\ length' = length + 3 /\ Seen(length + 3)
      /\ pc' = "modrm" /\ mrm' = mrm /\ imd' = imd /\ inputs' = inputs /\ pfx' = pfx
      /\ pc = "rex2" /\ pfx.rex # 1
  BY DEF Rex2, RunOut, too_short
<1>2. /\ enc \in EncType /\ enc.vexvalid = Legacy /\ ~enc.amd3dnow /\ pfx.rex = 0
  BY <1>1 DEF IldInv, TypeOK, FrontInv, BeforeOpcode, PfxType, Bit
<1>3. length \in Nat /\ map \in MapIds /\ rexw \in Bit
  <2>1. length \in Nat /\ p \in Byte256
    BY Numbers
  <2>. QED  BY <2>1, BitsRange DEF Bit, MapIds
<1>. HIDE DEF map, rexw
<1>4. e \in EncType /\ e.rex2 = 1 /\ ~e.amd3dnow /\ e.vexvalid = Legacy
  BY <1>2, <1>3 DEF EncType, Bit
<1>. HIDE DEF e
<1>5. EscapeBytes' = 2
  <2>1. length + 2 \in Nat
    BY <1>3
  <2>. QED  BY <1>1, <1>4, <2>1, EscapeBytesOf
<1>6. length + 3 = length + 2 + 1
  BY <1>3
<1>. QED  BY <1>1, <1>2, <1>4, <1>5, <1>6 DEF TakesOpcode

LEMMA OpcodeOfLegacy ==
    ASSUME IldInv, FrontInv, OpcodeMap0 \/ OpcodeMap1 \/ OpcodeMap23
    PROVE  \E e, k : TakesOpcode(e, k)
<1>1. /\ pc' = "modrm" /\ mrm' = mrm /\ imd' = imd /\ inputs' = inputs /\ pfx' = pfx
      /\ pc = "opcode"
  BY DEF OpcodeMap0, OpcodeMap1, OpcodeMap23, AtEscape
<1>2. /\ enc \in EncType /\ enc.vexvalid = Legacy /\ ~enc.amd3dnow /\ enc.rex2 = 0 /\ length \in Nat
  BY <1>1, Numbers DEF IldInv, TypeOK, FrontInv, BeforeOpcode
<1>3. CASE OpcodeMap0
  <2>. DEFINE e == [enc EXCEPT !.map = 0]
  <2>1. enc' = WithOpcode(e, length) /\ length' = length + 1 /\ Seen(length + 1)
    BY <1>3 DEF OpcodeMap0
  <2>2. e \in EncType /\ e.rex2 = 0 /\ ~e.amd3dnow /\ e.vexvalid = Legacy /\ e.map = 0 /\ e.rexw = enc.rexw
    BY <1>2 DEF EncType, MapIds
  <2>. HIDE DEF e
  <2>3. EscapeBytes' = 0
    BY <1>1, <1>2, <2>1, <2>2, EscapeBytesOf
  <2>4. length = length + 0
    BY <1>2
  <2>. QED  BY <1>1, <2>1, <2>2, <2>3, <2>4 DEF TakesOpcode
<1>4. CASE OpcodeMap1 \/ OpcodeMap23
  <2>1. PICK k \in {1, 2} : /\ enc' = WithOpcode(Escaped, length + k) /\ length' = length + k + 1
                            /\ Seen(length + k + 1) /\ (k = 1 <=> Escaped.map = 1)
                            /\ Escaped.map \in {1, 2, 3}
    <3>1. length + 2 = length + 1 + 1 /\ length + 3 = length + 2 + 1
      BY <1>2
    <3>. QED  BY <1>4, <3>1 DEF OpcodeMap1, OpcodeMap23
  <2>. DEFINE map == EscapeMap(Byte(length + 1))
  <2>2. map \in {1, 2, 3, Amd3DNow} /\ Escaped = [enc EXCEPT !.map = map, !.info = MapInfo(Legacy, map)]
    BY DEF Escaped, EscapeMap
  <2>. HIDE DEF map
  <2>3. MapInfo(Legacy, map) \in InfoType /\ map \in MapIds
    <3>1. map \in MapIds /\ Legacy \in Spaces
      BY <2>2 DEF MapIds, Amd3DNow, Spaces
    <3>. QED  BY <3>1, MapInfoRange
  <2>4. /\ Escaped \in EncType /\ Escaped.rex2 = 0 /\ ~Escaped.amd3dnow
        /\ Escaped.vexvalid = Legacy /\ Escaped.rexw = enc.rexw
    BY <1>2, <2>2, <2>3 DEF EncType
  <2>5. EscapeBytes' = k
    <3>1. length + k \in Nat
      BY <1>2
    <3>. QED  BY <1>1, <2>1, <2>4, <3>1, EscapeBytesOf
  <2>6. k \in 0..4 /\ k # 0
    OBVIOUS
  <2>. QED  BY <1>1, <2>1, <2>4, <2>5, <2>6 DEF TakesOpcode
<1>. QED  BY <1>3, <1>4

(* What a decode without an error can do at the first byte that is no prefix. *)
LEMMA OpcodeSteps ==
    ASSUME IldInv, FrontInv, BeforeOpcode, Next, error' = "NONE"
    PROVE  VexNone \/ EvexNone \/ Rex2None \/ Opcode3DNow \/ \E e, k : TakesOpcode(e, k)
<1>1. pc \in {"vex", "evex", "rex2", "opcode"}
  BY DEF BeforeOpcode
<1>2. ~VexShort /\ ~EvexShort /\ ~EvexBadMap /\ ~OpcodeShort
  BY DEF VexShort, EvexShort, EvexBadMap, OpcodeShort, RunOut, BadMap, too_short
<1>3. ~PrefixByte /\ ~PrefixesOut /\ ~CatchInvalid
  BY <1>1 DEF PrefixByte, PrefixesOut, CatchInvalid
<1>4. ~ModrmScanner /\ ~SibScanner /\ ~DispScanner /\ ~ImmScanner3DNow /\ ~ImmScanner /\ ~LateEvex
  BY <1>1 DEF ModrmScanner, SibScanner, DispScanner, ImmScanner3DNow, ImmScanner, LateEvex
<1>. QED
  BY <1>2, <1>3, <1>4, OpcodeOfVex, OpcodeOfEvex, OpcodeOfRex2, OpcodeOfLegacy, Zenon DEF Next

LEMMA TakesOpcodeFields ==
    ASSUME IldInv, FrontInv, CheckedInv, ReadsInv, BeforeOpcode, Next,
           NEW e, NEW k, TakesOpcode(e, k)
    PROVE  FrontInv' /\ FieldInv' /\ CheckedInv' /\ ReadsInv'
<1>1. /\ e \in EncType /\ k \in 0..4 /\ ~e.amd3dnow
      /\ enc' = WithOpcode(e, length + k) /\ EscapeBytes' = k
      /\ length' = length + k + 1 /\ Seen(length + k + 1)
      /\ mrm' = mrm /\ imd' = imd
      /\ k = 0 => e.map = 0 /\ e.vexvalid = Legacy /\ e.rex2 = 0
  BY DEF TakesOpcode
<1>2. \/ pc' = "evex" /\ e.vexvalid \in {Vex, Xop} /\ e.rex2 = 0
      \/ pc' = "catch_invalid" /\ e.vexvalid = Evex /\ e.rex2 = 0
      \/ /\ pc' = "modrm" /\ e.vexvalid = Legacy
         /\ IF e.rex2 = 1 THEN pfx.rex = 0 ELSE e.rexw = enc.rexw
  BY DEF TakesOpcode
<1>3. /\ length \in Nat /\ reads \in Nat /\ length = pfx.nprefixes /\ pc \in Early
      /\ mrm = NoMrm /\ imd = NoImd /\ enc.vexvalid = Legacy /\ enc.rex2 = 0
      /\ pc \notin {"prefix", "catch_invalid"}
  BY Numbers DEF FrontInv, BeforeOpcode, Early
<1>4. /\ enc'.vexvalid = e.vexvalid /\ enc'.map = e.map /\ enc'.rex2 = e.rex2
      /\ enc'.rexw = e.rexw /\ enc'.amd3dnow = e.amd3dnow
      /\ enc'.opcode = Byte(length + k) /\ enc'.pos_opcode = length + k
      /\ enc'.info = MapInfo(e.vexvalid, e.map)
  <2>1. length + k \in Nat
    BY <1>1, <1>3
  <2>. QED  BY <1>1, <2>1, WithOpcodeFields
<1>5. pfx'.nprefixes = pfx.nprefixes /\ pfx'.rex = pfx.rex
  BY <1>3, LaterPrefixFields
<1>6. /\ ~BeforeOpcode' /\ pc' \in {"evex", "catch_invalid", "modrm"}
      /\ e.vexvalid # Legacy => e.rex2 = 0 /\ pc' \in {"evex", "catch_invalid"}
  BY <1>2, <1>4 DEF BeforeOpcode, Legacy, Vex, Evex, Xop
<1>7. FrontInv'
  BY <1>1, <1>3, <1>4, <1>6 DEF FrontInv
<1>8. FieldInv'
  <2>1. EscapeEnd' = length + k
    BY <1>1, <1>3, <1>5 DEF EscapeEnd
  <2>2. OpcodeAt' /\ OpcodeEnd' = length + k + 1
    BY <1>1, <1>4, <2>1 DEF OpcodeAt, OpcodeEnd
  <2>. QED  BY <1>1, <1>6, <2>2 DEF FieldInv
<1>9. CheckedInv'
  BY <1>2, <1>3, <1>4, <1>5, <1>6 DEF CheckedInv, Legacy, Vex, Evex, Xop
<1>10. ReadsInv'
  <2>1. reads = length + 1 \/ (reads = length + 2 /\ Byte(length) \in LesOpcodes)
    BY DEF ReadsInv
  <2>2. CASE k = 0
    <3>1. reads' = length' \/ (reads' = length' + 1 /\ Byte(length) \in LesOpcodes)
      BY <1>1, <1>3, <2>1, <2>2 DEF Seen
    <3>2. pc' = "modrm" /\ (Byte(length) \in LesOpcodes => LesScanned')
      <4>1. length + k = length /\ e.vexvalid = Legacy /\ e.map = 0 /\ e.rex2 = 0
        BY <1>1, <1>3, <2>2
      <4>2. LesOpcodes' = LesOpcodes
        BY DEF LesOpcodes
      <4>. QED  BY <1>2, <1>4, <4>1, <4>2 DEF LesScanned, Legacy, Vex, Evex, Xop
    <3>. QED  BY <1>6, <3>1, <3>2 DEF ReadsInv
  <2>3. CASE k # 0
    <3>1. reads' = length'
      BY <1>1, <1>3, <2>1, <2>3 DEF Seen
    <3>. QED  BY <1>6, <3>1 DEF ReadsInv
  <2>. QED  BY <2>2, <2>3
<1>. QED  BY <1>7, <1>8, <1>9, <1>10

(* The other steps up to the opcode. *)
LEMMA PrefixFields ==
    ASSUME IldInv, PrefixInv, FrontInv, CheckedInv, ReadsInv, PrefixByte \/ PrefixesOut, error' = "NONE"
    PROVE  FrontInv' /\ FieldInv' /\ CheckedInv' /\ ReadsInv'
<1>1. /\ pc = "prefix" /\ length = pfx.nprefixes /\ enc.vexvalid = Legacy /\ enc.rex2 = 0
      /\ ~enc.amd3dnow /\ enc.rexw = 0 /\ pfx.rex = 0 /\ mrm = NoMrm /\ imd = NoImd
      /\ reads = length /\ length \in Nat /\ enc \in EncType /\ pfx \in PfxType
  <2>1. pc = "prefix"
    BY DEF PrefixByte, PrefixesOut
  <2>. QED  BY <2>1, Numbers DEF IldInv, TypeOK, FrontInv, ReadsInv, PrefixInv, PrefixResults, Early
<1>2. CASE PrefixByte
  <2>1. /\ pc' = "prefix" /\ enc' = enc /\ mrm' = mrm /\ imd' = imd /\ length' = length + 1
        /\ Seen(length + 1)
    BY <1>2 DEF PrefixByte
  <2>2. pfx'.nprefixes = pfx.nprefixes + 1
    BY <1>2, PrefixOperands
  <2>3. FrontInv'
    BY <1>1, <2>1, <2>2 DEF FrontInv, BeforeOpcode
  <2>4. FieldInv' /\ CheckedInv'
    BY <1>1, <2>1 DEF FieldInv, PastOpcode, CheckedInv
  <2>5. reads' = length + 1
    BY <1>1, <2>1 DEF Seen
  <2>. QED  BY <2>1, <2>3, <2>4, <2>5 DEF ReadsInv, BeforeOpcode
<1>3. CASE PrefixesOut
  <2>. DEFINE w == IF pfx.rexbyte # 0 THEN Bits(pfx.rexbyte, 3, 1) ELSE enc.rexw
              r == IF pfx.rexbyte # 0 THEN 1 ELSE pfx.rex
              v == IF cfg.mode_first_prefix THEN pfx.first_f2f3 ELSE pfx.last_f2f3
              s == IF pfx.ild_seg # 0 THEN SegOvd(pfx.ild_seg) ELSE pfx.seg_ovd
  <2>1. pfx' = [pfx EXCEPT !.rex = r, !.rep = v, !.seg_ovd = s] /\ enc' = [enc EXCEPT !.rexw = w]
    BY <1>3 DEF PrefixesOut
  <2>2. /\ length < max_bytes /\ pc' = "vex" /\ Seen(length + 1)
        /\ mrm' = mrm /\ imd' = imd /\ length' = length
    BY <1>1, <1>3, Numbers DEF PrefixesOut, too_short
  <2>3. w = 1 => r = 1
    BY <1>1
  <2>. HIDE DEF w, r, v, s
  <2>4. /\ pfx'.nprefixes = pfx.nprefixes /\ pfx'.rex = r
        /\ enc'.rexw = w /\ enc'.vexvalid = enc.vexvalid /\ enc'.rex2 = enc.rex2
        /\ enc'.amd3dnow = enc.amd3dnow
    BY <1>1, <2>1 DEF PfxType, EncType
  <2>5. FrontInv'
    BY <1>1, <2>2, <2>4 DEF FrontInv
  <2>6. FieldInv' /\ CheckedInv'
    BY <1>1, <2>2, <2>3, <2>4 DEF FieldInv, PastOpcode, CheckedInv
  <2>7. reads' = length' + 1
    BY <1>1, <2>2 DEF Seen
  <2>. QED  BY <2>2, <2>5, <2>6, <2>7 DEF ReadsInv, BeforeOpcode
<1>. QED  BY <1>2, <1>3

(* the scanners that find nothing of theirs *)
LEMMA NoneFields ==
    ASSUME IldInv, FrontInv, FieldInv, CheckedInv, ReadsInv, VexNone \/ EvexNone \/ Rex2None
    PROVE  FrontInv' /\ FieldInv' /\ CheckedInv' /\ ReadsInv'
<1>1. /\ length' = length /\ enc' = enc /\ pfx' = pfx /\ mrm' = mrm /\ imd' = imd
      /\ inputs' = inputs
  BY DEF VexNone, EvexNone, Rex2None
<1>2. \A i : Byte(i)' = Byte(i)
  BY <1>1, BytesStay
<1>3. length \in Nat /\ reads \in Nat
  BY Numbers
<1>4. CASE BeforeOpcode
  <2>1. BeforeOpcode' /\ pc' \in Early /\ pc \in Early
    BY <1>1, <1>4 DEF VexNone, EvexNone, Rex2None, BeforeOpcode, FrontInv, Early
  <2>2. FrontInv'
    BY <1>1, <1>4, <2>1 DEF FrontInv, BeforeOpcode
  <2>3. FieldInv'
    BY <2>1 DEF FieldInv, PastOpcode, BeforeOpcode
  <2>4. CheckedInv'
    BY <1>1, <1>4 DEF CheckedInv, FrontInv
  <2>5. reads' = length + 1 \/ (reads' = length + 2 /\ Byte(length) \in LesOpcodes)
    <3>1. reads = length + 1 \/ (reads = length + 2 /\ Byte(length) \in LesOpcodes)
      BY <1>4 DEF ReadsInv
    <3>2. \/ reads' = reads \/ Seen(length + 1)
          \/ Seen(length + 2) /\ Byte(length) \in LesOpcodes
      BY DEF VexNone, EvexNone, Rex2None, IsXop, IsEvex, LesOpcodes
    <3>. QED  BY <1>3, <3>1, <3>2 DEF Seen
  <2>6. ReadsInv'
    <3>1. LesOpcodes' = LesOpcodes
      BY DEF LesOpcodes
    <3>. QED  BY <1>1, <1>2, <2>1, <2>5, <3>1 DEF ReadsInv, BeforeOpcode
  <2>. QED  BY <2>2, <2>3, <2>4, <2>6
<1>5. CASE ~BeforeOpcode
  <2>1. pc = "evex" /\ pc' = "catch_invalid" /\ enc.vexvalid # Legacy /\ reads' = reads
    BY <1>5 DEF VexNone, EvexNone, Rex2None, BeforeOpcode, IsEvex
  <2>2. FrontInv'
    BY <1>1, <2>1 DEF FrontInv, BeforeOpcode, Early
  <2>3. FieldInv'
    <3>1. length = OpcodeEnd /\ OpcodeAt
      BY <1>5, <2>1 DEF FieldInv, PastOpcode
    <3>2. EscapeBytes' = EscapeBytes
      BY <1>1, <1>2 DEF EscapeBytes
    <3>. QED  BY <1>1, <2>1, <3>1, <3>2 DEF FieldInv, OpcodeEnd, OpcodeAt, EscapeEnd
  <2>4. CheckedInv'
    BY <1>1, <2>1 DEF CheckedInv
  <2>5. ReadsInv'
    BY <1>1, <1>5, <2>1 DEF ReadsInv, BeforeOpcode
  <2>. QED  BY <2>2, <2>3, <2>4, <2>5
<1>. QED  BY <1>4, <1>5

LEMMA Opcode3DNowFields ==
    ASSUME IldInv, FrontInv, CheckedInv, ReadsInv, Opcode3DNow
    PROVE  FrontInv' /\ FieldInv' /\ CheckedInv' /\ ReadsInv'
<1>. DEFINE map == EscapeMap(Byte(length + 1))
<1>1. /\ pc = "opcode" /\ Byte(length) = \h0F /\ map = Amd3DNow /\ pfx' = pfx
      /\ mrm' = mrm /\ imd' = imd /\ length' = length + 2 /\ pc' = "modrm" /\ Seen(length + 2)
      /\ enc' = [[enc EXCEPT !.map = map, !.info = MapInfo(Legacy, map)] EXCEPT !.amd3dnow = TRUE]
  <2>1. Escaped = [enc EXCEPT !.map = map, !.info = MapInfo(Legacy, map)]
    BY DEF Escaped
  <2>2. enc \in EncType
    BY DEF IldInv, TypeOK
  <2>3. Escaped.map = map
    BY <2>1, <2>2 DEF EncType
  <2>. QED  BY <2>1, <2>3, Zenon DEF Opcode3DNow, AtEscape
<1>. HIDE DEF map
<1>2. /\ enc \in EncType /\ enc.vexvalid = Legacy /\ enc.rex2 = 0
      /\ length = pfx.nprefixes /\ mrm = NoMrm /\ imd = NoImd
      /\ length \in Nat /\ reads \in Nat
  BY <1>1, Numbers DEF IldInv, TypeOK, FrontInv, BeforeOpcode, Early
<1>3. /\ enc'.vexvalid = Legacy /\ enc'.rex2 = 0 /\ enc'.map = Amd3DNow /\ enc'.amd3dnow
      /\ enc'.rexw = enc.rexw
  BY <1>1, <1>2 DEF EncType
<1>4. FrontInv'
  BY <1>1, <1>2, <1>3 DEF FrontInv, BeforeOpcode
<1>5. FieldInv'
  <2>1. EscapeBytes' = 2
    BY <1>3 DEF EscapeBytes, Legacy, Vex, Evex, Xop, Amd3DNow
  <2>2. OpcodeEnd' = length + 2 /\ OpcodeAt'
    BY <1>1, <1>2, <1>3, <2>1 DEF OpcodeEnd, EscapeEnd, OpcodeAt
  <2>. QED  BY <1>1, <2>2 DEF FieldInv
<1>6. CheckedInv'
  BY <1>1, <1>2, <1>3 DEF CheckedInv
<1>7. ReadsInv'
  <2>1. reads = length + 1
    BY <1>1 DEF ReadsInv, BeforeOpcode, LesOpcodes
  <2>2. reads' = length + 2
    BY <1>1, <1>2, <2>1 DEF Seen
  <2>. QED  BY <1>1, <2>2 DEF ReadsInv, BeforeOpcode
<1>. QED  BY <1>4, <1>5, <1>6, <1>7

LEMMA CatchInvalidFields ==
    ASSUME IldInv, PrefixInv, FrontInv, FieldInv, CheckedInv, ReadsInv, CatchInvalid, error' = "NONE"
    PROVE  FrontInv' /\ FieldInv' /\ CheckedInv' /\ ReadsInv'
<1>1. /\ pc = "catch_invalid" /\ pc' = "modrm" /\ length' = length /\ enc' = enc /\ pfx' = pfx
      /\ mrm' = mrm /\ imd' = imd /\ inputs' = inputs /\ reads' = reads
  BY DEF CatchInvalid
<1>2. pfx.prefix66 = 0 /\ pfx.f2 = 0 /\ pfx.f3 = 0 /\ pfx.rex = 0
  <2>1. ~(mode_64b /\ pfx.rex = 1) /\ 1 \notin {pfx.prefix66, pfx.f3, pfx.f2}
    BY DEF CatchInvalid
  <2>2. pfx.rex = 1 => mode_64b
    BY <1>1 DEF PrefixInv, PrefixHistory, RexHistory, RexIsLast, PrefixResults
  <2>. QED  BY <2>1, <2>2 DEF IldInv, TypeOK, PfxType, Bit
<1>3. FrontInv'
  BY <1>1 DEF FrontInv, BeforeOpcode, Early
<1>4. FieldInv'
  <2>1. length = OpcodeEnd /\ OpcodeAt
    BY <1>1 DEF FieldInv, PastOpcode
  <2>2. EscapeBytes' = EscapeBytes
    BY <1>1, BytesStay DEF EscapeBytes
  <2>. QED  BY <1>1, <2>1, <2>2 DEF FieldInv, OpcodeEnd, OpcodeAt, EscapeEnd
<1>5. CheckedInv'
  BY <1>1, <1>2 DEF CheckedInv
<1>6. ReadsInv'
  BY <1>1 DEF ReadsInv, BeforeOpcode
<1>. QED  BY <1>3, <1>4, <1>5, <1>6

-----------------------------------------------------------------------------
(* The scanners behind the opcode. *)
LEMMA OpcodeStays ==
    ASSUME inputs' = inputs, pfx' = pfx, enc' = enc
    PROVE  OpcodeEnd' = OpcodeEnd /\ EscapeEnd' = EscapeEnd /\ OpcodeAt' = OpcodeAt
<1>1. EscapeBytes' = EscapeBytes
  BY BytesStay DEF EscapeBytes
<1>. QED  BY <1>1 DEF OpcodeEnd, EscapeEnd, OpcodeAt

LEMMA OpcodeEndNat ==
    ASSUME IldInv
    PROVE  /\ OpcodeEnd \in Nat /\ ModrmEnd \in Nat /\ SibEnd \in Nat /\ DispEnd \in Nat
           /\ imd.disp_width \in Nat /\ imd.imm_width \in Nat /\ imd.imm1_bytes \in Nat
           /\ EscapeBytes \in Nat /\ pfx.nprefixes \in Nat
<1>1. EscapeBytes \in Nat
  <2>1. EscapeBytes \in {0, 1, 2, 3, 4}
    BY DEF EscapeBytes
  <2>. QED  BY <2>1
<1>2. pfx.nprefixes \in Nat
  BY MaxAssumption DEF IldInv, TypeOK, PfxType, Pos
<1>3. imd.disp_width \in Nat /\ imd.imm_width \in Nat /\ imd.imm1_bytes \in Nat
  BY DEF IldInv, TypeOK, ImdType, Widths, Bit
<1>4. OpcodeEnd \in Nat
  BY <1>1, <1>2 DEF OpcodeEnd, EscapeEnd
<1>5. ModrmEnd \in Nat
  BY <1>4 DEF ModrmEnd
<1>6. SibEnd \in Nat
  BY <1>5 DEF SibEnd
<1>7. DispEnd \in Nat
  BY <1>3, <1>6 DEF DispEnd
<1>. QED  BY <1>1, <1>2, <1>3, <1>4, <1>5, <1>6, <1>7

(* what such a step leaves of the other facts *)
LEMMA LaterFacts ==
    ASSUME FrontInv, CheckedInv, inputs' = inputs, pfx' = pfx,
           enc'.vexvalid = enc.vexvalid, enc'.rex2 = enc.rex2, enc'.rexw = enc.rexw,
           enc'.amd3dnow = enc.amd3dnow,
           pc \notin {"evex", "catch_invalid"}, pc' \notin Early,
           pc' \in {"sib", "disp", "imm"} => imd'.imm_width = 0 /\ imd'.imm1_bytes = 0,
           reads' = length'
    PROVE  FrontInv' /\ CheckedInv' /\ ReadsInv'
<1>1. ~BeforeOpcode' /\ pc' \notin {"prefix", "modrm", "evex", "catch_invalid"}
  BY DEF BeforeOpcode, Early
<1>2. FrontInv'
  BY <1>1 DEF FrontInv, Early
<1>3. CheckedInv'
  BY DEF CheckedInv
<1>4. ReadsInv'
  BY <1>1 DEF ReadsInv
<1>. QED  BY <1>2, <1>3, <1>4

LEMMA ModrmFields ==
    ASSUME IldInv, FrontInv, FieldInv, CheckedInv, ReadsInv, ModrmScanner, error' = "NONE"
    PROVE  FrontInv' /\ FieldInv' /\ CheckedInv' /\ ReadsInv'
<1>1. /\ pc = "modrm" /\ pc' = "sib" /\ inputs' = inputs /\ pfx' = pfx /\ enc' = enc
      /\ mrm = NoMrm /\ imd = NoImd /\ length = OpcodeEnd /\ OpcodeAt
      /\ reads = length \/ (reads = length + 1 /\ LesScanned)
      /\ length \in Nat
  BY Numbers DEF ModrmScanner, FrontInv, FieldInv, PastOpcode, ReadsInv, Early
<1>2. OpcodeEnd' = OpcodeEnd /\ OpcodeAt'
  BY <1>1, OpcodeStays
<1>3. /\ imd'.imm_width = 0 /\ imd'.imm1_bytes = 0
  <2>1. imd' = NoImd \/ \E w : imd' = [NoImd EXCEPT !.disp_width = w]
    BY <1>1, Zenon DEF ModrmScanner
  <2>. QED  BY <2>1 DEF NoImd
<1>4. CASE HasModrm = ModrmFalse
  <2>1. mrm' = [mrm EXCEPT !.has_modrm = ModrmFalse] /\ length' = length /\ reads' = reads
    BY <1>4 DEF ModrmScanner
  <2>2. ~LesScanned
    <3>. SUFFICES ASSUME LesScanned PROVE FALSE
      OBVIOUS
    <3>1. enc.info.modrm = Var
      <4>1. MapInfo(Legacy, 0) = Info(Var, Var, ImmVar)
        BY DEF MapInfo, Legacy, Vex, Evex, Xop, Amd3DNow
      <4>. QED  BY <4>1 DEF LesScanned, Info
    <3>2. ModrmCode(Legacy, 0, enc.opcode) \notin {ModrmFalse, ModrmUd0}
      BY LesAssumption DEF LesScanned
    <3>. QED  BY <1>4, <3>1, <3>2 DEF LesScanned, HasModrm, Var, Yes, No
  <2>3. mrm'.has_modrm = 0
    BY <1>1, <2>1 DEF NoMrm, ModrmFalse
  <2>4. FieldInv'
    BY <1>1, <1>2, <2>1, <2>3 DEF FieldInv, PastOpcode, ModrmEnd, ModrmAt
  <2>5. reads' = length'
    BY <1>1, <2>1, <2>2
  <2>. QED  BY <1>1, <1>3, <2>4, <2>5, LaterFacts DEF Early
<1>5. CASE HasModrm # ModrmFalse
  <2>. ~too_short
    BY DEF too_short
  <2>. DEFINE b == Byte(length)
              ea == EaMode(cfg.mode, pfx.asz)
  <2>1. /\ mrm' = [mrm EXCEPT !.has_modrm = HasModrm, !.pos_modrm = length,
                              !.mod = Bits(b, 6, 2), !.reg = Bits(b, 3, 3), !.rm = Bits(b, 0, 3),
                              !.has_sib = /\ HasModrm # ModrmIgnoreMod
                                          /\ HasSib(ea, Bits(b, 6, 2), Bits(b, 0, 3))]
        /\ length' = length + 1 /\ Seen(length + 1)
    BY <1>5, Zenon DEF ModrmScanner
  <2>2. PICK mod, reg, rm, sib : /\ mrm' = [mrm EXCEPT !.has_modrm = HasModrm, !.pos_modrm = length,
                                       !.mod = mod, !.reg = reg, !.rm = rm, !.has_sib = sib]
                                 /\ length' = length + 1 /\ Seen(length + 1)
    BY <2>1, Zenon
  <2>3. mrm'.has_modrm # 0 /\ mrm'.pos_modrm = length
    BY <1>1, <1>5, <2>2 DEF NoMrm, ModrmFalse
  <2>4. FieldInv'
    BY <1>1, <1>2, <2>2, <2>3 DEF FieldInv, PastOpcode, ModrmEnd, ModrmAt
  <2>5. reads' = length'
    BY <1>1, <2>2 DEF Seen
  <2>. QED  BY <1>1, <1>3, <2>4, <2>5, LaterFacts DEF Early
<1>. QED  BY <1>4, <1>5

LEMMA SibFields ==
    ASSUME IldInv, FrontInv, FieldInv, CheckedInv, ReadsInv, SibScanner, error' = "NONE"
    PROVE  FrontInv' /\ FieldInv' /\ CheckedInv' /\ ReadsInv'
<1>1. /\ pc = "sib" /\ pc' = "disp" /\ inputs' = inputs /\ pfx' = pfx /\ enc' = enc
      /\ length = ModrmEnd /\ OpcodeAt /\ ModrmAt /\ reads = length /\ length \in Nat
      /\ imd.imm_width = 0 /\ imd.imm1_bytes = 0 /\ mrm \in MrmType /\ imd \in ImdType
  BY Numbers DEF SibScanner, FrontInv, FieldInv, PastOpcode, ReadsInv, BeforeOpcode, IldInv, TypeOK
<1>2. OpcodeEnd' = OpcodeEnd /\ OpcodeAt'
  BY <1>1, OpcodeStays
<1>3. imd'.imm_width = 0 /\ imd'.imm1_bytes = 0
  <2>1. imd' = imd \/ \E w : imd' = [imd EXCEPT !.disp_width = w]
    BY Zenon DEF SibScanner
  <2>. QED  BY <1>1, <2>1 DEF ImdType
<1>4. ~too_short
  BY DEF too_short
<1>5. \/ ~mrm.has_sib /\ length' = length /\ reads' = reads /\ mrm' = mrm
      \/ /\ mrm.has_sib /\ mrm' = [mrm EXCEPT !.pos_sib = length]
         /\ length' = length + 1 /\ Seen(length + 1)
  BY <1>4 DEF SibScanner
<1>6. reads' = length'
  BY <1>1, <1>5 DEF Seen
<1>7. /\ mrm'.has_modrm = mrm.has_modrm /\ mrm'.pos_modrm = mrm.pos_modrm
      /\ mrm'.has_sib = mrm.has_sib /\ (mrm.has_sib => mrm'.pos_sib = length)
  BY <1>1, <1>5 DEF MrmType
<1>8. ModrmEnd' = ModrmEnd /\ ModrmAt'
  BY <1>1, <1>2, <1>7 DEF ModrmEnd, ModrmAt
<1>9. length' = SibEnd' /\ SibAt'
  BY <1>1, <1>5, <1>7, <1>8 DEF SibEnd, SibAt
<1>10. FieldInv'
  BY <1>1, <1>2, <1>8, <1>9 DEF FieldInv, PastOpcode
<1>. QED  BY <1>1, <1>3, <1>6, <1>10, LaterFacts DEF Early

LEMMA SibStays ==
    ASSUME OpcodeEnd' = OpcodeEnd, mrm' = mrm
    PROVE  ModrmEnd' = ModrmEnd /\ ModrmAt' = ModrmAt /\ SibEnd' = SibEnd /\ SibAt' = SibAt
BY DEF ModrmEnd, ModrmAt, SibEnd, SibAt

LEMMA DispFields ==
    ASSUME IldInv, FrontInv, FieldInv, CheckedInv, ReadsInv, DispScanner, error' = "NONE"
    PROVE  FrontInv' /\ FieldInv' /\ CheckedInv' /\ ReadsInv'
<1>. DEFINE w == DispBytes
<1>1. /\ pc = "disp" /\ pc' = "imm" /\ inputs' = inputs /\ pfx' = pfx /\ enc' = enc /\ mrm' = mrm
      /\ length = SibEnd /\ OpcodeAt /\ ModrmAt /\ SibAt /\ reads = length /\ length \in Nat
      /\ imd.imm_width = 0 /\ imd.imm1_bytes = 0 /\ imd \in ImdType
  BY Numbers DEF DispScanner, FrontInv, FieldInv, PastOpcode, ReadsInv, BeforeOpcode, IldInv, TypeOK
<1>2. OpcodeEnd' = OpcodeEnd /\ OpcodeAt' /\ ModrmAt' /\ SibAt' /\ SibEnd' = SibEnd
  BY <1>1, OpcodeStays, SibStays
<1>3. ~too_short
  BY DEF too_short
<1>4. \/ w = 0 /\ imd' = [imd EXCEPT !.disp_width = 0] /\ length' = length /\ reads' = reads
      \/ /\ w # 0 /\ imd' = [imd EXCEPT !.disp_width = w, !.pos_disp = length]
         /\ length' = length + w /\ Seen(length + w)
  BY <1>3, Zenon DEF DispScanner
<1>5. w \in Nat
  <2>1. w \in Widths
    BY DispBytesRange
  <2>. QED  BY <2>1 DEF Widths
<1>. HIDE DEF w
<1>6. /\ imd'.disp_width = w /\ (w # 0 => imd'.pos_disp = length)
      /\ imd'.imm_width = 0 /\ imd'.imm1_bytes = 0
  BY <1>1, <1>4 DEF ImdType
<1>7. reads' = length'
  BY <1>1, <1>4, <1>5 DEF Seen
<1>8. length' = DispEnd' /\ DispAt'
  BY <1>1, <1>2, <1>4, <1>5, <1>6 DEF DispEnd, DispAt
<1>9. FieldInv'
  BY <1>1, <1>2, <1>8 DEF FieldInv, PastOpcode
<1>. QED  BY <1>1, <1>6, <1>7, <1>9, LaterFacts DEF Early

LEMMA DispStays ==
    ASSUME SibEnd' = SibEnd, imd'.disp_width = imd.disp_width, imd'.pos_disp = imd.pos_disp
    PROVE  DispEnd' = DispEnd /\ DispAt' = DispAt
BY DEF DispEnd, DispAt

(* where no first immediate is found there is no second *)
LEMMA NoSecondAlone ==
    ASSUME IldInv, imd.imm_width = 0, imd.imm1_bytes = 0, ImmBytes.imm = 0
    PROVE  ImmBytes.imm1 = 0
<1>. DEFINE w == ImmWidth(enc.vexvalid, enc.map, enc.opcode, Cx)
<1>1. CASE enc.info.imm # ImmVar
  <2>1. ImmBytes = [imm |-> enc.info.imm, imm1 |-> imd.imm1_bytes]
    BY <1>1 DEF ImmBytes
  <2>. QED  BY <2>1
<1>2. CASE enc.info.imm = ImmVar
  <2>1. ImmBytes = w
    BY <1>2 DEF ImmBytes
  <2>2. enc.info = MapInfo(enc.vexvalid, enc.map)
    BY <1>2 DEF IldInv, MapCodes, NoInfo, Info, ImmVar
  <2>3. /\ enc.vexvalid \in Spaces /\ enc.map \in MapIds /\ enc.opcode \in Byte256
        /\ Cx \in Context /\ MapInfo(enc.vexvalid, enc.map).imm = ImmVar
    BY <1>2, <2>2, CxType, EncParts DEF IldInv, TypeOK, EncType
  <2>4. w.imm1 = 1 => w.imm # 0
    BY <2>3, Imm1Assumption
  <2>5. w.imm1 \in Bit
    BY <2>1, ImmBytesRange
  <2>. QED  BY <2>1, <2>4, <2>5 DEF Bit
<1>. QED  BY <1>1, <1>2

LEMMA ImmFields ==
    ASSUME IldInv, FrontInv, FieldInv, CheckedInv, ReadsInv, ImmScanner, error' = "NONE"
    PROVE  FrontInv' /\ FieldInv' /\ CheckedInv' /\ ReadsInv'
<1>. DEFINE w == ImmBytes.imm
            w1 == ImmBytes.imm1
            widths == [imd EXCEPT !.imm_width = w, !.imm1_bytes = w1]
<1>1. /\ pc = "imm" /\ pc' \in {"late_evex", "done"} /\ inputs' = inputs /\ pfx' = pfx
      /\ enc' = enc /\ mrm' = mrm /\ ~enc.amd3dnow
  BY DEF ImmScanner, AfterImm
<1>2. /\ length = DispEnd /\ OpcodeAt /\ ModrmAt /\ SibAt /\ DispAt /\ reads = length
      /\ imd.imm_width = 0 /\ imd.imm1_bytes = 0 /\ imd \in ImdType /\ length \in Nat
  BY <1>1, Numbers DEF FrontInv, FieldInv, ReadsInv, BeforeOpcode, IldInv, TypeOK
<1>3. OpcodeEnd' = OpcodeEnd /\ OpcodeAt' /\ ModrmAt' /\ SibAt' /\ SibEnd' = SibEnd
  BY <1>1, <1>2, OpcodeStays, SibStays
<1>4. ~too_short
  BY DEF too_short
<1>5. \/ w = 0 /\ imd' = widths /\ length' = length /\ reads' = reads
      \/ /\ w # 0 /\ imd' = [widths EXCEPT !.pos_imm = length,
                                            !.pos_imm1 = IF w1 # 0 THEN length + w ELSE @]
         /\ length' = length + w + w1 /\ Seen(length + w + w1)
  BY <1>4, Zenon DEF ImmScanner
<1>6. w \in Nat /\ w1 \in Nat /\ (w = 0 => w1 = 0)
  <2>1. w \in Widths /\ w1 \in Bit
    BY ImmBytesRange
  <2>2. w = 0 => w1 = 0
    BY <1>2, NoSecondAlone
  <2>. QED  BY <2>1, <2>2 DEF Widths, Bit
<1>. HIDE DEF w, w1
<1>7. /\ imd'.imm_width = w /\ imd'.imm1_bytes = w1
      /\ imd'.disp_width = imd.disp_width /\ imd'.pos_disp = imd.pos_disp
      /\ w # 0 => imd'.pos_imm = length /\ (w1 # 0 => imd'.pos_imm1 = length + w)
  <2>1. /\ widths.imm_width = w /\ widths.imm1_bytes = w1 /\ widths.pos_imm1 = imd.pos_imm1
        /\ widths.disp_width = imd.disp_width /\ widths.pos_disp = imd.pos_disp
    BY <1>2 DEF ImdType
  <2>2. CASE imd' = widths /\ w = 0
    BY <2>1, <2>2
  <2>3. CASE \E q \in {length + w, imd.pos_imm1} :
                /\ imd' = [widths EXCEPT !.pos_imm = length, !.pos_imm1 = q]
                /\ w1 # 0 => q = length + w
    BY <1>2, <2>3 DEF ImdType
  <2>4. \E q \in {length + w, imd.pos_imm1} :
           /\ (IF w1 # 0 THEN length + w ELSE widths.pos_imm1) = q
           /\ w1 # 0 => q = length + w
    BY <2>1
  <2>. QED  BY <1>5, <2>2, <2>3, <2>4
<1>8. reads' = length'
  BY <1>2, <1>5, <1>6 DEF Seen
<1>9. DispEnd' = DispEnd /\ DispAt'
  BY <1>2, <1>3, <1>7, DispStays
<1>10. length' = ImmEnd' /\ ImmAt'
  <2>1. length' = length + w + w1
    BY <1>2, <1>5, <1>6
  <2>. QED  BY <1>1, <1>2, <1>6, <1>7, <1>9, <2>1 DEF ImmEnd, ImmAt
<1>11. FieldInv'
  BY <1>1, <1>3, <1>9, <1>10 DEF FieldInv, PastOpcode
<1>. QED  BY <1>1, <1>8, <1>11, LaterFacts DEF Early

LEMMA Imm3DNowFields ==
    ASSUME IldInv, FrontInv, FieldInv, CheckedInv, ReadsInv, ImmScanner3DNow, error' = "NONE"
    PROVE  FrontInv' /\ FieldInv' /\ CheckedInv' /\ ReadsInv'
<1>1. /\ pc = "imm" /\ pc' \in {"late_evex", "done"} /\ inputs' = inputs /\ pfx' = pfx
      /\ mrm' = mrm /\ enc.amd3dnow
      /\ imd' = [imd EXCEPT !.imm_width = ImmBytes.imm, !.imm1_bytes = ImmBytes.imm1]
      /\ enc' = [enc EXCEPT !.opcode = Byte(length), !.pos_opcode = length]
      /\ length' = length + 1 /\ Seen(length + 1)
  BY DEF ImmScanner3DNow, AfterImm, too_short
<1>2. /\ length = DispEnd /\ ModrmAt /\ SibAt /\ DispAt /\ reads = length
      /\ imd \in ImdType /\ enc \in EncType /\ length \in Nat
  BY <1>1, Numbers DEF FrontInv, FieldInv, ReadsInv, BeforeOpcode, IldInv, TypeOK
<1>3. /\ enc'.vexvalid = enc.vexvalid /\ enc'.map = enc.map /\ enc'.rex2 = enc.rex2
      /\ enc'.rexw = enc.rexw /\ enc'.amd3dnow /\ enc'.pos_opcode = length
      /\ imd'.disp_width = imd.disp_width /\ imd'.pos_disp = imd.pos_disp
  BY <1>1, <1>2 DEF EncType, ImdType
<1>4. OpcodeEnd' = OpcodeEnd /\ OpcodeAt'
  <2>1. /\ enc'.vexvalid = enc.vexvalid /\ enc'.map = enc.map /\ enc'.rex2 = enc.rex2
        /\ pfx'.nprefixes = pfx.nprefixes /\ inputs' = inputs
    BY <1>1, <1>3
  <2>2. EscapeBytes' = EscapeBytes
    BY <2>1, BytesStay DEF EscapeBytes
  <2>. QED  BY <1>1, <1>3, <2>2 DEF OpcodeEnd, OpcodeAt, EscapeEnd
<1>5. ModrmAt' /\ SibAt' /\ SibEnd' = SibEnd
  BY <1>1, <1>2, <1>4, SibStays
<1>6. DispEnd' = DispEnd /\ DispAt'
  BY <1>2, <1>3, <1>5, DispStays
<1>7. length' = ImmEnd' /\ ImmAt'
  BY <1>1, <1>2, <1>3, <1>6 DEF ImmEnd, ImmAt
<1>8. reads' = length'
  BY <1>1, <1>2 DEF Seen
<1>9. FieldInv'
  BY <1>1, <1>4, <1>5, <1>6, <1>7 DEF FieldInv, PastOpcode
<1>. QED  BY <1>1, <1>3, <1>8, <1>9, LaterFacts DEF Early

LEMMA LateEvexFields ==
    ASSUME IldInv, FrontInv, FieldInv, CheckedInv, ReadsInv, LateEvex
    PROVE  FrontInv' /\ FieldInv' /\ CheckedInv' /\ ReadsInv'
<1>1. /\ pc = "late_evex" /\ pc' = "done" /\ inputs' = inputs /\ pfx' = pfx /\ mrm' = mrm
      /\ imd' = imd /\ length' = length /\ reads' = reads
      /\ enc' = enc \/ \E x : enc' = [enc EXCEPT !.ubit = 1, !.rexx4 = x]
  BY Zenon DEF LateEvex
<1>2. enc \in EncType /\ reads = length
  BY <1>1 DEF IldInv, TypeOK, ReadsInv, BeforeOpcode
<1>3. /\ enc'.vexvalid = enc.vexvalid /\ enc'.map = enc.map /\ enc'.rex2 = enc.rex2
      /\ enc'.rexw = enc.rexw /\ enc'.amd3dnow = enc.amd3dnow /\ enc'.pos_opcode = enc.pos_opcode
  BY <1>1, <1>2 DEF EncType
<1>4. OpcodeEnd' = OpcodeEnd /\ OpcodeAt' = OpcodeAt
  <2>1. /\ enc'.vexvalid = enc.vexvalid /\ enc'.map = enc.map /\ enc'.rex2 = enc.rex2
        /\ pfx'.nprefixes = pfx.nprefixes /\ inputs' = inputs
    BY <1>1, <1>3
  <2>2. EscapeBytes' = EscapeBytes
    BY <2>1, BytesStay DEF EscapeBytes
  <2>. QED  BY <1>1, <1>3, <2>2 DEF OpcodeEnd, OpcodeAt, EscapeEnd
<1>5. ModrmAt' = ModrmAt /\ SibAt' = SibAt /\ SibEnd' = SibEnd
  BY <1>1, <1>4, SibStays
<1>6. DispEnd' = DispEnd /\ DispAt' = DispAt
  BY <1>1, <1>5, DispStays
<1>7. ImmEnd' = ImmEnd /\ ImmAt' = ImmAt
  BY <1>1, <1>3, <1>6 DEF ImmEnd, ImmAt
<1>8. FieldInv'
  BY <1>1, <1>4, <1>5, <1>6, <1>7 DEF FieldInv, PastOpcode
<1>. QED  BY <1>1, <1>2, <1>3, <1>8, LaterFacts DEF Early

-----------------------------------------------------------------------------
LEMMA FieldsStep ==
    ASSUME IldInv, PrefixInv, FieldsInv, [Next]_vars
    PROVE  FieldsInv'
<1>. SUFFICES ASSUME error' = "NONE" PROVE FrontInv' /\ FieldInv' /\ CheckedInv' /\ ReadsInv'
  BY DEF FieldsInv
<1>1. CASE Next
  <2>1. FrontInv /\ FieldInv /\ CheckedInv /\ ReadsInv
    BY <1>1, ErrorStays DEF FieldsInv
  <2>2. CASE BeforeOpcode
    <3>1. CASE VexNone \/ EvexNone \/ Rex2None
      BY <2>1, <3>1, NoneFields
    <3>2. CASE Opcode3DNow
      BY <2>1, <3>2, Opcode3DNowFields
    <3>3. CASE \E e, k : TakesOpcode(e, k)
      BY <1>1, <2>1, <2>2, <3>3, TakesOpcodeFields
    <3>. QED  BY <1>1, <2>1, <2>2, <3>1, <3>2, <3>3, OpcodeSteps
  <2>3. CASE ~BeforeOpcode
    <3>1. ~VexNone /\ ~VexShort /\ ~VexC4 /\ ~VexC5 /\ ~VexXop
      BY <2>3 DEF BeforeOpcode, VexNone, VexShort, VexC4, VexC5, VexXop
    <3>2. ~EvexShort /\ ~EvexBadMap /\ ~EvexScan /\ ~Rex2None /\ ~Rex2
      BY <2>3 DEF BeforeOpcode, EvexShort, EvexBadMap, EvexScan, IsEvex, Rex2None, Rex2
    <3>3. ~OpcodeMap0 /\ ~OpcodeShort /\ ~OpcodeMap1 /\ ~OpcodeMap23 /\ ~Opcode3DNow
      BY <2>3 DEF BeforeOpcode, OpcodeMap0, OpcodeShort, OpcodeMap1, OpcodeMap23, Opcode3DNow, AtEscape
    <3>4. PrefixByte \/ PrefixesOut \/ EvexNone \/ CatchInvalid \/ ModrmScanner \/ SibScanner
             \/ DispScanner \/ ImmScanner3DNow \/ ImmScanner \/ LateEvex
      BY <1>1, <3>1, <3>2, <3>3, Zenon DEF Next
    <3>. QED  BY <2>1, <3>4, PrefixFields, NoneFields, CatchInvalidFields, ModrmFields, SibFields,
                 DispFields, Imm3DNowFields, ImmFields, LateEvexFields
  <2>. QED  BY <2>2, <2>3
<1>2. CASE UNCHANGED vars
  <2>1. FrontInv /\ FieldInv /\ CheckedInv /\ ReadsInv
    BY <1>2 DEF vars, FieldsInv
  <2>2. /\ pc' = pc /\ length' = length /\ reads' = reads /\ pfx' = pfx /\ enc' = enc
        /\ mrm' = mrm /\ imd' = imd /\ inputs' = inputs
    BY <1>2 DEF vars, inputs
  <2>3. OpcodeEnd' = OpcodeEnd /\ OpcodeAt' = OpcodeAt
    BY <2>2, OpcodeStays
  <2>4. /\ ModrmEnd' = ModrmEnd /\ ModrmAt' = ModrmAt /\ SibEnd' = SibEnd /\ SibAt' = SibAt
    BY <2>2, <2>3, SibStays
  <2>5. DispEnd' = DispEnd /\ DispAt' = DispAt
    BY <2>2, <2>4, DispStays
  <2>6. ImmEnd' = ImmEnd /\ ImmAt' = ImmAt
    BY <2>2, <2>5 DEF ImmEnd, ImmAt
  <2>7. FrontInv' /\ CheckedInv'
    BY <2>1, <2>2 DEF FrontInv, CheckedInv, BeforeOpcode
  <2>8. FieldInv'
    BY <2>1, <2>2, <2>3, <2>4, <2>5, <2>6 DEF FieldInv, PastOpcode, BeforeOpcode
  <2>9. ReadsInv'
    <3>1. Byte(length)' = Byte(length)
      BY <2>2, BytesStay
    <3>. QED  BY <2>1, <2>2, <3>1 DEF ReadsInv, BeforeOpcode, LesScanned
  <2>. QED  BY <2>7, <2>8, <2>9
<1>. QED  BY <1>1, <1>2

LEMMA StartedFieldsInv == Started => FieldsInv
BY DEF Started, FieldsInv, FrontInv, FieldInv, PastOpcode, CheckedInv, ReadsInv, BeforeOpcode,
       NoPfx, NoEnc

(* While no error is found every field is where the one before it ends.    *)
LEMMA FieldsInvariant == Spec => []FieldsInv
<1>1. Init => FieldsInv
  BY InitStarted, StartedFieldsInv
<1>2. IldInv /\ PrefixInv /\ FieldsInv /\ [Next]_vars => FieldsInv'
  BY FieldsStep
<1>. QED  BY <1>1, <1>2, IldInvariant, PrefixInvariant, PTL DEF Spec

LEMMA LookaheadOfFields == ASSUME FieldsInv PROVE NoLookahead
BY DEF FieldsInv, ReadsInv, NoLookahead, Success, Done, BeforeOpcode

(* A length reported as good rests on exactly the bytes of the instruction: *)
(* no scanner has looked at a byte behind it, though several test one that  *)
(* they then leave to the next (the VEX, XOP and EVEX scanners in front of  *)
(* LES, LDS, BOUND and POP).                                                *)
THEOREM LooksNoFurther == Spec => []NoLookahead
<1>1. FieldsInv => NoLookahead
  BY LookaheadOfFields
<1>. QED  BY <1>1, FieldsInvariant, PTL

LEMMA VexOfFields == ASSUME PrefixInv, FieldsInv PROVE VexRefusesPrefixes
<1>. SUFFICES ASSUME Success PROVE /\ enc.vexvalid # Legacy =>
                                        ~HasPrefix({\h66, \hF2, \hF3}) /\ pfx.rex = 0
                                   /\ enc.rex2 = 1 => pfx.rex = 0
  BY DEF VexRefusesPrefixes
<1>1. CheckedInv /\ pc = "done"
  BY DEF FieldsInv, Success, Done
<1>2. HasPrefix({\h66, \hF2, \hF3}) => HasPrefix({\h66}) \/ HasPrefix({\hF2}) \/ HasPrefix({\hF3})
  BY DEF HasPrefix
<1>. QED  BY <1>1, <1>2 DEF CheckedInv, PrefixInv, PrefixHistory, FlagHistory

(* A successful VEX, EVEX or XOP instruction has no 66, F2 or F3 prefix     *)
(* anywhere before it and no REX, and REX2 no REX                           *)
(* (catch_invalid_rex_or_legacy_prefixes, rex2_scanner).                    *)
THEOREM VexPrefixesRefused == Spec => []VexRefusesPrefixes
<1>1. PrefixInv /\ FieldsInv => VexRefusesPrefixes
  BY VexOfFields
<1>. QED  BY <1>1, PrefixInvariant, FieldsInvariant, PTL

LEMMA RexOfFields == ASSUME PrefixInv, FieldsInv PROVE RexCounts
BY DEF PrefixInv, PrefixHistory, RexHistory, RexIsLast, PrefixResults, FieldsInv, CheckedInv,
       RexCounts, AfterPrefixes, Success

(* REX counts in 64-bit mode only and only as the very last prefix, and a   *)
(* successful legacy instruction is 64 bits wide only by such a REX         *)
(* (prefix_scanner).                                                        *)
THEOREM RexMeans == Spec => []RexCounts
<1>1. PrefixInv /\ FieldsInv => RexCounts
  BY RexOfFields
<1>. QED  BY <1>1, PrefixInvariant, FieldsInvariant, PTL

-----------------------------------------------------------------------------
(* The fields tile the instruction.  Each span is the bytes between two     *)
(* consecutive ends.                                                        *)
LEMMA SpansAreIntervals ==
    ASSUME IldInv, FieldInv, pc = "done", NEW i \in Int
    PROVE  /\ i \in PrefixPositions <=> 0 <= i /\ i < pfx.nprefixes
           /\ i \in Span(pfx.nprefixes, EscapeBytes) <=> pfx.nprefixes <= i /\ i < EscapeEnd
           /\ i \in Span(enc.pos_opcode, 1) <=>
                 IF enc.amd3dnow THEN DispEnd <= i /\ i < ImmEnd ELSE EscapeEnd <= i /\ i < OpcodeEnd
           /\ i \in (IF mrm.has_modrm # 0 THEN Span(mrm.pos_modrm, 1) ELSE {})
                 <=> OpcodeEnd <= i /\ i < ModrmEnd
           /\ i \in (IF mrm.has_sib THEN Span(mrm.pos_sib, 1) ELSE {}) <=> ModrmEnd <= i /\ i < SibEnd
           /\ i \in Span(imd.pos_disp, imd.disp_width) <=> SibEnd <= i /\ i < DispEnd
           /\ i \in (IF enc.amd3dnow THEN {} ELSE Span(imd.pos_imm, imd.imm_width))
                 <=> ~enc.amd3dnow /\ DispEnd <= i /\ i < DispEnd + imd.imm_width
           /\ i \in (IF enc.amd3dnow THEN {} ELSE Span(imd.pos_imm1, imd.imm1_bytes))
                 <=> ~enc.amd3dnow /\ DispEnd + imd.imm_width <= i /\ i < ImmEnd
<1>1. /\ OpcodeAt /\ ModrmAt /\ SibAt /\ DispAt /\ ImmAt
  BY DEF FieldInv
<1>2. /\ OpcodeEnd \in Nat /\ ModrmEnd \in Nat /\ SibEnd \in Nat /\ DispEnd \in Nat
      /\ imd.disp_width \in Nat /\ imd.imm_width \in Nat /\ imd.imm1_bytes \in Nat
      /\ EscapeBytes \in Nat /\ pfx.nprefixes \in Nat
  BY OpcodeEndNat
<1>3. /\ enc.pos_opcode \in Nat /\ mrm.pos_modrm \in Nat /\ mrm.pos_sib \in Nat
      /\ imd.pos_disp \in Nat /\ imd.pos_imm \in Nat /\ imd.pos_imm1 \in Nat
  BY MaxAssumption DEF IldInv, TypeOK, EncType, MrmType, ImdType, Pos
<1>4. i \in PrefixPositions <=> 0 <= i /\ i < pfx.nprefixes
  BY <1>2 DEF PrefixPositions
<1>5. i \in Span(pfx.nprefixes, EscapeBytes) <=> pfx.nprefixes <= i /\ i < EscapeEnd
  BY <1>2 DEF Span, EscapeEnd
<1>6. i \in Span(enc.pos_opcode, 1) <=>
         IF enc.amd3dnow THEN DispEnd <= i /\ i < ImmEnd ELSE EscapeEnd <= i /\ i < OpcodeEnd
  <2>1. EscapeEnd \in Nat
    BY <1>2 DEF EscapeEnd
  <2>2. i \in Span(enc.pos_opcode, 1) <=> enc.pos_opcode <= i /\ i < enc.pos_opcode + 1
    BY <1>3 DEF Span
  <2>. QED  BY <1>1, <1>2, <2>1, <2>2 DEF OpcodeAt, ImmAt, ImmEnd, OpcodeEnd
<1>7. i \in (IF mrm.has_modrm # 0 THEN Span(mrm.pos_modrm, 1) ELSE {})
         <=> OpcodeEnd <= i /\ i < ModrmEnd
  BY <1>1, <1>2, <1>3 DEF Span, ModrmAt, ModrmEnd
<1>8. i \in (IF mrm.has_sib THEN Span(mrm.pos_sib, 1) ELSE {}) <=> ModrmEnd <= i /\ i < SibEnd
  BY <1>1, <1>2, <1>3 DEF Span, SibAt, SibEnd
<1>9. i \in Span(imd.pos_disp, imd.disp_width) <=> SibEnd <= i /\ i < DispEnd
  BY <1>1, <1>2, <1>3 DEF Span, DispAt, DispEnd
<1>10. i \in (IF enc.amd3dnow THEN {} ELSE Span(imd.pos_imm, imd.imm_width))
          <=> ~enc.amd3dnow /\ DispEnd <= i /\ i < DispEnd + imd.imm_width
  BY <1>1, <1>2, <1>3 DEF Span, ImmAt
<1>11. i \in (IF enc.amd3dnow THEN {} ELSE Span(imd.pos_imm1, imd.imm1_bytes))
          <=> ~enc.amd3dnow /\ DispEnd + imd.imm_width <= i /\ i < ImmEnd
  BY <1>1, <1>2, <1>3 DEF Span, ImmAt, ImmEnd
<1>. QED  BY <1>4, <1>5, <1>6, <1>7, <1>8, <1>9, <1>10, <1>11

LEMMA ExactlyOne ==
    ASSUME NEW T, NEW i, NEW t \in T, i \in t[2], \A u \in T : i \in u[2] => u = t
    PROVE  Cardinality({s \in T : i \in s[2]}) = 1
<1>1. {s \in T : i \in s[2]} = {t}
  OBVIOUS
<1>. QED  BY <1>1, FS_Singleton

LEMMA TilesOfFields == ASSUME IldInv, FieldsInv PROVE FieldsTile
<1>. SUFFICES ASSUME Success
              PROVE  /\ \A s \in Spans : s[2] \subseteq 0..(length - 1)
                     /\ \A i \in 0..(length - 1) : Cardinality({s \in Spans : i \in s[2]}) = 1
  BY DEF FieldsTile
<1>. DEFINE A == PrefixPositions
            B == Span(pfx.nprefixes, EscapeBytes)
            C == Span(enc.pos_opcode, 1)
            D == IF mrm.has_modrm # 0 THEN Span(mrm.pos_modrm, 1) ELSE {}
            E == IF mrm.has_sib THEN Span(mrm.pos_sib, 1) ELSE {}
            F == Span(imd.pos_disp, imd.disp_width)
            G == IF enc.amd3dnow THEN {} ELSE Span(imd.pos_imm, imd.imm_width)
            H == IF enc.amd3dnow THEN {} ELSE Span(imd.pos_imm1, imd.imm1_bytes)
            a == <<"prefixes", A>>
            b == <<"escape", B>>
            c == <<"opcode", C>>
            d == <<"modrm", D>>
            e == <<"sib", E>>
            f == <<"disp", F>>
            g == <<"imm", G>>
            h == <<"imm1", H>>
<1>1. Spans = {a, b, c, d, e, f, g, h}
  BY DEF Spans
<1>. /\ a[2] = A /\ b[2] = B /\ c[2] = C /\ d[2] = D
     /\ e[2] = E /\ f[2] = F /\ g[2] = G /\ h[2] = H
  OBVIOUS
<1>2. pc = "done" /\ FieldInv /\ length = ImmEnd
  BY DEF Success, Done, FieldsInv, FieldInv
<1>3. /\ pfx.nprefixes \in Nat /\ EscapeEnd \in Nat /\ OpcodeEnd \in Nat /\ ModrmEnd \in Nat
      /\ SibEnd \in Nat /\ DispEnd \in Nat /\ ImmEnd \in Nat
      /\ imd.imm_width \in Nat /\ imd.imm1_bytes \in Nat
  BY OpcodeEndNat DEF EscapeEnd, ImmEnd
<1>4. /\ pfx.nprefixes <= EscapeEnd /\ EscapeEnd <= OpcodeEnd /\ OpcodeEnd <= ModrmEnd
      /\ ModrmEnd <= SibEnd /\ SibEnd <= DispEnd /\ DispEnd <= ImmEnd
      /\ IF enc.amd3dnow THEN OpcodeEnd = EscapeEnd ELSE DispEnd + imd.imm_width <= ImmEnd
  BY <1>3, OpcodeEndNat DEF EscapeEnd, OpcodeEnd, ModrmEnd, SibEnd, DispEnd, ImmEnd
<1>5. \A i \in Int :
         /\ i \in A <=> 0 <= i /\ i < pfx.nprefixes
         /\ i \in B <=> pfx.nprefixes <= i /\ i < EscapeEnd
         /\ i \in C <=> IF enc.amd3dnow THEN DispEnd <= i /\ i < ImmEnd
                                         ELSE EscapeEnd <= i /\ i < OpcodeEnd
         /\ i \in D <=> OpcodeEnd <= i /\ i < ModrmEnd
         /\ i \in E <=> ModrmEnd <= i /\ i < SibEnd
         /\ i \in F <=> SibEnd <= i /\ i < DispEnd
         /\ i \in G <=> ~enc.amd3dnow /\ DispEnd <= i /\ i < DispEnd + imd.imm_width
         /\ i \in H <=> ~enc.amd3dnow /\ DispEnd + imd.imm_width <= i /\ i < ImmEnd
  BY <1>2, SpansAreIntervals
<1>6. A \subseteq Int /\ B \subseteq Int /\ C \subseteq Int /\ D \subseteq Int
      /\ E \subseteq Int /\ F \subseteq Int /\ G \subseteq Int /\ H \subseteq Int
  BY DEF PrefixPositions, Span
<1>. HIDE DEF A, B, C, D, E, F, G, H, a, b, c, d, e, f, g, h
<1>7. \A s \in Spans : s[2] \subseteq 0..(length - 1)
  <2>1. A \subseteq 0..(length - 1) /\ B \subseteq 0..(length - 1)
    BY <1>2, <1>3, <1>4, <1>5, <1>6
  <2>2. C \subseteq 0..(length - 1) /\ D \subseteq 0..(length - 1)
    BY <1>2, <1>3, <1>4, <1>5, <1>6
  <2>3. E \subseteq 0..(length - 1) /\ F \subseteq 0..(length - 1)
    BY <1>2, <1>3, <1>4, <1>5, <1>6
  <2>4. G \subseteq 0..(length - 1) /\ H \subseteq 0..(length - 1)
    BY <1>2, <1>3, <1>4, <1>5, <1>6
  <2>. QED  BY <1>1, <2>1, <2>2, <2>3, <2>4
<1>8. ASSUME NEW i \in 0..(length - 1)
      PROVE  Cardinality({s \in Spans : i \in s[2]}) = 1
  <2>1. i \in Int /\ 0 <= i /\ i < ImmEnd
    BY <1>2, <1>3
  <2>2. CASE i < pfx.nprefixes
    <3>1. i \in A /\ i \notin B /\ i \notin C /\ i \notin D /\ i \notin E /\ i \notin F
          /\ i \notin G /\ i \notin H
      BY <1>3, <1>4, <1>5, <2>1, <2>2
    <3>2. a \in Spans /\ \A u \in Spans : i \in u[2] => u = a
      BY <1>1, <3>1
    <3>. QED  BY <3>1, <3>2, ExactlyOne
  <2>3. CASE pfx.nprefixes <= i /\ i < EscapeEnd
    <3>1. i \in B /\ i \notin A /\ i \notin C /\ i \notin D /\ i \notin E /\ i \notin F
          /\ i \notin G /\ i \notin H
      BY <1>3, <1>4, <1>5, <2>1, <2>3
    <3>2. b \in Spans /\ \A u \in Spans : i \in u[2] => u = b
      BY <1>1, <3>1
    <3>. QED  BY <3>1, <3>2, ExactlyOne
  <2>4. CASE (EscapeEnd <= i /\ i < OpcodeEnd) \/ (enc.amd3dnow /\ DispEnd <= i)
    <3>1. i \in C /\ i \notin A /\ i \notin B /\ i \notin D /\ i \notin E /\ i \notin F
          /\ i \notin G /\ i \notin H
      BY <1>3, <1>4, <1>5, <2>1, <2>4
    <3>2. c \in Spans /\ \A u \in Spans : i \in u[2] => u = c
      BY <1>1, <3>1
    <3>. QED  BY <3>1, <3>2, ExactlyOne
  <2>5. CASE OpcodeEnd <= i /\ i < ModrmEnd
    <3>1. i \in D /\ i \notin A /\ i \notin B /\ i \notin C /\ i \notin E /\ i \notin F
          /\ i \notin G /\ i \notin H
      BY <1>3, <1>4, <1>5, <2>1, <2>5
    <3>2. d \in Spans /\ \A u \in Spans : i \in u[2] => u = d
      BY <1>1, <3>1
    <3>. QED  BY <3>1, <3>2, ExactlyOne
  <2>6. CASE ModrmEnd <= i /\ i < SibEnd
    <3>1. i \in E /\ i \notin A /\ i \notin B /\ i \notin C /\ i \notin D /\ i \notin F
          /\ i \notin G /\ i \notin H
      BY <1>3, <1>4, <1>5, <2>1, <2>6
    <3>2. e \in Spans /\ \A u \in Spans : i \in u[2] => u = e
      BY <1>1, <3>1
    <3>. QED  BY <3>1, <3>2, ExactlyOne
  <2>7. CASE SibEnd <= i /\ i < DispEnd
    <3>1. i \in F /\ i \notin A /\ i \notin B /\ i \notin C /\ i \notin D /\ i \notin E
          /\ i \notin G /\ i \notin H
      BY <1>3, <1>4, <1>5, <2>1, <2>7
    <3>2. f \in Spans /\ \A u \in Spans : i \in u[2] => u = f
      BY <1>1, <3>1
    <3>. QED  BY <3>1, <3>2, ExactlyOne
  <2>8. CASE ~enc.amd3dnow /\ DispEnd <= i /\ i < DispEnd + imd.imm_width
    <3>1. i \in G /\ i \notin A /\ i \notin B /\ i \notin C /\ i \notin D /\ i \notin E
          /\ i \notin F /\ i \notin H
      BY <1>3, <1>4, <1>5, <2>1, <2>8
    <3>2. g \in Spans /\ \A u \in Spans : i \in u[2] => u = g
      BY <1>1, <3>1
    <3>. QED  BY <3>1, <3>2, ExactlyOne
  <2>9. CASE ~enc.amd3dnow /\ DispEnd + imd.imm_width <= i
    <3>1. i \in H /\ i \notin A /\ i \notin B /\ i \notin C /\ i \notin D /\ i \notin E
          /\ i \notin F /\ i \notin G
      BY <1>3, <1>4, <1>5, <2>1, <2>9
    <3>2. h \in Spans /\ \A u \in Spans : i \in u[2] => u = h
      BY <1>1, <3>1
    <3>. QED  BY <3>1, <3>2, ExactlyOne
  <2>. QED  BY <1>3, <2>1, <2>2, <2>3, <2>4, <2>5, <2>6, <2>7, <2>8, <2>9
<1>. QED  BY <1>7, <1>8

(* Every byte of a successfully decoded instruction belongs to exactly one  *)
(* of prefixes, escape bytes, opcode, ModRM, SIB, displacement and          *)
(* immediates, and none of these reaches past length: the positions and     *)
(* widths the scanners store are those of consecutive fields, 3DNow! with   *)
(* its opcode at the end included.                                          *)
THEOREM FieldsAreTheInstruction == Spec => []FieldsTile
<1>1. IldInv /\ FieldsInv => FieldsTile
  BY TilesOfFields
<1>. QED  BY <1>1, IldInvariant, FieldsInvariant, PTL

-----------------------------------------------------------------------------
(* The recorded position of a displacement or first immediate is 0 exactly *)
(* when there is none: an opcode byte stands before either, and nothing    *)
(* else is stored there.  A 3DNow! opcode in the place of an immediate has *)
(* a width and no position.                                                *)
PastOpcodes == pc # "prefix" /\ ~BeforeOpcode
PositionsInv ==
    error = "NONE" =>
       /\ PastOpcodes => length > 0
       /\ pc \in {"sib", "disp"} => imd.pos_disp = 0
       /\ pc \in {"sib", "disp", "imm"} => imd.pos_imm = 0
       /\ pc \in {"imm", "late_evex", "done"} => (imd.pos_disp # 0 <=> imd.disp_width # 0)
       /\ pc \in {"late_evex", "done"} => (imd.pos_imm # 0 <=> imd.imm_width # 0 /\ ~enc.amd3dnow)

-----------------------------------------------------------------------------
(* Up to the opcode nothing is stored, and the opcode is a byte. *)
LEMMA EarlyPositions ==
    ASSUME IldInv, FieldsInv, FieldsInv', PositionsInv, Next, error' = "NONE", pc \in Early, pc # "modrm"
    PROVE  PositionsInv'
<1>1. error = "NONE"
  BY ErrorStays
<1>2. length \in Nat /\ FrontInv /\ FrontInv'
  BY <1>1, Numbers DEF FieldsInv
<1>3. pc' \in Early
  <2>1. ~VexShort /\ ~EvexShort /\ ~EvexBadMap /\ ~OpcodeShort
    BY DEF VexShort, EvexShort, EvexBadMap, OpcodeShort, RunOut, BadMap, too_short
  <2>2. ~ModrmScanner /\ ~SibScanner /\ ~DispScanner /\ ~ImmScanner3DNow /\ ~ImmScanner /\ ~LateEvex
    BY DEF Early, ModrmScanner, SibScanner, DispScanner, ImmScanner3DNow, ImmScanner, LateEvex
  <2>3. CASE PrefixByte \/ PrefixesOut \/ VexNone \/ VexC4 \/ VexC5 \/ VexXop
    BY <2>3 DEF PrefixByte, PrefixesOut, VexNone, VexC4, VexC5, VexXop, too_short, BadMap, Early
  <2>4. CASE EvexNone \/ EvexScan \/ CatchInvalid \/ Rex2None
    BY <2>4 DEF EvexNone, EvexScan, CatchInvalid, Rex2None, Early
  <2>5. CASE Rex2 \/ OpcodeMap0 \/ OpcodeMap1 \/ OpcodeMap23 \/ Opcode3DNow
    BY <2>5 DEF Rex2, RunOut, too_short, OpcodeMap0, OpcodeMap1, OpcodeMap23, Opcode3DNow, Early
  <2>. QED  BY <2>1, <2>2, <2>3, <2>4, <2>5 DEF Next
<1>4. PastOpcodes' => length' > 0
  <2>1. CASE pc = "prefix"
    <3>1. pc' \in {"prefix", "vex"}
      <4>1. CASE PrefixByte \/ PrefixesOut
        BY <2>1, <4>1 DEF PrefixByte, PrefixesOut, too_short
      <4>2. CASE ~PrefixByte /\ ~PrefixesOut
        BY <2>1, <4>2 DEF Next, VexNone, VexShort, VexC4, VexC5, VexXop,
           EvexNone, EvexShort, EvexBadMap, EvexScan, CatchInvalid, Rex2None, Rex2, OpcodeMap0,
           OpcodeShort, AtEscape, OpcodeMap1, OpcodeMap23, Opcode3DNow, ModrmScanner, SibScanner,
           DispScanner, ImmScanner3DNow, ImmScanner, LateEvex
      <4>. QED  BY <4>1, <4>2
    <3>. QED  BY <3>1 DEF PastOpcodes, BeforeOpcode
  <2>2. CASE BeforeOpcode
    <3>1. VexNone \/ EvexNone \/ Rex2None \/ Opcode3DNow \/ \E e, k : TakesOpcode(e, k)
      BY <1>2, <2>2, OpcodeSteps
    <3>2. CASE VexNone \/ EvexNone \/ Rex2None
      BY <1>2, <2>2, <3>2 DEF VexNone, EvexNone, Rex2None, BeforeOpcode, PastOpcodes, FrontInv
    <3>3. CASE Opcode3DNow
      BY <1>2, <3>3 DEF Opcode3DNow
    <3>4. CASE \E e, k : TakesOpcode(e, k)
      <4>1. PICK k \in 0..4 : length' = length + k + 1
        BY <3>4 DEF TakesOpcode
      <4>. QED  BY <1>2, <4>1
    <3>. QED  BY <3>1, <3>2, <3>3, <3>4
  <2>3. CASE ~BeforeOpcode /\ pc # "prefix"
    <3>1. length > 0 /\ pc \in {"evex", "catch_invalid"} /\ (pc = "evex" => enc.vexvalid # Legacy)
      BY <1>1, <2>3 DEF PositionsInv, PastOpcodes, Early, BeforeOpcode
    <3>2. length' = length
      <4>1. CASE EvexNone \/ CatchInvalid
        BY <4>1 DEF EvexNone, CatchInvalid
      <4>2. CASE ~EvexNone /\ ~CatchInvalid
        BY <3>1, <4>2 DEF Next, PrefixByte, PrefixesOut, VexNone, VexShort, VexC4, VexC5, VexXop,
           EvexShort, EvexBadMap, EvexScan, IsEvex, Rex2None, Rex2, OpcodeMap0,
           OpcodeShort, AtEscape, OpcodeMap1, OpcodeMap23, Opcode3DNow, ModrmScanner, SibScanner,
           DispScanner, ImmScanner3DNow, ImmScanner, LateEvex
      <4>. QED  BY <4>1, <4>2
    <3>. QED  BY <3>1, <3>2
  <2>. QED  BY <2>1, <2>2, <2>3
<1>. QED  BY <1>2, <1>3, <1>4 DEF PositionsInv, Early

(* The scanners behind the opcode. *)
LEMMA ModrmSibPositions ==
    ASSUME IldInv, FieldsInv, PositionsInv, ModrmScanner \/ SibScanner, error' = "NONE", error = "NONE"
    PROVE  PositionsInv'
<1>1. /\ pc \in {"modrm", "sib"} /\ pc' \in {"sib", "disp"} /\ length' \in {length, length + 1}
      /\ imd' = imd \/ \E w : imd' = [imd EXCEPT !.disp_width = w]
  BY Zenon DEF ModrmScanner, SibScanner
<1>2. length \in Nat /\ length > 0 /\ imd \in ImdType
  BY <1>1, Numbers DEF IldInv, TypeOK, PositionsInv, PastOpcodes, BeforeOpcode
<1>3. imd.pos_disp = 0 /\ imd.pos_imm = 0
  BY <1>1 DEF FieldsInv, FrontInv, PositionsInv, Early, NoImd
<1>4. imd'.pos_disp = 0 /\ imd'.pos_imm = 0
  BY <1>1, <1>2, <1>3 DEF ImdType
<1>. QED  BY <1>1, <1>2, <1>4 DEF PositionsInv

LEMMA DispPositions ==
    ASSUME IldInv, PositionsInv, DispScanner, error' = "NONE", error = "NONE"
    PROVE  PositionsInv'
<1>1. ~too_short
  BY DEF too_short
<1>2. /\ pc = "disp" /\ pc' = "imm"
      /\ \/ length' = length /\ imd' = [imd EXCEPT !.disp_width = 0]
         \/ /\ DispBytes # 0 /\ length' = length + DispBytes
            /\ imd' = [imd EXCEPT !.disp_width = DispBytes, !.pos_disp = length]
  BY <1>1, Zenon DEF DispScanner
<1>3. /\ length \in Nat /\ length > 0 /\ imd \in ImdType /\ DispBytes \in Nat
      /\ imd.pos_disp = 0 /\ imd.pos_imm = 0
  <2>1. DispBytes \in Nat
    BY DispBytesRange, WidthsNat
  <2>. QED  BY <1>2, <2>1, Numbers DEF IldInv, TypeOK, PositionsInv, PastOpcodes, BeforeOpcode
<1>4. /\ imd'.pos_disp # 0 <=> imd'.disp_width # 0
      /\ imd'.pos_imm = 0
  <2>1. CASE imd' = [imd EXCEPT !.disp_width = 0]
    BY <1>3, <2>1 DEF ImdType
  <2>2. CASE imd' = [imd EXCEPT !.disp_width = DispBytes, !.pos_disp = length] /\ DispBytes # 0
    BY <1>3, <2>2 DEF ImdType
  <2>. QED  BY <1>2, <2>1, <2>2
<1>. QED  BY <1>2, <1>3, <1>4 DEF PositionsInv

LEMMA ImmPositions ==
    ASSUME IldInv, PositionsInv, ImmScanner \/ ImmScanner3DNow, error' = "NONE", error = "NONE"
    PROVE  PositionsInv'
<1>. DEFINE w == ImmBytes.imm
            w1 == ImmBytes.imm1
            widths == [imd EXCEPT !.imm_width = w, !.imm1_bytes = w1]
<1>1. ~too_short
  BY DEF too_short
<1>2. pc = "imm" /\ pc' \in {"late_evex", "done"}
  BY DEF ImmScanner, ImmScanner3DNow, AfterImm
<1>3. \/ ~enc.amd3dnow /\ enc' = enc /\ w = 0 /\ imd' = widths /\ length' = length
      \/ /\ ~enc.amd3dnow /\ enc' = enc /\ w # 0 /\ length' = length + w + w1
         /\ imd' = [widths EXCEPT !.pos_imm = length, !.pos_imm1 = IF w1 # 0 THEN length + w ELSE @]
      \/ /\ enc.amd3dnow /\ length' = length + 1 /\ imd' = widths
         /\ enc' = [enc EXCEPT !.opcode = Byte(length), !.pos_opcode = length]
  BY <1>1, Zenon DEF ImmScanner, ImmScanner3DNow
<1>4. /\ length \in Nat /\ length > 0 /\ imd \in ImdType /\ enc \in EncType
      /\ imd.pos_disp # 0 <=> imd.disp_width # 0
      /\ imd.pos_imm = 0
  BY <1>2, Numbers DEF IldInv, TypeOK, PositionsInv, PastOpcodes, BeforeOpcode
<1>5. w \in Nat /\ w1 \in Nat
  <2>1. w \in Widths /\ w1 \in Bit
    BY ImmBytesRange
  <2>2. w1 \in Nat
    BY <2>1 DEF Bit
  <2>. QED  BY <2>1, <2>2, WidthsNat
<1>. HIDE DEF w, w1
<1>6. /\ widths.imm_width = w /\ widths.pos_imm = 0 /\ DOMAIN widths = DOMAIN imd
      /\ widths.disp_width = imd.disp_width /\ widths.pos_disp = imd.pos_disp
  BY <1>4 DEF ImdType
<1>. HIDE DEF widths
<1>7. /\ imd'.imm_width = w /\ imd'.disp_width = imd.disp_width /\ imd'.pos_disp = imd.pos_disp
      /\ imd'.pos_imm = IF w = 0 \/ enc.amd3dnow THEN 0 ELSE length
  <2>1. CASE imd' = widths /\ (w = 0 \/ enc.amd3dnow)
    BY <1>6, <2>1
  <2>2. CASE \E q : imd' = [widths EXCEPT !.pos_imm = length, !.pos_imm1 = q] /\ w # 0 /\ ~enc.amd3dnow
    BY <1>4, <1>6, <2>2 DEF ImdType
  <2>. QED  BY <1>3, <2>1, <2>2
<1>8. enc'.amd3dnow = enc.amd3dnow
  BY <1>3, <1>4 DEF EncType
<1>9. length' > 0
  BY <1>3, <1>4, <1>5
<1>. QED  BY <1>2, <1>4, <1>7, <1>8, <1>9 DEF PositionsInv

LEMMA LateEvexPositions ==
    ASSUME IldInv, PositionsInv, LateEvex
    PROVE  PositionsInv'
<1>1. /\ pc = "late_evex" /\ pc' = "done" /\ imd' = imd /\ length' = length /\ error' = error
      /\ enc' = enc \/ \E x : enc' = [enc EXCEPT !.ubit = 1, !.rexx4 = x]
  BY Zenon DEF LateEvex
<1>2. enc'.amd3dnow = enc.amd3dnow
  BY <1>1 DEF IldInv, TypeOK, EncType
<1>. QED  BY <1>1, <1>2 DEF PositionsInv, PastOpcodes, BeforeOpcode

LEMMA StartedPositions == Started => PositionsInv
BY DEF Started, PositionsInv, PastOpcodes, BeforeOpcode

LEMMA PositionsStep ==
    IldInv /\ PrefixInv /\ FieldsInv /\ PositionsInv /\ [Next]_vars => PositionsInv'
<1>. SUFFICES ASSUME IldInv, PrefixInv, FieldsInv, PositionsInv, [Next]_vars PROVE PositionsInv'
  OBVIOUS
<1>1. CASE UNCHANGED vars
  BY <1>1 DEF vars, PositionsInv, PastOpcodes, BeforeOpcode
<1>2. CASE Next /\ error' = "NONE"
  <2>1. error = "NONE" /\ FieldsInv'
    BY <1>2, ErrorStays, FieldsStep
  <2>2. CASE pc \in Early /\ pc # "modrm"
    BY <1>2, <2>1, <2>2, EarlyPositions
  <2>3. CASE ~(pc \in Early /\ pc # "modrm")
    <3>1. ModrmScanner \/ SibScanner \/ DispScanner \/ ImmScanner3DNow \/ ImmScanner \/ LateEvex
      BY <1>2, <2>3 DEF Early, Next, PrefixByte, PrefixesOut, VexNone, VexShort, VexC4, VexC5, VexXop,
         EvexNone, EvexShort, EvexBadMap, EvexScan, CatchInvalid, Rex2None, Rex2, OpcodeMap0,
         OpcodeShort, AtEscape, OpcodeMap1, OpcodeMap23, Opcode3DNow
    <3>. QED  BY <1>2, <2>1, <3>1, ModrmSibPositions, DispPositions, ImmPositions, LateEvexPositions
  <2>. QED  BY <2>2, <2>3
<1>3. CASE error' # "NONE"
  BY <1>3 DEF PositionsInv
<1>. QED  BY <1>1, <1>2, <1>3

-----------------------------------------------------------------------------
(* What a decode of q can come to.  The invariants of a state of the scan,  *)
(* as a value; a step; and what steps lead to: all that a set of states     *)
(* closed under steps must contain.                                         *)
Before(s) == s.pc \in {"vex", "rex2", "opcode"} \/ (s.pc = "evex" /\ s.enc.vexvalid = Legacy)
Sane(q, s) ==
    /\ s \in ScanType /\ s.length <= q.max_bytes
    /\ Before(s) => s.length < q.max_bytes
    /\ s.out_of_bytes => s.error # "NONE"
    /\ s.error = "NONE" => /\ s.pc = "prefix" \/ Before(s) => s.enc.vexvalid = Legacy
                           /\ s.pc \in {"disp", "imm"} => s.reads = s.length
                           /\ s.pc \in Early \cup {"sib", "disp"} => s.imd.pos_disp = 0
                           /\ s.pc \in Early \cup {"sib", "disp", "imm"} => s.imd.pos_imm = 0
                           /\ s.pc = "imm" => s.imd.pos_disp + s.imd.disp_width <= s.length
Moves(q, s, t) ==
    /\ s.pc # "done" /\ Sane(q, s) /\ Sane(q, t)
    /\ t = Step(q, s)
    /\ s.length <= t.length /\ s.reads <= t.reads
    /\ t.imd.pos_disp = s.imd.pos_disp \/ (s.pc = "disp" /\ t.imd.pos_disp = s.length)
    /\ t.imd.pos_imm = s.imd.pos_imm \/ (s.pc = "imm" /\ t.imd.pos_imm = s.length)
    /\ s.out_of_bytes => t.out_of_bytes
    /\ t.error = "NONE" => s.error = "NONE"
Closed(q, C) == \A s \in C, t \in ScanType : Moves(q, s, t) => t \in C
Leads(q, s, t) == \A C \in SUBSET ScanType : s \in C /\ Closed(q, C) => t \in C

LEMMA LeadsToItself == ASSUME NEW q, NEW s PROVE Leads(q, s, s)
BY DEF Leads

LEMMA LeadsOn ==
    ASSUME NEW q, NEW s, NEW t, NEW u \in ScanType, Leads(q, s, t), Moves(q, t, u)
    PROVE  Leads(q, s, u)
BY DEF Leads, Closed

(* What is led to from s and is not s is led to from the step of s. *)
LEMMA LeadsThroughStep ==
    ASSUME NEW q, NEW s \in ScanType, NEW f, Leads(q, s, f), s # f
    PROVE  \E t \in ScanType : Moves(q, s, t) /\ Leads(q, t, f)
<1>. DEFINE C == {x \in ScanType : x = s \/ \E t \in ScanType : Moves(q, s, t) /\ Leads(q, t, x)}
<1>1. s \in C /\ C \in SUBSET ScanType
  OBVIOUS
<1>2. Closed(q, C)
  <2>. SUFFICES ASSUME NEW x \in C, NEW y \in ScanType, Moves(q, x, y) PROVE y \in C
    BY DEF Closed
  <2>1. CASE x = s
    BY <2>1, LeadsToItself
  <2>2. CASE x # s
    BY <2>2, LeadsOn
  <2>. QED  BY <2>1, <2>2
<1>3. f \in C
  BY <1>1, <1>2 DEF Leads
<1>. QED  BY <1>3

(* A decode comes to one answer. *)
LEMMA OneAnswer ==
    ASSUME NEW q, NEW s \in ScanType, NEW f \in ScanType, NEW g \in ScanType,
           Leads(q, s, f), Leads(q, s, g), f.pc = "done", g.pc = "done"
    PROVE  f = g
<1>. DEFINE C == {x \in ScanType : Leads(q, x, f)}
<1>1. Closed(q, C)
  <2>. SUFFICES ASSUME NEW x \in C, NEW y \in ScanType, Moves(q, x, y) PROVE y \in C
    BY DEF Closed
  <2>1. x # f
    BY DEF Moves
  <2>2. PICK t \in ScanType : Moves(q, x, t) /\ Leads(q, t, f)
    BY <2>1, LeadsThroughStep
  <2>. QED  BY <2>2 DEF Moves
<1>2. g \in C
  BY <1>1 DEF Leads
<1>3. g # f => \E t : Moves(q, g, t)
  BY <1>2, LeadsThroughStep
<1>. QED  BY <1>3 DEF Moves

-----------------------------------------------------------------------------
(* The steps of a decode in progress are steps in this sense. *)
LEMMA NeverBack == ASSUME IldInv, Next PROVE length <= length' /\ reads <= reads'
<1>1. length \in Nat /\ max_bytes \in Nat /\ length <= max_bytes /\ reads \in Nat
  BY Numbers
<1>2. \A n : Seen(n) /\ n \in Nat => reads <= reads'
  BY <1>1 DEF Seen
<1>3. CASE PrefixByte \/ PrefixesOut \/ VexNone \/ VexShort
  BY <1>1, <1>2, <1>3 DEF PrefixByte, PrefixesOut, VexNone, VexShort, RunOut
<1>4. CASE VexC4 \/ VexC5 \/ VexXop
  BY <1>1, <1>2, <1>4 DEF VexC4, VexC5, VexXop, BadMap
<1>5. CASE EvexNone \/ EvexShort \/ EvexBadMap \/ EvexScan
  BY <1>1, <1>2, <1>5 DEF EvexNone, EvexShort, EvexBadMap, EvexScan, RunOut, BadMap
<1>6. CASE CatchInvalid \/ Rex2None \/ Rex2
  BY <1>1, <1>2, <1>6 DEF CatchInvalid, Rex2None, Rex2, RunOut
<1>7. CASE OpcodeMap0 \/ OpcodeShort \/ OpcodeMap1 \/ OpcodeMap23 \/ Opcode3DNow
  BY <1>1, <1>2, <1>7 DEF OpcodeMap0, OpcodeShort, OpcodeMap1, OpcodeMap23, Opcode3DNow, RunOut
<1>8. CASE ModrmScanner \/ SibScanner \/ LateEvex
  BY <1>1, <1>2, <1>8 DEF ModrmScanner, SibScanner, LateEvex
<1>9. CASE DispScanner
  <2>1. DispBytes \in Nat
    BY DispBytesRange, WidthsNat
  <2>. QED  BY <1>1, <1>2, <1>9, <2>1 DEF DispScanner
<1>10. CASE ImmScanner \/ ImmScanner3DNow
  <2>1. pc = "imm"
    BY <1>10 DEF ImmScanner, ImmScanner3DNow
  <2>2. ImmBytes.imm \in Widths /\ ImmBytes.imm1 \in Bit
    BY <2>1, ImmBytesRange
  <2>3. ImmBytes.imm \in Nat /\ ImmBytes.imm1 \in Nat
    <3>1. ImmBytes.imm1 \in Nat
      BY <2>2 DEF Bit
    <3>. QED  BY <2>2, <3>1, WidthsNat
  <2>. QED  BY <1>1, <1>2, <1>10, <2>3 DEF ImmScanner, ImmScanner3DNow
<1>. QED  BY <1>3, <1>4, <1>5, <1>6, <1>7, <1>8, <1>9, <1>10 DEF Next

(* A step is never back at the start. *)
LEMMA NeverFreshAgain == ASSUME IldInv, Next PROVE ~(pc' = "prefix" /\ length' = 0)
<1>1. length \in Nat
  BY Numbers
<1>2. CASE PrefixByte \/ PrefixesOut
  BY <1>1, <1>2 DEF PrefixByte, PrefixesOut
<1>3. CASE VexNone \/ VexShort \/ VexC4 \/ VexC5 \/ VexXop
  BY <1>3 DEF VexNone, VexShort, VexC4, VexC5, VexXop, RunOut, BadMap
<1>4. CASE EvexNone \/ EvexShort \/ EvexBadMap \/ EvexScan \/ CatchInvalid \/ Rex2None \/ Rex2
  BY <1>4 DEF EvexNone, EvexShort, EvexBadMap, EvexScan, CatchInvalid, Rex2None, Rex2, RunOut, BadMap
<1>5. CASE OpcodeMap0 \/ OpcodeShort \/ OpcodeMap1 \/ OpcodeMap23 \/ Opcode3DNow \/ LateEvex
  BY <1>5 DEF OpcodeMap0, OpcodeShort, OpcodeMap1, OpcodeMap23, Opcode3DNow, LateEvex, RunOut
<1>6. CASE ModrmScanner \/ SibScanner \/ DispScanner \/ ImmScanner \/ ImmScanner3DNow
  BY <1>6 DEF ModrmScanner, SibScanner, DispScanner, ImmScanner, ImmScanner3DNow, AfterImm
<1>. QED  BY <1>2, <1>3, <1>4, <1>5, <1>6 DEF Next

(* The positions are set where the scanners of the fields stand. *)
LEMMA PositionsStay ==
    ASSUME Next, IldInv
    PROVE  /\ imd'.pos_disp = imd.pos_disp \/ (pc = "disp" /\ imd'.pos_disp = length)
           /\ imd'.pos_imm = imd.pos_imm \/ (pc = "imm" /\ imd'.pos_imm = length)
<1>1. imd \in ImdType
  BY DEF IldInv, TypeOK
<1>2. CASE PrefixByte \/ PrefixesOut \/ VexNone \/ VexShort \/ VexC4 \/ VexC5 \/ VexXop
  BY <1>2 DEF PrefixByte, PrefixesOut, VexNone, VexShort, VexC4, VexC5, VexXop, RunOut, BadMap
<1>3. CASE EvexNone \/ EvexShort \/ EvexBadMap \/ EvexScan \/ CatchInvalid \/ Rex2None \/ Rex2
  BY <1>3 DEF EvexNone, EvexShort, EvexBadMap, EvexScan, CatchInvalid, Rex2None, Rex2, RunOut, BadMap
<1>4. CASE OpcodeMap0 \/ OpcodeShort \/ OpcodeMap1 \/ OpcodeMap23 \/ Opcode3DNow \/ LateEvex
  BY <1>4 DEF OpcodeMap0, OpcodeShort, OpcodeMap1, OpcodeMap23, Opcode3DNow, LateEvex, RunOut
<1>5. CASE ModrmScanner \/ SibScanner
  <2>1. imd' = imd \/ \E w : imd' = [imd EXCEPT !.disp_width = w]
    BY <1>5, Zenon DEF ModrmScanner, SibScanner
  <2>. QED  BY <1>1, <2>1 DEF ImdType
<1>6. CASE DispScanner
  <2>1. pc = "disp" /\ \E w : \/ imd' = [imd EXCEPT !.disp_width = w]
                             \/ imd' = [imd EXCEPT !.disp_width = w, !.pos_disp = length]
    BY <1>6, Zenon DEF DispScanner
  <2>. QED  BY <1>1, <2>1 DEF ImdType
<1>7. CASE ImmScanner \/ ImmScanner3DNow
  <2>. DEFINE widths == [imd EXCEPT !.imm_width = ImmBytes.imm, !.imm1_bytes = ImmBytes.imm1]
  <2>1. /\ pc = "imm"
        /\ \/ imd' = widths
           \/ imd' = [widths EXCEPT !.pos_imm = length]
           \/ \E x : imd' = [widths EXCEPT !.pos_imm = length, !.pos_imm1 = x]
    BY <1>7, Zenon DEF ImmScanner, ImmScanner3DNow
  <2>2. /\ DOMAIN widths = DOMAIN imd /\ widths.pos_disp = imd.pos_disp /\ widths.pos_imm = imd.pos_imm
    BY <1>1 DEF ImdType
  <2>. HIDE DEF widths
  <2>3. {"pos_disp", "pos_imm"} \subseteq DOMAIN imd
    BY <1>1 DEF ImdType
  <2>. QED  BY <2>1, <2>2, <2>3
<1>. QED  BY <1>2, <1>3, <1>4, <1>5, <1>6, <1>7 DEF Next

LEMMA ScanResult == (Scan.out_of_bytes <=> out_of_bytes) /\ Scan.error = error
BY DEF Scan, State

LEMMA SaneScan == IldInv /\ FieldsInv /\ PositionsInv /\ OutOfBytesInv => Sane(Asked, Scan)
<1>. SUFFICES ASSUME IldInv, FieldsInv, PositionsInv, OutOfBytesInv PROVE Sane(Asked, Scan)
  OBVIOUS
<1>1. Scan \in ScanType
  BY DEF IldInv, TypeOK, Scan, State, ScanType
<1>2. Before(Scan) <=> BeforeOpcode
  BY ScanFields DEF Before, BeforeOpcode
<1>3. length <= max_bytes /\ (BeforeOpcode => length < max_bytes)
  BY DEF IldInv, InBounds, ByteLeft
<1>4. out_of_bytes => error # "NONE"
  BY DEF OutOfBytesInv, ShortError
<1>5. error = "NONE" => /\ pc = "prefix" \/ BeforeOpcode => enc.vexvalid = Legacy
                        /\ pc \in {"disp", "imm"} => reads = length
  BY DEF FieldsInv, FrontInv, ReadsInv, BeforeOpcode
<1>6. error = "NONE" => /\ pc \in Early \cup {"sib", "disp"} => imd.pos_disp = 0
                        /\ pc \in Early \cup {"sib", "disp", "imm"} => imd.pos_imm = 0
  BY DEF FieldsInv, FrontInv, PositionsInv, NoImd
<1>7. error = "NONE" /\ pc = "imm" => imd.pos_disp + imd.disp_width <= length
  <2>. SUFFICES ASSUME error = "NONE", pc = "imm" PROVE imd.pos_disp + imd.disp_width <= length
    OBVIOUS
  <2>1. /\ length = SibEnd + imd.disp_width /\ (imd.disp_width # 0 => imd.pos_disp = SibEnd)
        /\ imd.pos_disp # 0 <=> imd.disp_width # 0
    BY DEF FieldsInv, FieldInv, DispEnd, DispAt, PositionsInv
  <2>2. SibEnd \in Nat /\ imd.disp_width \in Nat /\ imd.pos_disp \in Nat
    <3>1. imd.pos_disp \in Nat
      BY MaxAssumption DEF IldInv, TypeOK, ImdType, Pos
    <3>. QED  BY <3>1, OpcodeEndNat DEF SibEnd, ModrmEnd
  <2>. QED  BY <2>1, <2>2
<1>. QED  BY <1>1, <1>2, <1>3, <1>4, <1>5, <1>6, <1>7, ScanFields, ScanResult DEF Sane

LEMMA ScanMoves ==
    ASSUME IldInv, FieldsInv, PositionsInv, OutOfBytesInv,
           IldInv', FieldsInv', PositionsInv', OutOfBytesInv', Next
    PROVE  Moves(Asked, Scan, Scan')
<1>1. pc # "done"
  BY DEF Next, PrefixByte, PrefixesOut, VexNone, VexShort, VexC4, VexC5, VexXop,
     EvexNone, EvexShort, EvexBadMap, EvexScan, CatchInvalid, Rex2None, Rex2, OpcodeMap0,
     OpcodeShort, AtEscape, OpcodeMap1, OpcodeMap23, Opcode3DNow, ModrmScanner, SibScanner,
     DispScanner, ImmScanner3DNow, ImmScanner, LateEvex
<1>2. Scan' = Step(Asked, Scan) /\ Asked' = Asked
  BY StepIsTheScan
<1>3. Sane(Asked, Scan) /\ Sane(Asked, Scan)'
  BY SaneScan, PTL
<1>4. Sane(Asked, Scan')
  BY <1>2, <1>3 DEF Sane, Before
<1>5. /\ Scan'.length = length' /\ Scan'.reads = reads' /\ Scan'.error = error'
      /\ Scan'.out_of_bytes <=> out_of_bytes'
  BY DEF Scan, State
<1>6. length <= length' /\ reads <= reads' /\ (error' = "NONE" => error = "NONE")
      /\ (out_of_bytes => out_of_bytes')
  BY NeverBack, ErrorStays, OutOfBytesStep
<1>7. /\ Scan'.imd.pos_disp = imd.pos_disp \/ (pc = "disp" /\ Scan'.imd.pos_disp = length)
      /\ Scan'.imd.pos_imm = imd.pos_imm \/ (pc = "imm" /\ Scan'.imd.pos_imm = length)
  <2>1. Scan'.imd = imd'
    BY DEF Scan, State
  <2>. QED  BY <2>1, PositionsStay
<1>. QED  BY <1>1, <1>2, <1>3, <1>4, <1>5, <1>6, <1>7, ScanFields, ScanResult DEF Moves

(* A decode in progress, and one that has just been started. *)
ScanInv == /\ IldInv /\ PrefixInv /\ FieldsInv /\ PositionsInv /\ OutOfBytesInv
           /\ Leads(Asked, StartOfScan, Scan)

LEMMA StartIsScan == StartOfScan \in ScanType
<1>1. NoInfo \in InfoType
  BY DEF NoInfo, Info, InfoType, No
<1>2. NoPfx \in PfxType
  BY MaxAssumption DEF NoPfx, PfxType, Pos, Bit
<1>3. NoEnc \in EncType
  BY <1>1, MaxAssumption DEF NoEnc, EncType, Pos, Bit, Spaces, Legacy, MapIds, Byte256
<1>4. NoMrm \in MrmType
  BY MaxAssumption DEF NoMrm, MrmType, Pos
<1>5. NoImd \in ImdType
  BY MaxAssumption DEF NoImd, ImdType, Pos, Widths, Bit
<1>6. 0 \in Pos
  BY MaxAssumption DEF Pos
<1>. QED  BY <1>2, <1>3, <1>4, <1>5, <1>6 DEF StartOfScan, State, ScanType, Pcs, Errors

LEMMA ScanStarts == Started => ScanInv
<1>. SUFFICES ASSUME Started PROVE ScanInv
  OBVIOUS
<1>1. IldInv /\ PrefixInv /\ FieldsInv /\ PositionsInv
  BY StartedInv, StartedPrefixInv, StartedFieldsInv, StartedPositions
<1>2. OutOfBytesInv
  BY DEF Started, OutOfBytesInv, ShortErrors
<1>3. Scan = StartOfScan
  BY Zenon DEF Started, Scan, StartOfScan
<1>. QED  BY <1>1, <1>2, <1>3, LeadsToItself DEF ScanInv

LEMMA ScanStep == ScanInv /\ [Next]_vars => ScanInv'
<1>. SUFFICES ASSUME ScanInv, [Next]_vars PROVE ScanInv'
  OBVIOUS
<1>1. IldInv' /\ PrefixInv' /\ FieldsInv' /\ PositionsInv'
  BY NextInv, PrefixInvStep, FieldsStep, PositionsStep DEF ScanInv
<1>2. CASE Next
  <2>1. OutOfBytesInv'
    BY <1>2, OutOfBytesStep DEF ScanInv
  <2>2. Moves(Asked, Scan, Scan') /\ Asked' = Asked
    BY <1>1, <1>2, <2>1, ScanMoves, StepIsTheScan DEF ScanInv
  <2>3. Leads(Asked, StartOfScan, Scan')
    <3>1. Scan' \in ScanType
      BY <2>2 DEF Moves, Sane
    <3>. QED  BY <2>2, <3>1, LeadsOn DEF ScanInv
  <2>4. Leads(Asked, StartOfScan, Scan)'
    <3>. DEFINE q == Asked'
                t == Scan'
    <3>1. Leads(q, StartOfScan, t)
      BY <2>2, <2>3
    <3>. QED  BY <3>1 DEF Leads, Closed
  <2>. QED  BY <1>1, <2>1, <2>4 DEF ScanInv
<1>3. CASE UNCHANGED vars
  <2>1. OutOfBytesInv'
    BY <1>3 DEF ScanInv, vars, OutOfBytesInv, ShortError
  <2>2. Scan' = Scan /\ Asked' = Asked
    BY <1>3, Zenon DEF vars, Scan, Asked
  <2>3. Leads(Asked, StartOfScan, Scan)'
    <3>. DEFINE q == Asked'
                t == Scan'
    <3>1. Leads(q, StartOfScan, t)
      BY <2>2 DEF ScanInv
    <3>. QED  BY <3>1 DEF Leads, Closed
  <2>. QED  BY <1>1, <2>1, <2>3 DEF ScanInv
<1>. QED  BY <1>2, <1>3

(* What a user of these proofs needs of a decode, in one statement that a  *)
(* second decode can cite for its variables.                               *)
LEMMA ScanFacts ==
    /\ Started => ScanInv
    /\ ScanInv /\ [Next]_vars => ScanInv'
    /\ ScanInv /\ Next => ~(pc' = "prefix" /\ length' = 0) /\ UNCHANGED inputs
    /\ ScanInv => /\ Scan \in ScanType /\ Leads(Asked, StartOfScan, Scan)
                  /\ max_bytes \in Nat
                  /\ pc = "done" /\ error = "NONE" => reads = length
<1>1. ScanInv /\ Next => ~(pc' = "prefix" /\ length' = 0) /\ UNCHANGED inputs
  BY NeverFreshAgain, InputsStay DEF ScanInv
<1>2. ASSUME ScanInv
      PROVE  /\ Scan \in ScanType /\ Leads(Asked, StartOfScan, Scan) /\ max_bytes \in Nat
             /\ pc = "done" /\ error = "NONE" => reads = length
  <2>1. Sane(Asked, Scan)
    BY <1>2, SaneScan DEF ScanInv
  <2>2. pc = "done" /\ error = "NONE" => reads = length
    BY <1>2, LookaheadOfFields DEF ScanInv, NoLookahead, Success, Done
  <2>. QED  BY <1>2, <2>1, <2>2, Numbers DEF ScanInv, Sane
<1>. QED  BY <1>1, <1>2, ScanStarts, ScanStep
=============================================================================
