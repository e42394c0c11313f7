---------------------------- MODULE XedIldProofs ----------------------------
(***************************************************************************)
(* Proofs about the instruction length decoder for every maximal length,   *)
(* every text and offered length, every chip configuration, and every      *)
(* contents of the generated ModRM, displacement and immediate tables.     *)
(***************************************************************************)
EXTENDS XedIldFunction, TLAPS

(* The states in which the next byte is the first of VEX, EVEX, REX2 or of *)
(* the opcode: the scanners there read it without comparing length with    *)
(* max_bytes.  The fallthrough of the EVEX scanner is one only when no VEX *)
(* or XOP prefix was taken.                                                *)
BeforeOpcode == pc \in {"vex", "rex2", "opcode"} \/ (pc = "evex" /\ enc.vexvalid = Legacy)

(* prefix_scanner hands over to the others only when a byte is left *)
ByteLeft == BeforeOpcode => length < max_bytes

(* in the prefix loop every byte so far was a prefix *)
PrefixCount == pc = "prefix" => pfx.nprefixes = length /\ pfx.nrexes <= length

(* the map codes are those of the map, or not yet set *)
MapCodes ==
    /\ enc.info \in {NoInfo, MapInfo(enc.vexvalid, enc.map)}
    /\ pc = "prefix" \/ BeforeOpcode => enc.info = NoInfo
    /\ pc \in {"rex2", "opcode"} => enc.vexvalid = Legacy

(* the inductive invariant *)
IldInv == TypeOK /\ InBounds /\ ByteLeft /\ PrefixCount /\ MapCodes

-----------------------------------------------------------------------------
(* Bit fields of a byte. *)
LEMMA BitsRange ==
    ASSUME NEW b \in Byte256
    PROVE  /\ Bits(b, 0, 2) \in 0..3 /\ Bits(b, 5, 2) \in 0..3 /\ Bits(b, 6, 2) \in 0..3
           /\ Bits(b, 0, 3) \in 0..7 /\ Bits(b, 3, 3) \in 0..7
           /\ Bits(b, 0, 4) \in 0..15 /\ Bits(b, 0, 5) \in 0..31
           /\ Bits(b, 2, 1) \in Bit /\ Bits(b, 3, 1) \in Bit
           /\ Bits(b, 4, 1) \in Bit /\ Bits(b, 7, 1) \in Bit
BY DEF Bits, Byte256, Bit

(* A byte of the text, or the 0 that stands for one past its end. *)
LEMMA ByteRange ==
    ASSUME itext \in Seq(Byte256), NEW i \in Nat
    PROVE  Byte(i) \in Byte256
<1>1. CASE i < Len(itext)
  <2>1. Len(itext) \in Nat /\ i + 1 \in 1..Len(itext)
    BY <1>1
  <2>2. itext[i + 1] \in Byte256
    BY <2>1
  <2>. QED  BY <1>1, <2>2 DEF Byte
<1>2. CASE ~(i < Len(itext))
  BY <1>2 DEF Byte, Byte256
<1>. QED  BY <1>1, <1>2

(* The map descriptions, for every map of every space. *)
LEMMA MapInfoRange ==
    ASSUME NEW vv \in Spaces, NEW map \in MapIds
    PROVE  MapInfo(vv, map) \in InfoType
BY DEF MapInfo, InfoType, Info, NoInfo, No, Yes, Var, ImmVar, Spaces, MapIds,
       Legacy, Vex, Evex, Xop, Amd3DNow

(* The recoding of a segment prefix. *)
LEMMA SegOvdRange == ASSUME NEW b \in SegPrefixes PROVE SegOvd(b) \in 0..6
BY DEF SegOvd, SegPrefixes

(* The regular displacement of a ModRM byte. *)
LEMMA DispRegularRange ==
    ASSUME NEW ea \in Modes, NEW mod \in 0..3, NEW rm \in 0..7
    PROVE  HasDispRegular(ea, mod, rm) \in Widths
BY DEF HasDispRegular, Widths, Modes, Mode16, Mode32, Mode64

LEMMA EaModeRange == ASSUME NEW mode \in Modes, NEW asz \in Bit PROVE EaMode(mode, asz) \in Modes
BY DEF EaMode, Modes, Mode16, Mode32, Mode64, Bit

-----------------------------------------------------------------------------
(* The state in which the decoder is entered, as its callers leave it. *)
Started ==
    /\ itext \in Seq(Byte256) /\ max_bytes \in Pos /\ cfg \in Config
    /\ pc = "prefix" /\ length = 0 /\ reads = 0
    /\ out_of_bytes = FALSE /\ error = "NONE"
    /\ pfx = NoPfx /\ enc = NoEnc /\ mrm = NoMrm /\ imd = NoImd

(* The length offered is cut at the longest instruction. *)
LEMMA MaxBytesRange == ASSUME NEW bytes \in Nat PROVE MaxBytes(bytes) \in Pos
BY MaxAssumption DEF MaxBytes, Pos

LEMMA InitStarted == Init => Started
<1>. SUFFICES ASSUME Init PROVE Started
  OBVIOUS
<1>1. PICK in \in Inputs : itext = in.itext /\ max_bytes = MaxBytes(in.bytes)
  BY DEF Init
<1>2. itext \in Seq(Byte256) /\ in.bytes \in Nat
  BY <1>1, InputAssumption
<1>3. max_bytes \in Pos
  BY <1>1, <1>2, MaxBytesRange
<1>. QED  BY <1>2, <1>3, ConfigAssumption DEF Init, Started

LEMMA StartedInv == Started => IldInv
<1>. SUFFICES ASSUME Started PROVE IldInv
  OBVIOUS
<1>1. NoInfo \in InfoType
  BY DEF NoInfo, Info, InfoType, No
<1>2. NoPfx \in PfxType
  BY MaxAssumption DEF NoPfx, PfxType, Pos, Bit
<1>3. NoEnc \in EncType
  BY <1>1, MaxAssumption DEF NoEnc, EncType, Pos, Bit, Spaces, Legacy, MapIds, Byte256
<1>4. NoMrm \in MrmType
  BY MaxAssumption DEF NoMrm, MrmType, Pos
<1>5. NoImd \in ImdType
  BY MaxAssumption DEF NoImd, ImdType, Pos, Widths, Bit
<1>6. TypeOK
  <2>1. 0 \in Pos
    BY MaxAssumption DEF Pos
  <2>. QED  BY <1>2, <1>3, <1>4, <1>5, <2>1, Zenon DEF Started, TypeOK, Pcs, Errors
<1>7. InBounds
  BY MaxAssumption DEF Started, InBounds, Pos
<1>8. ByteLeft /\ PrefixCount /\ MapCodes
  BY DEF Started, ByteLeft, BeforeOpcode, PrefixCount, MapCodes, NoPfx, NoEnc
<1>. QED  BY <1>6, <1>7, <1>8 DEF IldInv

LEMMA InitInv == Init => IldInv
BY InitStarted, StartedInv

-----------------------------------------------------------------------------
(* The prefix loop. *)
LEMMA AfterPrefixType ==
    ASSUME pfx \in PfxType, pfx.nrexes + 1 \in Pos, NEW b \in LegacyPrefixes \cup RexPrefixes
    PROVE  /\ AfterPrefix(b) \in PfxType
           /\ AfterPrefix(b).nprefixes = pfx.nprefixes
           /\ AfterPrefix(b).nrexes \in {pfx.nrexes, pfx.nrexes + 1}
<1>1. CASE b = \h66
  <2>1. AfterPrefix(b) = [pfx EXCEPT !.osz = 1, !.prefix66 = 1]
    BY <1>1 DEF AfterPrefix, SegPrefixes
  <2>. QED  BY <2>1 DEF PfxType, Bit
<1>2. CASE b = \h67
  <2>1. AfterPrefix(b) = [pfx EXCEPT !.asz = 1]
    BY <1>2 DEF AfterPrefix, SegPrefixes
  <2>. QED  BY <2>1 DEF PfxType, Bit
<1>3. CASE b \in SegPrefixes
  <2>1. AfterPrefix(b) = SegmentPrefix(b)
    BY <1>3 DEF AfterPrefix, SegPrefixes
  <2>2. SegHint(b) \in 0..2
    <3>1. pfx.hint \in 0..2
      BY DEF PfxType
    <3>. QED  BY <1>3, <3>1 DEF SegHint, SegPrefixes
  <2>3. SegKept(b) \in {0} \cup SegPrefixes
    BY <1>3 DEF SegKept, PfxType
  <2>. QED  BY <2>1, <2>2, <2>3 DEF SegmentPrefix, PfxType
<1>4. CASE b = \hF0
  BY <1>4 DEF AfterPrefix, PfxType, Bit, SegPrefixes
<1>5. CASE b \in {\hF2, \hF3}
  <2>1. AfterPrefix(b) = RepPrefix(b)
    BY <1>5 DEF AfterPrefix, SegPrefixes
  <2>2. PICK v \in {2, 3}, x \in Bit, y \in Bit, z \in {0, 2, 3} :
           RepPrefix(b) = [pfx EXCEPT !.f2 = x, !.f3 = y, !.last_f2f3 = v, !.first_f2f3 = z]
    BY DEF RepPrefix, PfxType, Bit
  <2>. DEFINE p == [pfx EXCEPT !.f2 = x, !.f3 = y]
  <2>3. p \in PfxType /\ p.nprefixes = pfx.nprefixes /\ p.nrexes = pfx.nrexes
    BY DEF PfxType
  <2>4. RepPrefix(b) = [p EXCEPT !.last_f2f3 = v, !.first_f2f3 = z]
    BY <2>2
  <2>. HIDE DEF p
  <2>5. [p EXCEPT !.last_f2f3 = v, !.first_f2f3 = z] \in PfxType
    BY <2>3 DEF PfxType
  <2>6. [p EXCEPT !.last_f2f3 = v, !.first_f2f3 = z].nprefixes = p.nprefixes
    BY <2>3 DEF PfxType
  <2>7. [p EXCEPT !.last_f2f3 = v, !.first_f2f3 = z].nrexes = p.nrexes
    BY <2>3 DEF PfxType
  <2>. QED  BY <2>1, <2>3, <2>4, <2>5, <2>6, <2>7
<1>6. CASE b \in RexPrefixes
  <2>1. AfterPrefix(b) = [pfx EXCEPT !.nrexes = @ + 1]
    BY <1>6 DEF AfterPrefix, SegPrefixes, RexPrefixes
  <2>. QED  BY <2>1 DEF PfxType
<1>. QED  BY <1>1, <1>2, <1>3, <1>4, <1>5, <1>6 DEF LegacyPrefixes

LEMMA PrefixByteInv == IldInv /\ PrefixByte => IldInv'
<1>. SUFFICES ASSUME IldInv, PrefixByte PROVE IldInv'
  OBVIOUS
<1>. USE DEF IldInv
<1>1. max_bytes \in Nat /\ length \in Nat /\ reads \in Nat /\ length + 1 \in Pos
  BY MaxAssumption DEF TypeOK, Pos, PrefixByte
<1>2. length' = length + 1 /\ reads' \in Pos /\ reads' <= max_bytes
  BY <1>1 DEF PrefixByte, Seen, InBounds, TypeOK, Pos
<1>3. PICK b : b = Byte(length)
  OBVIOUS
<1>4. b \in LegacyPrefixes \cup RexPrefixes
  BY <1>3 DEF PrefixByte, IsPrefixByte
<1>5. pfx.nprefixes = length /\ pfx.nrexes \in Nat /\ pfx.nrexes <= length
  BY DEF PrefixByte, PrefixCount, TypeOK, PfxType, Pos
<1>6. pfx.nrexes + 1 \in Pos
  BY <1>1, <1>5, MaxAssumption DEF Pos
<1>7. /\ AfterPrefix(b) \in PfxType
      /\ AfterPrefix(b).nprefixes = length
      /\ AfterPrefix(b).nrexes \in {pfx.nrexes, pfx.nrexes + 1}
  BY <1>4, <1>5, <1>6, AfterPrefixType DEF TypeOK
<1>8. PICK r \in {0} \cup RexPrefixes :
         pfx' = [AfterPrefix(b) EXCEPT !.nprefixes = @ + 1, !.rexbyte = r]
  BY <1>3 DEF PrefixByte
<1>9. /\ pfx' \in PfxType
      /\ pfx'.nprefixes = length + 1
      /\ pfx'.nrexes = AfterPrefix(b).nrexes
  BY <1>1, <1>7, <1>8 DEF PfxType
<1>10. TypeOK'
  BY <1>1, <1>2, <1>9 DEF PrefixByte, TypeOK, inputs
<1>11. InBounds'
  BY <1>1, <1>2 DEF PrefixByte, InBounds, inputs
<1>12. PrefixCount'
  BY <1>1, <1>2, <1>5, <1>7, <1>9 DEF PrefixCount
<1>13. ByteLeft' /\ MapCodes'
  BY DEF PrefixByte, ByteLeft, BeforeOpcode, MapCodes
<1>. QED  BY <1>10, <1>11, <1>12, <1>13

LEMMA PrefixesOutInv == IldInv /\ PrefixesOut => IldInv'
<1>. SUFFICES ASSUME IldInv, PrefixesOut PROVE IldInv'
  OBVIOUS
<1>. USE DEF IldInv
<1>1. max_bytes \in Nat /\ length \in Nat /\ reads \in Nat
  BY MaxAssumption DEF TypeOK, Pos
<1>2. reads' \in Pos /\ reads' <= max_bytes
  <2>1. reads' = reads \/ (length < max_bytes /\ reads' = length + 1)
    BY <1>1 DEF PrefixesOut, Seen
  <2>. QED  BY <1>1, <2>1, MaxAssumption DEF InBounds, TypeOK, Pos
<1>3. pfx' \in PfxType
  <2>1. PICK x \in Bit, r \in {0, 2, 3}, s \in 0..6 :
           pfx' = [pfx EXCEPT !.rex = x, !.rep = r, !.seg_ovd = s]
    BY SegOvdRange DEF PrefixesOut, TypeOK, PfxType, Bit
  <2>. QED  BY <2>1 DEF TypeOK, PfxType
<1>4. enc' \in EncType /\ enc'.info = enc.info /\ enc'.vexvalid = enc.vexvalid /\ enc'.map = enc.map
  <2>1. PICK w \in Bit : enc' = [enc EXCEPT !.rexw = w]
    <3>1. pfx.rexbyte \in Byte256
      BY DEF TypeOK, PfxType, RexPrefixes, Byte256
    <3>. QED  BY <3>1, BitsRange DEF PrefixesOut, TypeOK, EncType
  <2>. QED  BY <2>1 DEF TypeOK, EncType
<1>5. out_of_bytes' \in BOOLEAN /\ error' \in Errors
  BY DEF PrefixesOut, too_short, TypeOK, Errors
<1>6. pc' \in {"vex", "done"} /\ (pc' = "vex" => length < max_bytes)
  BY <1>1 DEF PrefixesOut
<1>7. TypeOK'
  BY <1>2, <1>3, <1>4, <1>5, <1>6 DEF PrefixesOut, TypeOK, inputs, Pcs
<1>8. InBounds'
  BY <1>2 DEF PrefixesOut, InBounds, inputs
<1>9. ByteLeft' /\ PrefixCount'
  BY <1>6 DEF PrefixesOut, ByteLeft, BeforeOpcode, PrefixCount, inputs
<1>10. MapCodes'
  BY <1>4 DEF PrefixesOut, MapCodes
<1>. QED  BY <1>7, <1>8, <1>9, <1>10

-----------------------------------------------------------------------------
(* The steps after the prefixes.  A step into a state behind the opcode,   *)
(* or into "done", keeps the invariant when it keeps the types, stays in   *)
(* the buffer, and leaves map codes that are not another map's.            *)
LEMMA Assemble ==
    ASSUME IldInv, inputs' = inputs,
           pc' \in Pcs \ {"prefix"}, ~BeforeOpcode',
           length' \in Nat, length' <= max_bytes, reads' \in Nat, reads' <= max_bytes,
           out_of_bytes' \in BOOLEAN, error' \in Errors,
           pfx' \in PfxType, enc' \in EncType, mrm' \in MrmType, imd' \in ImdType,
           enc'.info \in {NoInfo, MapInfo(enc'.vexvalid, enc'.map)}
    PROVE  IldInv'
<1>1. length' \in Pos /\ reads' \in Pos
  BY MaxAssumption DEF IldInv, TypeOK, Pos
<1>2. itext' = itext /\ max_bytes' = max_bytes /\ cfg' = cfg
  BY DEF inputs
<1>3. TypeOK'
  BY <1>1, <1>2 DEF IldInv, TypeOK
<1>4. InBounds' /\ ByteLeft' /\ PrefixCount' /\ MapCodes'
  BY <1>2 DEF InBounds, ByteLeft, BeforeOpcode, PrefixCount, MapCodes
<1>. QED  BY <1>3, <1>4 DEF IldInv

(* The numbers of a state are numbers. *)
LEMMA Numbers ==
    ASSUME IldInv
    PROVE  /\ length \in Nat /\ max_bytes \in Nat /\ reads \in Nat
           /\ length <= max_bytes /\ reads <= max_bytes
           /\ max_bytes <= MaxInstructionBytes /\ MaxInstructionBytes \in Nat
           /\ \A i \in Nat : Byte(i) \in Byte256
           /\ \A i \in Nat : i <= max_bytes => i \in Pos
<1>1. MaxInstructionBytes \in Nat
  BY MaxAssumption
<1>2. \A i \in Nat : Byte(i) \in Byte256
  BY ByteRange DEF IldInv, TypeOK
<1>. QED  BY <1>1, <1>2 DEF IldInv, TypeOK, InBounds, Pos

(* Reading no byte past max_bytes keeps reads within it. *)
LEMMA SeenInBounds ==
    ASSUME IldInv, NEW n \in Nat, n <= max_bytes, Seen(n)
    PROVE  reads' \in Nat /\ reads' <= max_bytes
BY Numbers DEF Seen

LEMMA TooShortType ==
    ASSUME too_short
    PROVE  out_of_bytes' \in BOOLEAN /\ error' \in Errors
BY DEF too_short, Errors

(* Collecting the opcode at a position in the buffer. *)
LEMMA WithOpcodeType ==
    ASSUME IldInv, NEW e \in EncType, NEW n \in Nat, n <= max_bytes
    PROVE  /\ WithOpcode(e, n) \in EncType
           /\ WithOpcode(e, n).vexvalid = e.vexvalid
           /\ WithOpcode(e, n).info = MapInfo(WithOpcode(e, n).vexvalid, WithOpcode(e, n).map)
<1>1. Byte(n) \in Byte256 /\ n \in Pos
  BY Numbers
<1>2. MapInfo(e.vexvalid, e.map) \in InfoType
  BY MapInfoRange DEF EncType
<1>. QED  BY <1>1, <1>2 DEF WithOpcode, EncType

(* Running out of bytes before the opcode. *)
LEMMA RunOutInv ==
    ASSUME IldInv, NEW n \in Nat, n <= max_bytes, RunOut(n),
           reads' \in Nat, reads' <= max_bytes
    PROVE  IldInv'
<1>1. pc' \in Pcs \ {"prefix"} /\ ~BeforeOpcode'
  BY DEF RunOut, Pcs, BeforeOpcode
<1>2. out_of_bytes' \in BOOLEAN /\ error' \in Errors
  BY TooShortType DEF RunOut
<1>3. enc'.info \in {NoInfo, MapInfo(enc'.vexvalid, enc'.map)}
  BY DEF IldInv, MapCodes, RunOut
<1>4. pfx' \in PfxType /\ enc' \in EncType /\ mrm' \in MrmType /\ imd' \in ImdType
  BY DEF IldInv, TypeOK, RunOut
<1>5. inputs' = inputs /\ length' = n
  BY DEF RunOut
<1>. QED  BY <1>1, <1>2, <1>3, <1>4, <1>5, Assemble

(* A map that does not exist: the map codes are still unset. *)
LEMMA BadMapInv ==
    ASSUME IldInv, NEW n \in Nat, n <= max_bytes, NEW e \in EncType, BadMap(n, e),
           e.info = NoInfo, pc' \in {"done", "catch_invalid"}, pfx' = pfx,
           reads' \in Nat, reads' <= max_bytes
    PROVE  IldInv'
<1>1. pc' \in Pcs \ {"prefix"} /\ ~BeforeOpcode'
  BY DEF Pcs, BeforeOpcode
<1>2. out_of_bytes' \in BOOLEAN /\ error' \in Errors
  BY DEF BadMap, Errors, IldInv, TypeOK
<1>3. enc' \in EncType /\ enc'.info = NoInfo
  BY DEF BadMap, EncType, InvalidMap, MapIds
<1>4. pfx' \in PfxType /\ mrm' \in MrmType /\ imd' \in ImdType
  BY DEF IldInv, TypeOK, BadMap
<1>5. inputs' = inputs /\ length' = n
  BY DEF BadMap
<1>. QED  BY <1>1, <1>2, <1>3, <1>4, <1>5, Assemble

-----------------------------------------------------------------------------
(* The VEX and XOP scanner. *)
LEMMA VexNoneInv == IldInv /\ VexNone => IldInv'
<1>. SUFFICES ASSUME IldInv, VexNone PROVE IldInv'
  OBVIOUS
<1>1. length < max_bytes
  BY DEF IldInv, ByteLeft, BeforeOpcode, VexNone
<1>2. enc.info = NoInfo
  BY DEF IldInv, MapCodes, BeforeOpcode, VexNone
<1>3. reads' \in Nat /\ reads' <= max_bytes
  BY <1>1, Numbers, SeenInBounds DEF VexNone
<1>4. /\ pc' = "evex"
      /\ UNCHANGED <<itext, max_bytes, cfg, length, out_of_bytes, error, pfx, enc, mrm, imd>>
  BY DEF VexNone, inputs
<1>5. TypeOK'
  BY <1>3, <1>4, Numbers DEF IldInv, TypeOK, Pcs
<1>6. InBounds' /\ ByteLeft' /\ PrefixCount' /\ MapCodes'
  BY <1>1, <1>2, <1>3, <1>4, Numbers DEF InBounds, ByteLeft, PrefixCount, MapCodes
<1>. QED  BY <1>5, <1>6 DEF IldInv

LEMMA VexShortInv == IldInv /\ VexShort => IldInv'
<1>. SUFFICES ASSUME IldInv, VexShort PROVE IldInv'
  OBVIOUS
<1>1. length < max_bytes
  BY DEF IldInv, ByteLeft, BeforeOpcode, VexShort
<1>2. PICK n \in {length, max_bytes} : RunOut(n)
  BY DEF VexShort
<1>3. reads' \in Nat /\ reads' <= max_bytes
  <2>1. PICK m \in {length + 1, length + 2} : m <= max_bytes /\ Seen(m)
    BY <1>1, Numbers DEF VexShort
  <2>. QED  BY <2>1, Numbers, SeenInBounds
<1>. QED  BY <1>2, <1>3, Numbers, RunOutInv

(* The step over the prefix and the opcode of VEX, XOP and EVEX. *)
LEMMA VectorOpcodeInv ==
    ASSUME IldInv, NEW e \in EncType, e.vexvalid # Legacy,
           NEW n \in Nat, n < max_bytes, Seen(n + 1),
           enc' = WithOpcode(e, n), length' = n + 1,
           pc' \in {"evex", "catch_invalid", "done"},
           error' \in Errors, pfx' \in PfxType,
           UNCHANGED <<inputs, out_of_bytes, mrm, imd>>
    PROVE  IldInv'
<1>1. /\ enc' \in EncType /\ enc'.vexvalid # Legacy
      /\ enc'.info = MapInfo(enc'.vexvalid, enc'.map)
  <2>1. n <= max_bytes
    BY Numbers
  <2>2. WithOpcode(e, n) \in EncType
    BY <2>1, WithOpcodeType
  <2>3. WithOpcode(e, n).vexvalid = e.vexvalid
    BY <2>1, WithOpcodeType
  <2>4. WithOpcode(e, n).info = MapInfo(WithOpcode(e, n).vexvalid, WithOpcode(e, n).map)
    BY <2>1, WithOpcodeType
  <2>. QED  BY <2>2, <2>3, <2>4
<1>2. reads' \in Nat /\ reads' <= max_bytes
  BY Numbers, SeenInBounds
<1>3. pc' \in Pcs \ {"prefix"} /\ ~BeforeOpcode'
  BY <1>1 DEF Pcs, BeforeOpcode
<1>4. out_of_bytes' \in BOOLEAN /\ mrm' \in MrmType /\ imd' \in ImdType
  BY DEF IldInv, TypeOK
<1>. QED  BY <1>1, <1>2, <1>3, <1>4, Numbers, Assemble

LEMMA VexC4Inv == IldInv /\ VexC4 => IldInv'
<1>. SUFFICES ASSUME IldInv, VexC4 PROVE IldInv'
  OBVIOUS
<1>. DEFINE e == [enc EXCEPT !.rexw = Bits(Byte(length + 2), 7, 1),
                             !.map = Bits(Byte(length + 1), 0, 5)]
            v == [e EXCEPT !.vexvalid = Vex]
<1>1. length + 3 < max_bytes /\ enc.info = NoInfo /\ enc \in EncType
  BY DEF IldInv, TypeOK, MapCodes, BeforeOpcode, VexC4
<1>2. e \in EncType /\ e.info = NoInfo
  <2>1. Bits(Byte(length + 2), 7, 1) \in Bit /\ Bits(Byte(length + 1), 0, 5) \in MapIds
    BY Numbers, BitsRange DEF MapIds
  <2>. QED  BY <1>1, <2>1 DEF EncType
<1>3. \/ /\ BadMap(length + 3, e) /\ Seen(length + 3) /\ pc' = "done" /\ pfx' = pfx
      \/ /\ enc' = WithOpcode(v, length + 3) /\ length' = length + 4 /\ Seen(length + 4)
         /\ pc' = "evex" /\ error' = error /\ pfx' = pfx
         /\ UNCHANGED <<inputs, out_of_bytes, mrm, imd>>
  BY Zenon DEF VexC4
<1>. HIDE DEF e
<1>4. v \in EncType /\ v.vexvalid # Legacy
  BY <1>2 DEF EncType, Spaces, Vex, Legacy
<1>. HIDE DEF v
<1>5. error \in Errors /\ pfx \in PfxType
  BY DEF IldInv, TypeOK
<1>6. CASE BadMap(length + 3, e) /\ Seen(length + 3) /\ pc' = "done" /\ pfx' = pfx
  <2>1. reads' \in Nat /\ reads' <= max_bytes
    BY <1>1, <1>6, Numbers, SeenInBounds
  <2>. QED  BY <1>1, <1>2, <1>6, <2>1, Numbers, BadMapInv
<1>7. CASE /\ enc' = WithOpcode(v, length + 3) /\ length' = length + 4 /\ Seen(length + 4)
           /\ pc' = "evex" /\ error' = error /\ pfx' = pfx
           /\ UNCHANGED <<inputs, out_of_bytes, mrm, imd>>
  <2>1. (length + 3) + 1 = length + 4 /\ length + 3 \in Nat
    BY Numbers
  <2>. QED  BY <1>1, <1>4, <1>5, <1>7, <2>1, VectorOpcodeInv
<1>. QED  BY <1>3, <1>6, <1>7

LEMMA VexC5Inv == IldInv /\ VexC5 => IldInv'
<1>. SUFFICES ASSUME IldInv, VexC5 PROVE IldInv'
  OBVIOUS
<1>. DEFINE v == [enc EXCEPT !.vexvalid = Vex, !.map = 1]
<1>1. v \in EncType /\ v.vexvalid # Legacy
  <2>1. v \in EncType
    <3>1. 1 \in MapIds /\ Vex \in Spaces
      BY DEF MapIds, Spaces
    <3>. QED  BY <3>1 DEF IldInv, TypeOK, EncType
  <2>2. v.vexvalid = Vex
    BY DEF IldInv, TypeOK, EncType
  <2>. QED  BY <2>1, <2>2 DEF Vex, Legacy
<1>2. /\ enc' = WithOpcode(v, length + 2) /\ length' = length + 3 /\ Seen(length + 3)
      /\ length + 2 < max_bytes /\ pc' = "evex" /\ error' = error /\ pfx' = pfx
      /\ UNCHANGED <<inputs, out_of_bytes, mrm, imd>>
  BY DEF VexC5
<1>3. error \in Errors /\ pfx \in PfxType
  BY DEF IldInv, TypeOK
<1>4. (length + 2) + 1 = length + 3 /\ length + 2 \in Nat
  BY Numbers
<1>. HIDE DEF v
<1>. QED  BY <1>1, <1>2, <1>3, <1>4, VectorOpcodeInv

LEMMA VexXopInv == IldInv /\ VexXop => IldInv'
<1>. SUFFICES ASSUME IldInv, VexXop PROVE IldInv'
  OBVIOUS
<1>. DEFINE map == Bits(Byte(length + 1), 0, 5)
            v == [enc EXCEPT !.vexvalid = Xop,
                             !.rexw = Bits(Byte(length + 2), 7, 1),
                             !.map = IF ValidXopMap(map) THEN map ELSE InvalidMap]
<1>1. v \in EncType /\ v.vexvalid # Legacy
  <2>1. Bits(Byte(length + 2), 7, 1) \in Bit /\ map \in MapIds
    BY Numbers, BitsRange DEF MapIds
  <2>. HIDE DEF map
  <2>2. (IF ValidXopMap(map) THEN map ELSE InvalidMap) \in MapIds
    BY <2>1 DEF InvalidMap, MapIds
  <2>3. v \in EncType
    BY <2>1, <2>2 DEF IldInv, TypeOK, EncType, Spaces
  <2>4. v.vexvalid = Xop
    BY DEF IldInv, TypeOK, EncType
  <2>. QED  BY <2>3, <2>4 DEF Xop, Legacy
<1>2. /\ enc' = WithOpcode(v, length + 3) /\ length' = length + 4 /\ Seen(length + 4)
      /\ length + 3 < max_bytes /\ pc' \in {"evex", "done"} /\ error' \in {error, "BAD_MAP"}
      /\ pfx' = pfx /\ UNCHANGED <<inputs, out_of_bytes, mrm, imd>>
  BY DEF VexXop
<1>3. error' \in Errors /\ pfx \in PfxType
  BY <1>2 DEF IldInv, TypeOK, Errors
<1>4. (length + 3) + 1 = length + 4 /\ length + 3 \in Nat
  BY Numbers
<1>. HIDE DEF v
<1>. QED  BY <1>1, <1>2, <1>3, <1>4, VectorOpcodeInv

-----------------------------------------------------------------------------
(* The EVEX scanner and the check of the prefixes before VEX, EVEX, XOP. *)
LEMMA EvexNoneInv == IldInv /\ EvexNone => IldInv'
<1>. SUFFICES ASSUME IldInv, EvexNone PROVE IldInv'
  OBVIOUS
<1>1. enc.vexvalid = Legacy => length < max_bytes /\ enc.info = NoInfo
  BY DEF IldInv, ByteLeft, MapCodes, BeforeOpcode, EvexNone
<1>2. reads' \in Nat /\ reads' <= max_bytes
  BY <1>1, Numbers, SeenInBounds DEF EvexNone, IsEvex
<1>3. /\ pc' = IF enc.vexvalid # Legacy THEN "catch_invalid" ELSE "rex2"
      /\ UNCHANGED <<itext, max_bytes, cfg, length, out_of_bytes, error, pfx, enc, mrm, imd>>
  BY DEF EvexNone, inputs
<1>4. TypeOK'
  BY <1>2, <1>3, Numbers DEF IldInv, TypeOK, Pcs
<1>5. InBounds' /\ ByteLeft' /\ PrefixCount'
  BY <1>1, <1>2, <1>3, Numbers DEF InBounds, ByteLeft, BeforeOpcode, PrefixCount
<1>6. MapCodes'
  BY <1>1, <1>3 DEF IldInv, MapCodes, BeforeOpcode
<1>. QED  BY <1>4, <1>5, <1>6 DEF IldInv

(* the map field of the first payload byte, with APX or without *)
LEMMA EvexMapRange == ASSUME NEW b \in Byte256 PROVE EvexMap(b) \in MapIds
<1>1. CASE decoder_supports_apx
  BY <1>1, BitsRange DEF EvexMap, MapIds
<1>2. CASE ~decoder_supports_apx
  BY <1>2, BitsRange DEF EvexMap, MapIds
<1>. QED  BY <1>1, <1>2

(* what the state says when an EVEX prefix is next *)
LEMMA EvexNext ==
    ASSUME IldInv, pc = "evex", IsEvex
    PROVE  length < max_bytes /\ enc.info = NoInfo /\ enc \in EncType
BY DEF IldInv, TypeOK, ByteLeft, MapCodes, BeforeOpcode, IsEvex

LEMMA EvexShortInv == IldInv /\ EvexShort => IldInv'
<1>. SUFFICES ASSUME IldInv, EvexShort PROVE IldInv'
  OBVIOUS
<1>1. length < max_bytes /\ enc.info = NoInfo /\ enc \in EncType
  BY EvexNext DEF EvexShort
<1>2. CASE RunOut(max_bytes) /\ Seen(length + 1)
  <2>1. reads' \in Nat /\ reads' <= max_bytes
    BY <1>1, <1>2, Numbers, SeenInBounds
  <2>. QED  BY <1>2, <2>1, Numbers, RunOutInv
<1>3. CASE /\ length + 1 < max_bytes /\ Seen(length + 2) /\ length' = max_bytes
           /\ enc' = [enc EXCEPT !.vexvalid = Evex, !.map = EvexMap(Byte(length + 1))]
           /\ too_short /\ pc' = "done" /\ UNCHANGED <<inputs, pfx, mrm, imd>>
  <2>1. reads' \in Nat /\ reads' <= max_bytes
    BY <1>3, Numbers, SeenInBounds
  <2>2. out_of_bytes' \in BOOLEAN /\ error' \in Errors
    BY <1>3, TooShortType
  <2>3. EvexMap(Byte(length + 1)) \in MapIds /\ Evex \in Spaces
    BY Numbers, EvexMapRange DEF Spaces
  <2>4. enc' \in EncType
    BY <1>1, <1>3, <2>3 DEF EncType
  <2>5. enc'.info = NoInfo
    BY <1>1, <1>3 DEF EncType
  <2>6. pc' \in Pcs \ {"prefix"} /\ ~BeforeOpcode'
    BY <1>3 DEF Pcs, BeforeOpcode
  <2>7. pfx' \in PfxType /\ mrm' \in MrmType /\ imd' \in ImdType
    BY <1>3 DEF IldInv, TypeOK
  <2>. QED  BY <1>3, <2>1, <2>2, <2>4, <2>5, <2>6, <2>7, Numbers, Assemble
<1>. QED  BY <1>2, <1>3, Zenon DEF EvexShort

LEMMA EvexBadMapInv == IldInv /\ EvexBadMap => IldInv'
<1>. SUFFICES ASSUME IldInv, EvexBadMap PROVE IldInv'
  OBVIOUS
<1>. DEFINE e == [enc EXCEPT !.vexvalid = Evex]
<1>1. length < max_bytes /\ enc.info = NoInfo /\ enc \in EncType
  BY EvexNext DEF EvexBadMap
<1>2. e \in EncType
  BY <1>1 DEF EncType, Spaces
<1>3. e.info = NoInfo
  BY <1>1 DEF EncType
<1>4. PICK n \in {length + 2, length + 4} : n <= max_bytes /\ BadMap(n, e)
  BY Numbers DEF EvexBadMap
<1>5. PICK m \in {length + 2, length + 3} : m <= max_bytes /\ Seen(m)
  BY Numbers DEF EvexBadMap
<1>6. reads' \in Nat /\ reads' <= max_bytes
  BY <1>5, Numbers, SeenInBounds
<1>7. pc' = "catch_invalid" /\ pfx' = pfx
  BY DEF EvexBadMap
<1>. HIDE DEF e
<1>. QED  BY <1>2, <1>3, <1>4, <1>6, <1>7, Numbers, BadMapInv

LEMMA EvexScanInv == IldInv /\ EvexScan => IldInv'
<1>. SUFFICES ASSUME IldInv, EvexScan PROVE IldInv'
  OBVIOUS
<1>. DEFINE p2 == Byte(length + 2)
            p3 == Byte(length + 3)
            map == EvexMap(Byte(length + 1))
            e == [enc EXCEPT !.vexvalid = Evex, !.map = map,
                             !.rexw = Bits(p2, 7, 1), !.ubit = Bits(p2, 2, 1),
                             !.llrc = Bits(p3, 5, 2), !.bcrc = Bits(p3, 4, 1)]
<1>1. enc \in EncType
  BY EvexNext DEF EvexScan
<1>2. /\ enc' = WithOpcode(e, length + 4) /\ length' = length + 5 /\ Seen(length + 5)
      /\ length + 4 < max_bytes /\ pc' = "catch_invalid"
      /\ pfx' = [pfx EXCEPT !.osz = IF Bits(p2, 0, 2) = 1 THEN 1 ELSE @]
      /\ error' = EvexPayload3Error(p3)
      /\ UNCHANGED <<inputs, out_of_bytes, mrm, imd>>
  BY Zenon DEF EvexScan
<1>3. p2 \in Byte256 /\ p3 \in Byte256 /\ map \in MapIds /\ Evex \in Spaces
  BY Numbers, EvexMapRange DEF Spaces
<1>. HIDE DEF p2, p3, map
<1>4. /\ Bits(p2, 7, 1) \in Bit /\ Bits(p2, 2, 1) \in Bit
      /\ Bits(p3, 5, 2) \in 0..3 /\ Bits(p3, 4, 1) \in Bit
  BY <1>3, BitsRange
<1>5. e \in EncType
  BY <1>1, <1>3, <1>4 DEF EncType
<1>6. e.vexvalid # Legacy
  <2>1. e.vexvalid = Evex
    BY <1>1 DEF EncType
  <2>. QED  BY <2>1 DEF Evex, Legacy
<1>7. pfx' \in PfxType
  BY <1>2 DEF IldInv, TypeOK, PfxType, Bit
<1>8. error' \in Errors
  BY <1>2 DEF EvexPayload3Error, IldInv, TypeOK, Errors
<1>9. (length + 4) + 1 = length + 5 /\ length + 4 \in Nat
  BY Numbers
<1>. HIDE DEF e
<1>. QED  BY <1>2, <1>5, <1>6, <1>7, <1>8, <1>9, VectorOpcodeInv

LEMMA CatchInvalidInv == IldInv /\ CatchInvalid => IldInv'
<1>. SUFFICES ASSUME IldInv, CatchInvalid PROVE IldInv'
  OBVIOUS
<1>1. error' \in Errors
  BY DEF CatchInvalid, Errors, IldInv, TypeOK
<1>2. pc' \in Pcs \ {"prefix"} /\ ~BeforeOpcode'
  BY DEF CatchInvalid, Pcs, BeforeOpcode
<1>3. /\ pfx' \in PfxType /\ enc' \in EncType /\ mrm' \in MrmType /\ imd' \in ImdType
      /\ out_of_bytes' \in BOOLEAN /\ inputs' = inputs /\ length' = length /\ reads' = reads
  BY DEF CatchInvalid, IldInv, TypeOK
<1>4. enc'.info \in {NoInfo, MapInfo(enc'.vexvalid, enc'.map)}
  BY DEF CatchInvalid, IldInv, MapCodes
<1>. QED  BY <1>1, <1>2, <1>3, <1>4, Numbers, Assemble

-----------------------------------------------------------------------------
(* REX2 and the opcode of the legacy maps. *)
LEMMA Rex2NoneInv == IldInv /\ Rex2None => IldInv'
<1>. SUFFICES ASSUME IldInv, Rex2None PROVE IldInv'
  OBVIOUS
<1>1. length < max_bytes /\ enc.info = NoInfo /\ enc.vexvalid = Legacy
  BY DEF IldInv, ByteLeft, MapCodes, BeforeOpcode, Rex2None
<1>2. reads' \in Nat /\ reads' <= max_bytes
  BY <1>1, Numbers, SeenInBounds DEF Rex2None
<1>3. /\ pc' = "opcode"
      /\ UNCHANGED <<itext, max_bytes, cfg, length, out_of_bytes, error, pfx, enc, mrm, imd>>
  BY DEF Rex2None, inputs
<1>4. TypeOK'
  BY <1>2, <1>3, Numbers DEF IldInv, TypeOK, Pcs
<1>5. InBounds' /\ ByteLeft' /\ PrefixCount' /\ MapCodes'
  BY <1>1, <1>2, <1>3, Numbers DEF InBounds, ByteLeft, PrefixCount, MapCodes
<1>. QED  BY <1>4, <1>5 DEF IldInv

(* The step over the opcode of the legacy maps. *)
LEMMA LegacyOpcodeInv ==
    ASSUME IldInv, NEW e \in EncType,
           NEW n \in Nat, n < max_bytes, Seen(n + 1),
           enc' = WithOpcode(e, n), length' = n + 1, pc' = "modrm",
           error' \in Errors, UNCHANGED <<inputs, out_of_bytes, pfx, mrm, imd>>
    PROVE  IldInv'
<1>1. /\ enc' \in EncType
      /\ enc'.info = MapInfo(enc'.vexvalid, enc'.map)
  <2>1. n <= max_bytes
    BY Numbers
  <2>2. WithOpcode(e, n) \in EncType
    BY <2>1, WithOpcodeType
  <2>3. WithOpcode(e, n).info = MapInfo(WithOpcode(e, n).vexvalid, WithOpcode(e, n).map)
    BY <2>1, WithOpcodeType
  <2>. QED  BY <2>2, <2>3
<1>2. reads' \in Nat /\ reads' <= max_bytes
  BY Numbers, SeenInBounds
<1>3. pc' \in Pcs \ {"prefix"} /\ ~BeforeOpcode'
  BY DEF Pcs, BeforeOpcode
<1>4. out_of_bytes' \in BOOLEAN /\ pfx' \in PfxType /\ mrm' \in MrmType /\ imd' \in ImdType
  BY DEF IldInv, TypeOK
<1>. QED  BY <1>1, <1>2, <1>3, <1>4, Numbers, Assemble

(* Running out of bytes when the map, but not the opcode, is known. *)
LEMMA OpcodeMissingInv ==
    ASSUME IldInv, enc' \in EncType, enc'.info \in {NoInfo, MapInfo(enc'.vexvalid, enc'.map)},
           NEW n \in Nat, n <= max_bytes, Seen(n), length' = n, too_short, pc' = "done",
           UNCHANGED <<inputs, pfx, mrm, imd>>
    PROVE  IldInv'
<1>1. reads' \in Nat /\ reads' <= max_bytes
  BY Numbers, SeenInBounds
<1>2. out_of_bytes' \in BOOLEAN /\ error' \in Errors
  BY TooShortType
<1>3. pc' \in Pcs \ {"prefix"} /\ ~BeforeOpcode'
  BY DEF Pcs, BeforeOpcode
<1>4. pfx' \in PfxType /\ mrm' \in MrmType /\ imd' \in ImdType
  BY DEF IldInv, TypeOK
<1>. QED  BY <1>1, <1>2, <1>3, <1>4, Numbers, Assemble

LEMMA Rex2Inv == IldInv /\ Rex2 => IldInv'
<1>. SUFFICES ASSUME IldInv, Rex2 PROVE IldInv'
  OBVIOUS
<1>. DEFINE p == Byte(length + 1)
            e == [enc EXCEPT !.rex2 = 1, !.map = Bits(p, 7, 1), !.rexw = Bits(p, 3, 1)]
<1>1. length < max_bytes /\ enc.info = NoInfo /\ enc \in EncType
  BY DEF IldInv, TypeOK, ByteLeft, MapCodes, BeforeOpcode, Rex2
<1>2. \/ length + 1 >= max_bytes /\ Seen(length + 1) /\ RunOut(max_bytes)
      \/ /\ length + 2 = max_bytes /\ Seen(length + 2) /\ length' = max_bytes /\ enc' = e
         /\ too_short /\ pc' = "done" /\ UNCHANGED <<inputs, pfx, mrm, imd>>
      \/ /\ length + 2 < max_bytes /\ Seen(length + 3) /\ enc' = WithOpcode(e, length + 2)
         /\ error' = IF pfx.rex = 1 THEN "BAD_REX_PREFIX" ELSE error
         /\ length' = length + 3 /\ pc' = "modrm"
         /\ UNCHANGED <<inputs, out_of_bytes, pfx, mrm, imd>>
  BY Zenon DEF Rex2
<1>3. Bits(p, 7, 1) \in Bit /\ Bits(p, 3, 1) \in Bit
  BY Numbers, BitsRange
<1>. HIDE DEF p
<1>4. e \in EncType
  <2>1. Bits(p, 7, 1) \in MapIds
    BY <1>3 DEF Bit, MapIds
  <2>. QED  BY <1>1, <1>3, <2>1 DEF EncType, Bit
<1>5. e.info = NoInfo
  BY <1>1 DEF EncType
<1>. HIDE DEF e
<1>6. CASE length + 1 >= max_bytes /\ Seen(length + 1) /\ RunOut(max_bytes)
  <2>1. reads' \in Nat /\ reads' <= max_bytes
    BY <1>1, <1>6, Numbers, SeenInBounds
  <2>. QED  BY <1>6, <2>1, Numbers, RunOutInv
<1>7. CASE /\ length + 2 = max_bytes /\ Seen(length + 2) /\ length' = max_bytes /\ enc' = e
           /\ too_short /\ pc' = "done" /\ UNCHANGED <<inputs, pfx, mrm, imd>>
  BY <1>4, <1>5, <1>7, Numbers, OpcodeMissingInv
<1>8. CASE /\ length + 2 < max_bytes /\ Seen(length + 3) /\ enc' = WithOpcode(e, length + 2)
           /\ error' = IF pfx.rex = 1 THEN "BAD_REX_PREFIX" ELSE error
           /\ length' = length + 3 /\ pc' = "modrm"
           /\ UNCHANGED <<inputs, out_of_bytes, pfx, mrm, imd>>
  <2>1. error' \in Errors
    BY <1>8 DEF Errors, IldInv, TypeOK
  <2>2. (length + 2) + 1 = length + 3 /\ length + 2 \in Nat
    BY Numbers
  <2>. QED  BY <1>4, <1>8, <2>1, <2>2, LegacyOpcodeInv
<1>. QED  BY <1>2, <1>6, <1>7, <1>8

LEMMA OpcodeMap0Inv == IldInv /\ OpcodeMap0 => IldInv'
<1>. SUFFICES ASSUME IldInv, OpcodeMap0 PROVE IldInv'
  OBVIOUS
<1>. DEFINE e == [enc EXCEPT !.map = 0]
<1>1. length < max_bytes
  BY DEF IldInv, ByteLeft, BeforeOpcode, OpcodeMap0
<1>2. e \in EncType
  <2>1. 0 \in MapIds
    BY DEF MapIds
  <2>. QED  BY <2>1 DEF IldInv, TypeOK, EncType
<1>3. /\ Seen(length + 1) /\ enc' = WithOpcode(e, length) /\ length' = length + 1
      /\ pc' = "modrm" /\ UNCHANGED <<inputs, out_of_bytes, error, pfx, mrm, imd>>
  BY DEF OpcodeMap0
<1>4. error' \in Errors
  BY <1>3 DEF IldInv, TypeOK
<1>. HIDE DEF e
<1>. QED  BY <1>1, <1>2, <1>3, <1>4, Numbers, LegacyOpcodeInv

(* what the state says when 0F is next *)
LEMMA EscapeNext ==
    ASSUME IldInv, AtEscape
    PROVE  /\ length < max_bytes
           /\ Escaped \in EncType
           /\ Escaped.info = MapInfo(Escaped.vexvalid, Escaped.map)
<1>. DEFINE map == EscapeMap(Byte(length + 1))
<1>1. length < max_bytes /\ enc \in EncType /\ enc.vexvalid = Legacy
  BY DEF IldInv, TypeOK, ByteLeft, MapCodes, BeforeOpcode, AtEscape
<1>2. map \in MapIds
  BY DEF EscapeMap, MapIds, Amd3DNow
<1>3. MapInfo(Legacy, map) \in InfoType
  BY <1>2, MapInfoRange DEF Spaces
<1>. HIDE DEF map
<1>4. Escaped = [enc EXCEPT !.map = map, !.info = MapInfo(Legacy, map)]
  BY DEF Escaped, map
<1>5. Escaped \in EncType
  BY <1>1, <1>2, <1>3, <1>4 DEF EncType
<1>6. Escaped.vexvalid = Legacy /\ Escaped.map = map
  BY <1>1, <1>4 DEF EncType
<1>7. Escaped.info = MapInfo(Legacy, map)
  BY <1>1, <1>4 DEF EncType
<1>. QED  BY <1>1, <1>5, <1>6, <1>7

LEMMA OpcodeShortInv == IldInv /\ OpcodeShort => IldInv'
<1>. SUFFICES ASSUME IldInv, OpcodeShort PROVE IldInv'
  OBVIOUS
<1>1. /\ length < max_bytes /\ Escaped \in EncType
      /\ Escaped.info = MapInfo(Escaped.vexvalid, Escaped.map)
  BY EscapeNext DEF OpcodeShort
<1>2. CASE Seen(length + 1) /\ RunOut(length)
  <2>1. reads' \in Nat /\ reads' <= max_bytes
    BY <1>1, <1>2, Numbers, SeenInBounds
  <2>. QED  BY <1>2, <2>1, Numbers, RunOutInv
<1>3. CASE /\ length + 2 = max_bytes /\ Seen(length + 2) /\ enc' = Escaped
           /\ length' = length + 2 /\ too_short /\ pc' = "done"
           /\ UNCHANGED <<inputs, pfx, mrm, imd>>
  BY <1>1, <1>3, Numbers, OpcodeMissingInv
<1>. QED  BY <1>2, <1>3, Zenon DEF OpcodeShort

LEMMA OpcodeMap123Inv == IldInv /\ (OpcodeMap1 \/ OpcodeMap23) => IldInv'
<1>. SUFFICES ASSUME IldInv, OpcodeMap1 \/ OpcodeMap23 PROVE IldInv'
  OBVIOUS
<1>1. Escaped \in EncType
  BY EscapeNext DEF OpcodeMap1, OpcodeMap23
<1>2. PICK n \in {length + 1, length + 2} :
        n < max_bytes /\ Seen(n + 1) /\ enc' = WithOpcode(Escaped, n) /\ length' = n + 1
  <2>1. (length + 1) + 1 = length + 2 /\ (length + 2) + 1 = length + 3
    BY Numbers
  <2>. QED  BY <2>1 DEF OpcodeMap1, OpcodeMap23
<1>3. pc' = "modrm" /\ error' = error /\ UNCHANGED <<inputs, out_of_bytes, pfx, mrm, imd>>
  BY DEF OpcodeMap1, OpcodeMap23
<1>4. error' \in Errors /\ n \in Nat
  BY <1>3, Numbers DEF IldInv, TypeOK
<1>. QED  BY <1>1, <1>2, <1>3, <1>4, LegacyOpcodeInv

LEMMA Opcode3DNowInv == IldInv /\ Opcode3DNow => IldInv'
<1>. SUFFICES ASSUME IldInv, Opcode3DNow PROVE IldInv'
  OBVIOUS
<1>1. Escaped \in EncType /\ Escaped.info = MapInfo(Escaped.vexvalid, Escaped.map)
  BY EscapeNext DEF Opcode3DNow
<1>2. enc' = [Escaped EXCEPT !.amd3dnow = TRUE]
  BY DEF Opcode3DNow
<1>3. enc' \in EncType
  BY <1>1, <1>2 DEF EncType
<1>4. enc'.info = MapInfo(enc'.vexvalid, enc'.map)
  <2>1. enc'.info = Escaped.info
    BY <1>1, <1>2 DEF EncType
  <2>2. enc'.vexvalid = Escaped.vexvalid /\ enc'.map = Escaped.map
    BY <1>1, <1>2 DEF EncType
  <2>. QED  BY <1>1, <2>1, <2>2
<1>5. reads' \in Nat /\ reads' <= max_bytes /\ length' = length + 2 /\ length + 2 <= max_bytes
  <2>1. length + 1 < max_bytes /\ Seen(length + 2) /\ length' = length + 2
    BY DEF Opcode3DNow
  <2>. QED  BY <2>1, Numbers, SeenInBounds
<1>6. pc' \in Pcs \ {"prefix"} /\ ~BeforeOpcode'
  BY DEF Opcode3DNow, Pcs, BeforeOpcode
<1>7. /\ out_of_bytes' \in BOOLEAN /\ error' \in Errors /\ inputs' = inputs
      /\ pfx' \in PfxType /\ mrm' \in MrmType /\ imd' \in ImdType
  BY DEF Opcode3DNow, IldInv, TypeOK
<1>. QED  BY <1>3, <1>4, <1>5, <1>6, <1>7, Numbers, Assemble

-----------------------------------------------------------------------------
(* ModRM, SIB, displacement and immediates: what the tables give is in     *)
(* range because the codes copied from the map send only the opcodes of a  *)
(* map with variable lengths to them.                                      *)
LEMMA VarCodes ==
    ASSUME IldInv
    PROVE  /\ enc.info.modrm = Var => MapInfo(enc.vexvalid, enc.map).modrm = Var
           /\ enc.info.disp = Var => MapInfo(enc.vexvalid, enc.map).disp = Var
           /\ enc.info.imm = ImmVar => MapInfo(enc.vexvalid, enc.map).imm = ImmVar
<1>1. enc.info \in {NoInfo, MapInfo(enc.vexvalid, enc.map)}
  BY DEF IldInv, MapCodes
<1>2. NoInfo.modrm = No /\ NoInfo.disp = No /\ NoInfo.imm = 0
  BY DEF NoInfo, Info
<1>. QED  BY <1>1, <1>2 DEF No, Var, ImmVar

LEMMA EncParts ==
    ASSUME IldInv
    PROVE  /\ enc.vexvalid \in Spaces /\ enc.map \in MapIds /\ enc.opcode \in Byte256
           /\ enc.info.modrm \in 0..2 /\ enc.info.disp \in 0..2 /\ enc.info.imm \in {0, 1, 4, 7}
BY DEF IldInv, TypeOK, EncType, InfoType

LEMMA HasModrmRange == ASSUME IldInv PROVE HasModrm \in 0..3
<1>1. CASE enc.info.modrm \in {Yes, No}
  BY <1>1 DEF HasModrm, ModrmTrue, ModrmFalse, Yes, No
<1>2. CASE enc.info.modrm = Var
  <2>1. ModrmCode(enc.vexvalid, enc.map, enc.opcode) \in ModrmCodes
    BY <1>2, VarCodes, EncParts, ModrmAssumption
  <2>. QED  BY <1>2, <2>1 DEF HasModrm, ModrmCodes, ModrmUd0, ModrmTrue, ModrmFalse, Yes, No, Var
<1>. QED  BY <1>1, <1>2, EncParts DEF Yes, No, Var

LEMMA CxType == ASSUME IldInv PROVE Cx \in Context
<1>1. cfg.mode \in Modes
  BY DEF IldInv, TypeOK, Config
<1>2. pfx.osz \in Bit /\ pfx.asz \in Bit /\ pfx.f2 \in Bit
  BY DEF IldInv, TypeOK, PfxType
<1>3. enc.rexw \in Bit /\ enc.rex2 \in Bit
  BY DEF IldInv, TypeOK, EncType
<1>4. mrm.reg \in 0..7
  BY DEF IldInv, TypeOK, MrmType
<1>. QED  BY <1>1, <1>2, <1>3, <1>4 DEF Cx, Context

LEMMA DispBytesRange == ASSUME IldInv PROVE DispBytes \in Widths
<1>. DEFINE w == DispWidth(enc.vexvalid, enc.map, enc.opcode, Cx)
<1>1. CASE enc.info.disp = Var /\ w # Keep
  <2>1. w \in Widths \cup {Keep}
    BY <1>1, VarCodes, EncParts, CxType, DispAssumption
  <2>. QED  BY <1>1, <2>1 DEF DispBytes
<1>2. CASE ~(enc.info.disp = Var /\ w # Keep)
  BY <1>2 DEF DispBytes, IldInv, TypeOK, ImdType
<1>. QED  BY <1>1, <1>2

LEMMA ImmBytesRange ==
    ASSUME IldInv
    PROVE  ImmBytes.imm \in Widths /\ ImmBytes.imm1 \in Bit
<1>1. imd.imm_width \in Widths /\ imd.imm1_bytes \in Bit
  BY DEF IldInv, TypeOK, ImdType
<1>2. CASE imd.imm_width # 0
  BY <1>1, <1>2 DEF ImmBytes
<1>3. CASE imd.imm_width = 0 /\ enc.info.imm # ImmVar
  BY <1>1, <1>3, EncParts DEF ImmBytes, ImmVar, Widths
<1>4. CASE imd.imm_width = 0 /\ enc.info.imm = ImmVar
  <2>1. ImmWidth(enc.vexvalid, enc.map, enc.opcode, Cx) \in [imm : Widths, imm1 : Bit]
    BY <1>4, VarCodes, EncParts, CxType, ImmAssumption
  <2>. QED  BY <1>4, <2>1 DEF ImmBytes
<1>. QED  BY <1>2, <1>3, <1>4

LEMMA WidthsNat == Widths \subseteq Nat
BY DEF Widths

LEMMA ModrmScannerInv == IldInv /\ ModrmScanner => IldInv'
<1>. SUFFICES ASSUME IldInv, ModrmScanner PROVE IldInv'
  OBVIOUS
<1>. DEFINE b == Byte(length)
            ea == EaMode(cfg.mode, pfx.asz)
            regular == HasModrm # ModrmIgnoreMod
            sib == regular /\ HasSib(ea, Bits(b, 6, 2), Bits(b, 0, 3))
            disp == IF regular THEN HasDispRegular(ea, Bits(b, 6, 2), Bits(b, 0, 3))
                               ELSE imd.disp_width
<1>1. /\ HasModrm \in 0..3 /\ b \in Byte256 /\ length \in Pos
      /\ mrm \in MrmType /\ imd \in ImdType
  BY HasModrmRange, Numbers DEF IldInv, TypeOK
<1>2. /\ Bits(b, 6, 2) \in 0..3 /\ Bits(b, 3, 3) \in 0..7 /\ Bits(b, 0, 3) \in 0..7
  BY <1>1, BitsRange
<1>3. disp \in Widths
  <2>1. ea \in Modes
    BY EaModeRange DEF IldInv, TypeOK, Config, PfxType
  <2>. QED  BY <1>1, <1>2, <2>1, DispRegularRange DEF ImdType
<1>4. sib \in BOOLEAN
  BY DEF HasSib
<1>5. \/ /\ \/ mrm' = [mrm EXCEPT !.has_modrm = ModrmFalse]
            \/ mrm' = [mrm EXCEPT !.has_modrm = HasModrm]
         /\ imd' = imd /\ length' = length /\ reads' = reads
      \/ /\ length < max_bytes
         /\ mrm' = [mrm EXCEPT !.has_modrm = HasModrm, !.pos_modrm = length,
                               !.mod = Bits(b, 6, 2), !.reg = Bits(b, 3, 3),
                               !.rm = Bits(b, 0, 3), !.has_sib = sib]
         /\ imd' = [imd EXCEPT !.disp_width = disp]
         /\ length' = length + 1 /\ Seen(length + 1)
  BY DEF ModrmScanner
<1>6. out_of_bytes' \in BOOLEAN /\ error' \in Errors
  BY TooShortType DEF ModrmScanner, IldInv, TypeOK, Errors
<1>7. /\ pc' = "sib" /\ inputs' = inputs /\ pfx' \in PfxType /\ enc' \in EncType
      /\ enc'.info \in {NoInfo, MapInfo(enc'.vexvalid, enc'.map)}
  BY DEF ModrmScanner, IldInv, TypeOK, MapCodes
<1>. HIDE DEF b, ea, sib, disp
<1>8. mrm' \in MrmType
  <2>. DEFINE full == [mrm EXCEPT !.has_modrm = HasModrm, !.pos_modrm = length,
                                  !.mod = Bits(b, 6, 2), !.reg = Bits(b, 3, 3),
                                  !.rm = Bits(b, 0, 3), !.has_sib = sib]
  <2>1. full \in MrmType
    BY <1>1, <1>2, <1>4 DEF MrmType
  <2>2. [mrm EXCEPT !.has_modrm = ModrmFalse] \in MrmType
    BY <1>1 DEF MrmType, ModrmFalse
  <2>3. [mrm EXCEPT !.has_modrm = HasModrm] \in MrmType
    BY <1>1 DEF MrmType
  <2>. QED  BY <1>5, <2>1, <2>2, <2>3
<1>9. imd' \in ImdType
  BY <1>1, <1>3, <1>5 DEF ImdType
<1>10. length' \in Nat /\ length' <= max_bytes /\ reads' \in Nat /\ reads' <= max_bytes
  BY <1>5, Numbers, SeenInBounds
<1>11. pc' \in Pcs \ {"prefix"} /\ ~BeforeOpcode'
  BY <1>7 DEF Pcs, BeforeOpcode
<1>. QED  BY <1>6, <1>7, <1>8, <1>9, <1>10, <1>11, Assemble

LEMMA SibScannerInv == IldInv /\ SibScanner => IldInv'
<1>. SUFFICES ASSUME IldInv, SibScanner PROVE IldInv'
  OBVIOUS
<1>1. length \in Pos /\ mrm \in MrmType /\ imd \in ImdType
  BY Numbers DEF IldInv, TypeOK
<1>2. \/ mrm' = mrm /\ imd' = imd /\ length' = length /\ reads' = reads
      \/ /\ length < max_bytes
         /\ mrm' = [mrm EXCEPT !.pos_sib = length]
         /\ \/ imd' = imd
            \/ imd' = [imd EXCEPT !.disp_width = 4]
         /\ length' = length + 1 /\ Seen(length + 1)
  BY <1>1 DEF SibScanner, ImdType
<1>3. out_of_bytes' \in BOOLEAN /\ error' \in Errors
  BY TooShortType DEF SibScanner, IldInv, TypeOK
<1>4. /\ pc' = "disp" /\ inputs' = inputs /\ pfx' \in PfxType /\ enc' \in EncType
      /\ enc'.info \in {NoInfo, MapInfo(enc'.vexvalid, enc'.map)}
  BY DEF SibScanner, IldInv, TypeOK, MapCodes
<1>5. mrm' \in MrmType
  BY <1>1, <1>2 DEF MrmType
<1>6. imd' \in ImdType
  BY <1>1, <1>2 DEF ImdType, Widths
<1>7. length' \in Nat /\ length' <= max_bytes /\ reads' \in Nat /\ reads' <= max_bytes
  BY <1>2, Numbers, SeenInBounds
<1>8. pc' \in Pcs \ {"prefix"} /\ ~BeforeOpcode'
  BY <1>4 DEF Pcs, BeforeOpcode
<1>. QED  BY <1>3, <1>4, <1>5, <1>6, <1>7, <1>8, Assemble

LEMMA DispScannerInv == IldInv /\ DispScanner => IldInv'
<1>. SUFFICES ASSUME IldInv, DispScanner PROVE IldInv'
  OBVIOUS
<1>. DEFINE w == DispBytes
<1>1. w \in Widths /\ w \in Nat /\ length \in Pos /\ imd \in ImdType
  BY DispBytesRange, WidthsNat, Numbers DEF IldInv, TypeOK
<1>2. \/ /\ imd' = [imd EXCEPT !.disp_width = 0] \/ imd' = [imd EXCEPT !.disp_width = w]
         /\ length' = length /\ reads' = reads
      \/ /\ length + w <= max_bytes
         /\ imd' = [imd EXCEPT !.disp_width = w, !.pos_disp = length]
         /\ length' = length + w /\ Seen(length + w)
  BY DEF DispScanner
<1>3. out_of_bytes' \in BOOLEAN /\ error' \in Errors
  BY TooShortType DEF DispScanner, IldInv, TypeOK
<1>4. /\ pc' = "imm" /\ inputs' = inputs /\ pfx' \in PfxType /\ enc' \in EncType
      /\ mrm' \in MrmType /\ enc'.info \in {NoInfo, MapInfo(enc'.vexvalid, enc'.map)}
  BY DEF DispScanner, IldInv, TypeOK, MapCodes
<1>. HIDE DEF w
<1>5. imd' \in ImdType
  BY <1>1, <1>2 DEF ImdType, Widths
<1>6. length' \in Nat /\ length' <= max_bytes /\ reads' \in Nat /\ reads' <= max_bytes
  BY <1>1, <1>2, Numbers, SeenInBounds
<1>7. pc' \in Pcs \ {"prefix"} /\ ~BeforeOpcode'
  BY <1>4 DEF Pcs, BeforeOpcode
<1>. QED  BY <1>3, <1>4, <1>5, <1>6, <1>7, Assemble

LEMMA ImmScanner3DNowInv == IldInv /\ ImmScanner3DNow => IldInv'
<1>. SUFFICES ASSUME IldInv, ImmScanner3DNow PROVE IldInv'
  OBVIOUS
<1>. DEFINE w == ImmBytes.imm
            w1 == ImmBytes.imm1
<1>1. /\ w \in Widths /\ w1 \in Bit /\ length \in Pos /\ Byte(length) \in Byte256
      /\ enc \in EncType /\ imd \in ImdType
  BY ImmBytesRange, Numbers DEF IldInv, TypeOK
<1>2. /\ imd' = [imd EXCEPT !.imm_width = w, !.imm1_bytes = w1]
      /\ \/ enc' = enc /\ length' = length /\ reads' = reads
         \/ /\ length < max_bytes /\ Seen(length + 1) /\ length' = length + 1
            /\ enc' = [enc EXCEPT !.opcode = Byte(length), !.pos_opcode = length]
  BY DEF ImmScanner3DNow
<1>3. out_of_bytes' \in BOOLEAN /\ error' \in Errors
  BY TooShortType DEF ImmScanner3DNow, IldInv, TypeOK
<1>4. inputs' = inputs /\ pfx' \in PfxType /\ mrm' \in MrmType
  BY DEF ImmScanner3DNow, IldInv, TypeOK
<1>. HIDE DEF w, w1
<1>5. imd' \in ImdType
  BY <1>1, <1>2 DEF ImdType
<1>. DEFINE e == [enc EXCEPT !.opcode = Byte(length), !.pos_opcode = length]
<1>6. e \in EncType
  BY <1>1 DEF EncType
<1>7. e.info = enc.info /\ e.vexvalid = enc.vexvalid /\ e.map = enc.map
  BY <1>1 DEF EncType
<1>8. enc' \in {enc, e}
  BY <1>2
<1>. HIDE DEF e
<1>9. enc' \in EncType /\ enc'.info \in {NoInfo, MapInfo(enc'.vexvalid, enc'.map)}
  BY <1>1, <1>6, <1>7, <1>8 DEF IldInv, MapCodes
<1>10. length' \in Nat /\ length' <= max_bytes /\ reads' \in Nat /\ reads' <= max_bytes
  BY <1>2, Numbers, SeenInBounds
<1>11. pc' \in Pcs \ {"prefix"} /\ ~BeforeOpcode'
  BY DEF ImmScanner3DNow, AfterImm, Pcs, BeforeOpcode
<1>. QED  BY <1>3, <1>4, <1>5, <1>9, <1>10, <1>11, Assemble

LEMMA ImmScannerInv == IldInv /\ ImmScanner => IldInv'
<1>. SUFFICES ASSUME IldInv, ImmScanner PROVE IldInv'
  OBVIOUS
<1>. DEFINE w == ImmBytes.imm
            w1 == ImmBytes.imm1
            widths == [imd EXCEPT !.imm_width = w, !.imm1_bytes = w1]
<1>1. w \in Widths /\ w \in Nat /\ w1 \in Bit /\ w1 \in Nat /\ imd \in ImdType
  <2>1. w \in Widths /\ w1 \in Bit
    BY ImmBytesRange
  <2>. HIDE DEF w, w1
  <2>. QED  BY <2>1, WidthsNat DEF IldInv, TypeOK, Bit
<1>2. \/ imd' = widths /\ length' = length /\ reads' = reads
      \/ /\ imd' = [widths EXCEPT !.pos_imm = length]
         /\ length + w <= max_bytes /\ length' = length + w /\ reads' = reads
      \/ /\ \E p \in {length + w, widths.pos_imm1} :
               imd' = [widths EXCEPT !.pos_imm = length, !.pos_imm1 = p]
         /\ length + w + w1 <= max_bytes /\ length' = length + w + w1 /\ Seen(length + w + w1)
  BY DEF ImmScanner
<1>3. out_of_bytes' \in BOOLEAN /\ error' \in Errors
  BY TooShortType DEF ImmScanner, IldInv, TypeOK
<1>4. /\ inputs' = inputs /\ pfx' \in PfxType /\ mrm' \in MrmType
      /\ enc' \in EncType /\ enc'.info \in {NoInfo, MapInfo(enc'.vexvalid, enc'.map)}
  BY DEF ImmScanner, IldInv, TypeOK, MapCodes
<1>. HIDE DEF w, w1
<1>5. widths \in ImdType /\ widths.pos_imm1 \in Pos
  BY <1>1 DEF ImdType
<1>. HIDE DEF widths
<1>6. length \in Pos /\ (length + w + w1 <= max_bytes => length + w \in Pos)
  BY <1>1, Numbers
<1>7. imd' \in ImdType
  BY <1>2, <1>5, <1>6 DEF ImdType
<1>8. length' \in Nat /\ length' <= max_bytes /\ reads' \in Nat /\ reads' <= max_bytes
  BY <1>1, <1>2, Numbers, SeenInBounds
<1>9. pc' \in Pcs \ {"prefix"} /\ ~BeforeOpcode'
  BY DEF ImmScanner, AfterImm, Pcs, BeforeOpcode
<1>. QED  BY <1>3, <1>4, <1>7, <1>8, <1>9, Assemble

LEMMA LateEvexInv == IldInv /\ LateEvex => IldInv'
<1>. SUFFICES ASSUME IldInv, LateEvex PROVE IldInv'
  OBVIOUS
<1>. DEFINE e == [enc EXCEPT !.ubit = 1, !.rexx4 = 1 - enc.ubit]
<1>1. enc \in EncType
  BY DEF IldInv, TypeOK
<1>2. e \in EncType
  <2>1. 1 - enc.ubit \in Bit /\ 1 \in Bit
    BY <1>1 DEF EncType, Bit
  <2>. QED  BY <1>1, <2>1 DEF EncType
<1>3. e.info = enc.info /\ e.vexvalid = enc.vexvalid /\ e.map = enc.map
  BY <1>1 DEF EncType
<1>4. enc' \in {enc, e}
  BY DEF LateEvex
<1>. HIDE DEF e
<1>5. enc' \in EncType /\ enc'.info \in {NoInfo, MapInfo(enc'.vexvalid, enc'.map)}
  BY <1>1, <1>2, <1>3, <1>4 DEF IldInv, MapCodes
<1>6. pc' \in Pcs \ {"prefix"} /\ ~BeforeOpcode'
  BY DEF LateEvex, Pcs, BeforeOpcode
<1>7. /\ inputs' = inputs /\ length' = length /\ reads' = reads
      /\ out_of_bytes' \in BOOLEAN /\ error' \in Errors
      /\ pfx' \in PfxType /\ mrm' \in MrmType /\ imd' \in ImdType
  BY DEF LateEvex, IldInv, TypeOK
<1>. QED  BY <1>5, <1>6, <1>7, Numbers, Assemble

-----------------------------------------------------------------------------
LEMMA NextInv == IldInv /\ [Next]_vars => IldInv'
<1>. SUFFICES ASSUME IldInv, [Next]_vars PROVE IldInv'
  OBVIOUS
<1>1. CASE Next
  BY <1>1, PrefixByteInv, PrefixesOutInv, VexNoneInv, VexShortInv, VexC4Inv, VexC5Inv,
     VexXopInv, EvexNoneInv, EvexShortInv, EvexBadMapInv, EvexScanInv, CatchInvalidInv,
     Rex2NoneInv, Rex2Inv, OpcodeMap0Inv, OpcodeShortInv, OpcodeMap123Inv, Opcode3DNowInv,
     ModrmScannerInv, SibScannerInv, DispScannerInv, ImmScanner3DNowInv, ImmScannerInv,
     LateEvexInv DEF Next
<1>2. CASE UNCHANGED vars
  BY <1>2 DEF vars, IldInv, TypeOK, InBounds, ByteLeft, BeforeOpcode, PrefixCount, MapCodes
<1>. QED  BY <1>1, <1>2

(* The inductive invariant holds in every state the decoder can reach. *)
THEOREM IldInvariant == Spec => []IldInv
<1>. QED  BY InitInv, NextInv, PTL DEF Spec

(* Whatever the bytes, every operand stays in its range, every position    *)
(* and width in what an instruction can have (xed_instruction_length_decode). *)
THEOREM TypeCorrect == Spec => []TypeOK
<1>1. IldInv => TypeOK
  BY DEF IldInv
<1>. QED  BY <1>1, IldInvariant, PTL

(* Whatever the bytes and however few are offered, no scanner reads a byte *)
(* past max_bytes, and none leaves the length beyond it.                   *)
THEOREM NeverReadsPastTheBuffer == Spec => []InBounds
<1>1. IldInv => InBounds
  BY DEF IldInv
<1>. QED  BY <1>1, IldInvariant, PTL

-----------------------------------------------------------------------------
(* Running out of bytes.  A scanner before the ModRM byte that runs out    *)
(* ends the decode, those behind it go on; so an error of another kind is  *)
(* only ever stored while out_of_bytes is still FALSE.                     *)
Early == {"prefix", "vex", "evex", "catch_invalid", "rex2", "opcode", "modrm"}
ShortErrors == {"BUFFER_TOO_SHORT", "INSTR_TOO_LONG"}

ShortError == IF max_bytes >= MaxInstructionBytes THEN "INSTR_TOO_LONG" ELSE "BUFFER_TOO_SHORT"

OutOfBytesInv ==
    /\ out_of_bytes => error = ShortError
    /\ error \in ShortErrors => out_of_bytes
    /\ pc \in Early => ~out_of_bytes

(* the three things a step can do to the result *)
RunsOut == out_of_bytes' = TRUE /\ error' = ShortError /\ pc' \notin Early
KeepsResult == out_of_bytes' = out_of_bytes /\ error' = error /\ (pc \in Early \/ pc' \notin Early)
FindsError == pc \in Early /\ out_of_bytes' = out_of_bytes /\ error' \notin ShortErrors

LEMMA ResultOfStep == Next => RunsOut \/ KeepsResult \/ FindsError
<1>. USE DEF Early
<1>1. PrefixByte => KeepsResult
  BY DEF PrefixByte, KeepsResult
<1>2. PrefixesOut => RunsOut \/ KeepsResult
  BY DEF PrefixesOut, too_short, RunsOut, ShortError, KeepsResult
<1>3. VexNone \/ EvexNone \/ Rex2None => KeepsResult
  BY DEF VexNone, EvexNone, Rex2None, KeepsResult
<1>4. VexShort => RunsOut
  BY DEF VexShort, RunOut, too_short, RunsOut, ShortError
<1>5. VexC4 => KeepsResult \/ FindsError
  BY DEF VexC4, BadMap, KeepsResult, FindsError, ShortErrors
<1>6. VexC5 => KeepsResult
  BY DEF VexC5, KeepsResult
<1>7. VexXop => KeepsResult \/ FindsError
  BY DEF VexXop, KeepsResult, FindsError, ShortErrors
<1>8. EvexShort => RunsOut
  BY DEF EvexShort, RunOut, too_short, RunsOut, ShortError
<1>9. EvexBadMap => FindsError
  BY DEF EvexBadMap, BadMap, FindsError, ShortErrors
<1>10. EvexScan => KeepsResult \/ FindsError
  BY DEF EvexScan, EvexPayload3Error, KeepsResult, FindsError, ShortErrors
<1>11. CatchInvalid => KeepsResult \/ FindsError
  BY DEF CatchInvalid, KeepsResult, FindsError, ShortErrors
<1>12. Rex2 => RunsOut \/ KeepsResult \/ FindsError
  BY DEF Rex2, RunOut, too_short, RunsOut, ShortError, KeepsResult, FindsError, ShortErrors
<1>13. OpcodeShort => RunsOut
  BY DEF OpcodeShort, RunOut, too_short, RunsOut, ShortError
<1>14. OpcodeMap0 \/ OpcodeMap1 \/ OpcodeMap23 \/ Opcode3DNow => KeepsResult
  BY DEF OpcodeMap0, OpcodeMap1, OpcodeMap23, Opcode3DNow, AtEscape, KeepsResult
<1>15. ModrmScanner => RunsOut \/ KeepsResult \/ FindsError
  BY DEF ModrmScanner, too_short, RunsOut, ShortError, KeepsResult, FindsError, ShortErrors
<1>16. SibScanner => RunsOut \/ KeepsResult
  BY DEF SibScanner, too_short, RunsOut, ShortError, KeepsResult
<1>17. DispScanner => RunsOut \/ KeepsResult
  BY DEF DispScanner, too_short, RunsOut, ShortError, KeepsResult
<1>18. ImmScanner3DNow => RunsOut \/ KeepsResult
  BY DEF ImmScanner3DNow, AfterImm, too_short, RunsOut, ShortError, KeepsResult
<1>19. ImmScanner => RunsOut \/ KeepsResult
  BY DEF ImmScanner, AfterImm, too_short, RunsOut, ShortError, KeepsResult
<1>20. LateEvex => KeepsResult
  BY DEF LateEvex, KeepsResult
<1>. QED
  BY <1>1, <1>2, <1>3, <1>4, <1>5, <1>6, <1>7, <1>8, <1>9, <1>10, <1>11, <1>12, <1>13, <1>14,
     <1>15, <1>16, <1>17, <1>18, <1>19, <1>20 DEF Next

(* no action changes what the caller gave *)
LEMMA InputsStay == Next => inputs' = inputs
<1>1. PrefixByte \/ PrefixesOut \/ VexNone \/ VexC4 \/ VexC5 \/ VexXop => inputs' = inputs
  BY DEF PrefixByte, PrefixesOut, VexNone, VexC4, BadMap, VexC5, VexXop
<1>2. VexShort \/ EvexShort \/ Rex2 \/ OpcodeShort => inputs' = inputs
  BY DEF VexShort, EvexShort, Rex2, OpcodeShort, RunOut
<1>3. EvexNone \/ EvexBadMap \/ EvexScan \/ CatchInvalid \/ Rex2None => inputs' = inputs
  BY DEF EvexNone, EvexBadMap, BadMap, EvexScan, CatchInvalid, Rex2None
<1>4. OpcodeMap0 \/ OpcodeMap1 \/ OpcodeMap23 \/ Opcode3DNow => inputs' = inputs
  BY DEF OpcodeMap0, OpcodeMap1, OpcodeMap23, Opcode3DNow
<1>5. ModrmScanner \/ SibScanner \/ DispScanner \/ ImmScanner3DNow \/ ImmScanner \/ LateEvex
         => inputs' = inputs
  BY DEF ModrmScanner, SibScanner, DispScanner, ImmScanner3DNow, ImmScanner, LateEvex
<1>. QED  BY <1>1, <1>2, <1>3, <1>4, <1>5 DEF Next

LEMMA OutOfBytesStep ==
    ASSUME IldInv, OutOfBytesInv, Next
    PROVE  OutOfBytesInv' /\ (out_of_bytes => out_of_bytes' /\ error' = error)
<1>1. ShortError' = ShortError
  BY InputsStay DEF ShortError, inputs
<1>2. ShortError \in ShortErrors
  BY DEF ShortError, ShortErrors
<1>3. CASE RunsOut
  BY <1>1, <1>2, <1>3 DEF RunsOut, OutOfBytesInv
<1>4. CASE KeepsResult
  BY <1>1, <1>4 DEF KeepsResult, OutOfBytesInv
<1>5. CASE FindsError
  BY <1>1, <1>2, <1>5 DEF FindsError, OutOfBytesInv
<1>. QED  BY <1>3, <1>4, <1>5, ResultOfStep

THEOREM OutOfBytesInvariant == Spec => []OutOfBytesInv
<1>1. Init => OutOfBytesInv
  BY DEF Init, OutOfBytesInv, ShortErrors
<1>2. IldInv /\ OutOfBytesInv /\ [Next]_vars => OutOfBytesInv'
  <2>1. IldInv /\ OutOfBytesInv /\ Next => OutOfBytesInv'
    BY OutOfBytesStep
  <2>2. OutOfBytesInv /\ UNCHANGED vars => OutOfBytesInv'
    BY DEF vars, OutOfBytesInv, ShortError
  <2>. QED  BY <2>1, <2>2
<1>. QED  BY <1>1, <1>2, IldInvariant, PTL DEF Spec

(* The result asks for bytes exactly when it says that some were missing,  *)
(* and says that the instruction is too long exactly when the longest was  *)
(* offered (too_short).                                                    *)
THEOREM OutOfBytesMeans == Spec => []OutOfBytesMeaning
<1>1. IldInv /\ OutOfBytesInv => OutOfBytesMeaning
  <2>. SUFFICES ASSUME IldInv, OutOfBytesInv PROVE OutOfBytesMeaning
    OBVIOUS
  <2>1. max_bytes >= MaxInstructionBytes <=> max_bytes = MaxInstructionBytes
    BY Numbers
  <2>. QED  BY <2>1 DEF OutOfBytesInv, OutOfBytesMeaning, ShortError, ShortErrors
<1>. QED  BY <1>1, IldInvariant, OutOfBytesInvariant, PTL

(* No scanner behind one that ran out of bytes withdraws or replaces that  *)
(* result.                                                                 *)
THEOREM OutOfBytesIsFinal == Spec => OutOfBytesSticks
<1>1. IldInv /\ OutOfBytesInv /\ [Next]_vars
         => [out_of_bytes => out_of_bytes' /\ error' = error]_vars
  BY OutOfBytesStep
<1>. QED  BY <1>1, IldInvariant, OutOfBytesInvariant, PTL DEF Spec, OutOfBytesSticks

-----------------------------------------------------------------------------
(* What the scanners read, as a number. *)
LEMMA ReadsAre ==
    ASSUME reads \in Nat
    PROVE  Most(reads, 0) = reads /\ \A n : Seen(n) <=> reads' = Most(reads, n)
BY DEF Most, Seen

LEMMA ScanFields ==
    /\ Scan.pc = pc /\ Scan.length = length /\ Scan.reads = reads /\ Scan.error = error
    /\ Scan.pfx = pfx /\ Scan.enc = enc /\ Scan.mrm = mrm /\ Scan.imd = imd
    /\ Asked.itext = itext /\ Asked.max_bytes = max_bytes /\ Asked.cfg = cfg
BY DEF Scan, State, Asked

(* A scanner that runs out of bytes, in both descriptions. *)
LEMMA ScanShort ==
    ASSUME too_short, NEW r, reads' = Most(reads, r)
    PROVE  Scan' = With(Short(Asked, Goes(Scan, pc', length', r)), pfx', enc', mrm', imd')
<1>1. out_of_bytes' = TRUE /\ error' = ShortError
  BY Zenon DEF too_short, ShortError
<1>2. Scan' = State(pc', length', TRUE, ShortError, reads', pfx', enc', mrm', imd')
  BY <1>1, Zenon DEF Scan
<1>3. With(Short(Asked, Goes(Scan, pc', length', r)), pfx', enc', mrm', imd')
    = State(pc', length', TRUE, ShortError, Most(reads, r), pfx', enc', mrm', imd')
  BY DEF With, Short, Goes, State, ShortError, Asked, Scan
<1>. QED  BY <1>2, <1>3
LEMMA ScanRunOut ==
    ASSUME reads \in Nat, NEW n, NEW r, RunOut(n), Seen(r)
    PROVE  Scan' = Short(Asked, Goes(Scan, "done", n, r))
<1>1. reads' = Most(reads, r)
  BY ReadsAre
<1>2. /\ too_short /\ pc' = "done" /\ length' = n
      /\ pfx' = pfx /\ enc' = enc /\ mrm' = mrm /\ imd' = imd
  BY DEF RunOut
<1>3. Scan' = With(Short(Asked, Goes(Scan, "done", n, r)), pfx, enc, mrm, imd)
  BY <1>1, <1>2, ScanShort
<1>4. With(Short(Asked, Goes(Scan, "done", n, r)), pfx, enc, mrm, imd) = Short(Asked, Goes(Scan, "done", n, r))
  BY DEF With, Short, Goes, State, Asked, Scan
<1>. QED  BY <1>3, <1>4

LEMMA StepOfPrefix == ASSUME IldInv, PrefixByte \/ PrefixesOut PROVE Scan' = Step(Asked, Scan)
<1>1. length \in Nat /\ max_bytes \in Nat
  BY Numbers
<1>2. Most(reads, 0) = reads /\ \A n : Seen(n) <=> reads' = Most(reads, n)
  BY Numbers, ReadsAre
<1>3. Step(Asked, Scan) = AfterPrefixScanner(Asked, Scan)
  BY ScanFields DEF Step, PrefixByte, PrefixesOut
<1>4. CASE PrefixesOut /\ length >= max_bytes
  <2>1. /\ too_short /\ pc' = "done" /\ length' = length /\ reads' = reads
        /\ pfx' = PfxDerived(cfg, pfx) /\ enc' = EncDerived(pfx, enc) /\ mrm' = mrm /\ imd' = imd
    BY <1>1, <1>2, <1>4 DEF PrefixesOut, PfxDerived, EncDerived
  <2>2. AfterPrefixScanner(Asked, Scan)
      = Short(Asked, Goes(With(Scan, PfxDerived(cfg, pfx), EncDerived(pfx, enc), mrm, imd), "done", length, 0))
    BY <1>1, <1>4, ScanFields DEF AfterPrefixScanner, With, State
  <2>3. AfterPrefixScanner(Asked, Scan)
      = With(Short(Asked, Goes(Scan, "done", length, 0)), PfxDerived(cfg, pfx), EncDerived(pfx, enc), mrm, imd)
    BY <2>2 DEF Short, Goes, With, State, Asked, Scan
  <2>4. Scan' = With(Short(Asked, Goes(Scan, "done", length, 0)), pfx', enc', mrm', imd')
    BY <1>2, <2>1, ScanShort
  <2>. QED  BY <1>3, <2>1, <2>3, <2>4
<1>. USE DEF Scan, State, Asked, Goes, With, Short, inputs, Byte, ByteOf, In64, mode_64b
<1>5. \A b : IsPrefixByte(b) <=> IsPrefixIn(cfg, b)
  BY DEF IsPrefixByte, IsPrefixIn
<1>6. CASE PrefixByte
  <2>1. \A b : AfterPrefix(b) = PfxAfter(cfg, pfx, b)
    BY DEF AfterPrefix, PfxAfter, SegmentPrefix, SegHint, SegKept, RepPrefix, HintAfter, SegAfter
  <2>. QED  BY <1>1, <1>2, <1>3, <1>5, <1>6, <2>1, ZenonT(30) DEF PrefixByte, PfxCounted, AfterPrefixScanner
<1>7. CASE PrefixesOut /\ length < max_bytes
  BY <1>1, <1>2, <1>3, <1>5, <1>7 DEF PrefixesOut, AfterPrefixScanner, PfxDerived, EncDerived
<1>. QED  BY <1>1, <1>4, <1>6, <1>7

LEMMA StepOfVexShort == ASSUME IldInv, VexShort PROVE Scan' = Step(Asked, Scan)
<1>1. length \in Nat /\ max_bytes \in Nat /\ cfg.no_vex = 0 /\ pc = "vex"
  BY Numbers DEF VexShort
<1>2. Most(reads, 0) = reads /\ \A n : Seen(n) <=> reads' = Most(reads, n)
  BY Numbers, ReadsAre
<1>3. Step(Asked, Scan) = AfterVexScanner(Asked, Scan)
  BY <1>1, ScanFields DEF Step
<1>4. PICK n, r : /\ AfterVexScanner(Asked, Scan) = Short(Asked, Goes(Scan, "done", n, r))
                  /\ RunOut(n) /\ Seen(r)
  <2>1. CASE length + 1 >= max_bytes
    <3>1. \/ IsXop /\ RunOut(length) /\ Byte(length) \notin {\hC4, \hC5}
          \/ ~IsXop /\ RunOut(max_bytes) /\ Byte(length) \in {\hC4, \hC5}
      BY <1>1, <2>1 DEF VexShort, IsXop
    <3>. QED  BY <1>1, <2>1, <3>1, ScanFields DEF VexShort, VexMap, AfterVexScanner, IsXop, ByteOf, Byte
  <2>2. CASE length + 1 < max_bytes
    <3>1. /\ MemoryModrm(Asked, length + 1) <=> ModrmIsMemory(length + 1)
          /\ \A i : ByteOf(Asked, i) = Byte(i)
      BY ScanFields DEF MemoryModrm, ModrmIsMemory, In64, mode_64b, ByteOf, Byte
    <3>2. RunOut(max_bytes) /\ Seen(length + 2)
      BY <1>1, <2>2 DEF VexShort
    <3>3. CASE Byte(length) = \hC4
      BY <1>1, <2>2, <3>1, <3>2, <3>3, ScanFields DEF VexShort, VexMap, AfterVexScanner, IsXop
    <3>4. CASE Byte(length) = \hC5
      BY <1>1, <2>2, <3>1, <3>2, <3>4, ScanFields DEF VexShort, VexMap, AfterVexScanner, IsXop
    <3>5. CASE IsXop
      BY <1>1, <2>2, <3>1, <3>2, <3>5, ScanFields DEF VexShort, VexMap, AfterVexScanner, IsXop
    <3>. QED  BY <1>1, <2>2, <3>3, <3>4, <3>5 DEF VexShort
  <2>. QED  BY <1>1, <2>1, <2>2
<1>. QED  BY <1>3, <1>4, Numbers, ScanRunOut

LEMMA StepOfVex == ASSUME IldInv, VexNone \/ VexShort \/ VexC4 \/ VexC5 \/ VexXop
                   PROVE  Scan' = Step(Asked, Scan)
<1>1. length \in Nat /\ max_bytes \in Nat /\ cfg.no_vex \in Bit
  BY Numbers DEF IldInv, TypeOK, Config
<1>2. Most(reads, 0) = reads /\ \A n : Seen(n) <=> reads' = Most(reads, n)
  BY Numbers, ReadsAre
<1>. USE DEF Scan, State, Asked, Goes, With, WithEnc, Says, Short, inputs, Byte, ByteOf,
             In64, mode_64b, MemoryModrm, ModrmIsMemory, IsXop
<1>3. Step(Asked, Scan) = AfterVexScanner(Asked, Scan)
  BY DEF Step, VexNone, VexShort, VexC4, VexC5, VexXop
<1>4. CASE VexNone /\ cfg.no_vex = 1
  BY <1>1, <1>2, <1>3, <1>4 DEF VexNone, AfterVexScanner
<1>5. CASE VexNone /\ cfg.no_vex # 1
  BY <1>1, <1>2, <1>3, <1>5 DEF VexNone, AfterVexScanner, Bit
<1>6. CASE VexShort
  BY <1>6, StepOfVexShort
<1>8. CASE VexC4 /\ ValidVexMap(Bits(Byte(length + 1), 0, 5))
  BY <1>1, <1>2, <1>3, <1>8 DEF VexC4, VexMap, VexFields, VexEnc, BadVexEnc, AfterVexScanner, WithOpcode, WithOpcodeOf
<1>9. CASE VexC4 /\ ~ValidVexMap(Bits(Byte(length + 1), 0, 5))
  BY <1>1, <1>2, <1>3, <1>9 DEF VexC4, VexMap, VexFields, VexEnc, BadVexEnc, AfterVexScanner, BadMap
<1>10. CASE VexC5
  BY <1>1, <1>2, <1>3, <1>10 DEF VexC5, AfterVexScanner, WithOpcode, WithOpcodeOf
<1>11. CASE VexXop
  BY <1>1, <1>2, <1>3, <1>11 DEF VexXop, VexMap, XopEnc, AfterVexScanner, WithOpcode, WithOpcodeOf
<1>. QED  BY <1>4, <1>5, <1>6, <1>8, <1>9, <1>10, <1>11

LEMMA StepOfEvex == ASSUME IldInv, EvexNone \/ EvexShort \/ EvexBadMap \/ EvexScan
                    PROVE  Scan' = Step(Asked, Scan)
<1>1. length \in Nat /\ max_bytes \in Nat /\ pc = "evex"
  BY Numbers DEF EvexNone, EvexShort, EvexBadMap, EvexScan
<1>2. Most(reads, 0) = reads /\ \A n : Seen(n) <=> reads' = Most(reads, n)
  BY Numbers, ReadsAre
<1>3. Step(Asked, Scan) = AfterEvexScanner(Asked, Scan)
  BY <1>1, ScanFields DEF Step
<1>4. /\ MemoryModrm(Asked, length + 1) <=> ModrmIsMemory(length + 1)
      /\ \A i : ByteOf(Asked, i) = Byte(i)
      /\ HasAvx512(Asked.cfg) <=> decoder_supports_avx512
      /\ \A b : EvexMapOf(Asked.cfg, b) = EvexMap(b)
      /\ \A b : ErrorOfPayload3(Asked.cfg, b, error) = EvexPayload3Error(b)
  BY ScanFields DEF MemoryModrm, ModrmIsMemory, In64, mode_64b, ByteOf, Byte, HasAvx512, decoder_supports_avx512,
     EvexMapOf, EvexMap, HasApx, decoder_supports_apx, ErrorOfPayload3, EvexPayload3Error
<1>5. CASE EvexNone
  <2>1. /\ pc' = IF enc.vexvalid # Legacy THEN "catch_invalid" ELSE "rex2"
        /\ length' = length /\ out_of_bytes' = out_of_bytes /\ error' = error
        /\ pfx' = pfx /\ enc' = enc /\ mrm' = mrm /\ imd' = imd
    BY <1>5 DEF EvexNone
  <2>2. PICK r : /\ AfterEvexScanner(Asked, Scan) = Goes(Scan, pc', length, r)
                 /\ reads' = Most(reads, r)
    <3>1. CASE enc.vexvalid # Legacy
      BY <1>2, <1>5, <2>1, <3>1, ScanFields DEF EvexNone, AfterEvexScanner, IsEvex
    <3>2. CASE enc.vexvalid = Legacy /\ ~decoder_supports_avx512
      BY <1>2, <1>4, <1>5, <2>1, <3>2, ScanFields DEF EvexNone, AfterEvexScanner, IsEvex
    <3>3. CASE enc.vexvalid = Legacy /\ decoder_supports_avx512 /\ Byte(length) # \h62
      BY <1>2, <1>4, <1>5, <2>1, <3>3, ScanFields DEF EvexNone, AfterEvexScanner, IsEvex
    <3>4. CASE IsEvex
      BY <1>1, <1>2, <1>4, <1>5, <2>1, <3>4, ScanFields DEF EvexNone, AfterEvexScanner, IsEvex
    <3>. QED  BY <3>1, <3>2, <3>3, <3>4 DEF IsEvex
  <2>. QED  BY <1>3, <2>1, <2>2 DEF Goes, State, Scan
<1>6. CASE EvexShort /\ length + 1 >= max_bytes
  <2>1. Seen(length + 1) /\ RunOut(max_bytes)
    BY <1>1, <1>6 DEF EvexShort
  <2>2. AfterEvexScanner(Asked, Scan) = Short(Asked, Goes(Scan, "done", max_bytes, length + 1))
    BY <1>1, <1>4, <1>6, ScanFields DEF EvexShort, IsEvex, AfterEvexScanner
  <2>. QED  BY <1>3, <2>1, <2>2, Numbers, ScanRunOut
<1>7. CASE EvexShort /\ length + 1 < max_bytes
  <2>. DEFINE e == EvexMapped(enc, EvexMap(Byte(length + 1)))
  <2>1. /\ too_short /\ pc' = "done" /\ length' = max_bytes /\ reads' = Most(reads, length + 2)
        /\ pfx' = pfx /\ enc' = e /\ mrm' = mrm /\ imd' = imd
    BY <1>1, <1>2, <1>7 DEF EvexShort, EvexMapped
  <2>2. AfterEvexScanner(Asked, Scan) = WithEnc(Short(Asked, Goes(Scan, "done", max_bytes, length + 2)), e)
    BY <1>1, <1>4, <1>7, ScanFields DEF EvexShort, IsEvex, AfterEvexScanner
  <2>. HIDE DEF e
  <2>3. Scan' = With(Short(Asked, Goes(Scan, "done", max_bytes, length + 2)), pfx, e, mrm, imd)
    BY <2>1, ScanShort
  <2>4. AfterEvexScanner(Asked, Scan) = With(Short(Asked, Goes(Scan, "done", max_bytes, length + 2)), pfx, e, mrm, imd)
    BY <2>2 DEF WithEnc, With, Short, Goes, State, Scan
  <2>. QED  BY <1>3, <2>3, <2>4
<1>8. CASE EvexBadMap
  <2>1. CASE EvexMap(Byte(length + 1)) = 0
    BY <1>1, <1>2, <1>3, <1>4, <1>8, <2>1 DEF EvexBadMap, IsEvex, BadMap, AfterEvexScanner, EvexMapped,
       Scan, State, Asked, Goes, With, WithEnc, Says
  <2>2. CASE EvexMap(Byte(length + 1)) # 0
    BY <1>1, <1>2, <1>3, <1>4, <1>8, <2>2 DEF EvexBadMap, IsEvex, BadMap, AfterEvexScanner, EvexMapped,
       Scan, State, Asked, Goes, With, WithEnc, Says
  <2>. QED  BY <2>1, <2>2
<1>9. CASE EvexScan
  <2>1. EvexMap(Byte(length + 1)) # 0
    BY <1>9 DEF EvexScan, ValidEvexMap
  <2>. DEFINE e == EvexEnc(enc, EvexMap(Byte(length + 1)), Byte(length + 2), Byte(length + 3))
              p == EvexPfx(pfx, Byte(length + 2))
  <2>2. /\ enc' = WithOpcode(e, length + 4) /\ pfx' = p
        /\ error' = EvexPayload3Error(Byte(length + 3))
        /\ length' = length + 5 /\ reads' = Most(reads, length + 5)
        /\ pc' = "catch_invalid" /\ out_of_bytes' = out_of_bytes /\ mrm' = mrm /\ imd' = imd
    BY <1>2, <1>9 DEF EvexScan, EvexEnc, EvexPfx
  <2>3. AfterEvexScanner(Asked, Scan)
      = Says(With(Goes(Scan, "catch_invalid", length + 5, length + 5), p,
                  WithOpcodeOf(Asked, e, length + 4), mrm, imd), EvexPayload3Error(Byte(length + 3)))
    BY <1>1, <1>4, <1>9, <2>1, ScanFields DEF EvexScan, IsEvex, AfterEvexScanner
  <2>4. WithOpcodeOf(Asked, e, length + 4) = WithOpcode(e, length + 4)
    BY <1>4 DEF WithOpcode, WithOpcodeOf
  <2>. HIDE DEF e, p
  <2>. QED  BY <1>3, <2>2, <2>3, <2>4 DEF Scan, State, Goes, With, Says
<1>. QED  BY <1>1, <1>5, <1>6, <1>7, <1>8, <1>9 DEF EvexShort

LEMMA StepOfCatchInvalid == ASSUME IldInv, CatchInvalid PROVE Scan' = Step(Asked, Scan)
<1>1. Most(reads, 0) = reads
  BY Numbers, ReadsAre
<1>. QED  BY <1>1 DEF CatchInvalid, Step, AfterCatchInvalid, Scan, State, Asked, Goes, Says, In64, mode_64b

LEMMA StepOfRex2 == ASSUME IldInv, Rex2None \/ Rex2 PROVE Scan' = Step(Asked, Scan)
<1>1. length \in Nat /\ max_bytes \in Nat /\ pc = "rex2"
  BY Numbers DEF Rex2None, Rex2
<1>2. Most(reads, 0) = reads /\ \A n : Seen(n) <=> reads' = Most(reads, n)
  BY Numbers, ReadsAre
<1>3. Step(Asked, Scan) = AfterRex2Scanner(Asked, Scan)
  BY <1>1, ScanFields DEF Step
<1>4. /\ \A i : ByteOf(Asked, i) = Byte(i)
      /\ HasApx(Asked.cfg) <=> decoder_supports_apx
  BY ScanFields DEF In64, mode_64b, ByteOf, Byte, HasApx, decoder_supports_apx
<1>5. CASE Rex2None
  BY <1>1, <1>2, <1>3, <1>4, <1>5 DEF Rex2None, AfterRex2Scanner, Scan, State, Asked, Goes
<1>6. CASE Rex2 /\ length + 1 >= max_bytes
  <2>1. Seen(length + 1) /\ RunOut(max_bytes)
    BY <1>1, <1>6 DEF Rex2
  <2>2. AfterRex2Scanner(Asked, Scan) = Short(Asked, Goes(Scan, "done", max_bytes, length + 1))
    BY <1>1, <1>4, <1>6, ScanFields DEF Rex2, AfterRex2Scanner
  <2>. QED  BY <1>3, <2>1, <2>2, Numbers, ScanRunOut
<1>7. CASE Rex2 /\ length + 2 = max_bytes
  <2>. DEFINE e == Rex2Enc(enc, Byte(length + 1))
  <2>1. /\ too_short /\ pc' = "done" /\ length' = max_bytes /\ reads' = Most(reads, length + 2)
        /\ pfx' = pfx /\ enc' = e /\ mrm' = mrm /\ imd' = imd
    BY <1>1, <1>2, <1>7 DEF Rex2, Rex2Enc
  <2>2. AfterRex2Scanner(Asked, Scan) = WithEnc(Short(Asked, Goes(Scan, "done", max_bytes, length + 2)), e)
    BY <1>1, <1>4, <1>7, ScanFields DEF Rex2, AfterRex2Scanner
  <2>. HIDE DEF e
  <2>3. Scan' = With(Short(Asked, Goes(Scan, "done", max_bytes, length + 2)), pfx, e, mrm, imd)
    BY <2>1, ScanShort
  <2>4. AfterRex2Scanner(Asked, Scan) = With(Short(Asked, Goes(Scan, "done", max_bytes, length + 2)), pfx, e, mrm, imd)
    BY <2>2 DEF WithEnc, With, Short, Goes, State, Scan
  <2>. QED  BY <1>3, <2>3, <2>4
<1>8. CASE Rex2 /\ length + 2 < max_bytes
  <2>. DEFINE e == Rex2Enc(enc, Byte(length + 1))
              said == IF pfx.rex = 1 THEN "BAD_REX_PREFIX" ELSE error
  <2>1. /\ enc' = WithOpcode(e, length + 2) /\ pfx' = pfx /\ error' = said
        /\ length' = length + 3 /\ reads' = Most(reads, length + 3)
        /\ pc' = "modrm" /\ out_of_bytes' = out_of_bytes /\ mrm' = mrm /\ imd' = imd
    BY <1>1, <1>2, <1>8 DEF Rex2, Rex2Enc
  <2>2. AfterRex2Scanner(Asked, Scan)
      = Says(WithEnc(Goes(Scan, "modrm", length + 3, length + 3), WithOpcodeOf(Asked, e, length + 2)), said)
    BY <1>1, <1>4, <1>8, ScanFields DEF Rex2, AfterRex2Scanner
  <2>3. WithOpcodeOf(Asked, e, length + 2) = WithOpcode(e, length + 2)
    BY <1>4 DEF WithOpcode, WithOpcodeOf
  <2>. HIDE DEF e, said
  <2>. QED  BY <1>3, <2>1, <2>2, <2>3 DEF Scan, State, Goes, With, WithEnc, Says
<1>. QED  BY <1>1, <1>5, <1>6, <1>7, <1>8
LEMMA StepOfOpcode ==
    ASSUME IldInv, OpcodeMap0 \/ OpcodeShort \/ OpcodeMap1 \/ OpcodeMap23 \/ Opcode3DNow
    PROVE  Scan' = Step(Asked, Scan)
<1>. DEFINE map == EscapeMap(Byte(length + 1))
            e == EscapedEnc(enc, map)
<1>1. length \in Nat /\ max_bytes \in Nat /\ pc = "opcode"
  BY Numbers DEF OpcodeMap0, OpcodeShort, OpcodeMap1, OpcodeMap23, Opcode3DNow, AtEscape
<1>2. Most(reads, 0) = reads /\ \A n : Seen(n) <=> reads' = Most(reads, n)
  BY Numbers, ReadsAre
<1>3. Step(Asked, Scan) = AfterOpcodeScanner(Asked, Scan)
  BY <1>1, ScanFields DEF Step
<1>4. /\ \A i : ByteOf(Asked, i) = Byte(i)
      /\ Escaped = e
      /\ Escaped.map = map
      /\ \A k, n : WithOpcodeOf(Asked, k, n) = WithOpcode(k, n)
  <2>1. \A i : ByteOf(Asked, i) = Byte(i)
    BY ScanFields DEF ByteOf, Byte
  <2>2. Escaped = e
    BY DEF Escaped, EscapedEnc
  <2>3. e.map = map
    BY DEF EscapedEnc, IldInv, TypeOK, EncType
  <2>. QED  BY <2>1, <2>2, <2>3 DEF WithOpcode, WithOpcodeOf
<1>5. CASE OpcodeMap0
  <2>. DEFINE k == WithOpcode([enc EXCEPT !.map = 0], length)
  <2>1. /\ pc' = "modrm" /\ length' = length + 1 /\ reads' = Most(reads, length + 1) /\ enc' = k
        /\ out_of_bytes' = out_of_bytes /\ error' = error /\ pfx' = pfx /\ mrm' = mrm /\ imd' = imd
    BY <1>2, <1>5 DEF OpcodeMap0
  <2>2. AfterOpcodeScanner(Asked, Scan) = WithEnc(Goes(Scan, "modrm", length + 1, length + 1), k)
    BY <1>1, <1>4, <1>5, ScanFields DEF OpcodeMap0, AfterOpcodeScanner
  <2>. HIDE DEF k
  <2>. QED  BY <1>3, <2>1, <2>2 DEF Scan, State, Goes, With, WithEnc
<1>. HIDE DEF map, e
<1>6. CASE OpcodeShort /\ length + 1 >= max_bytes
  <2>1. Seen(length + 1) /\ RunOut(length)
    BY <1>1, <1>6 DEF OpcodeShort
  <2>2. AfterOpcodeScanner(Asked, Scan) = Short(Asked, Goes(Scan, "done", length, length + 1))
    BY <1>1, <1>4, <1>6, ScanFields DEF OpcodeShort, AtEscape, AfterOpcodeScanner
  <2>. QED  BY <1>3, <2>1, <2>2, Numbers, ScanRunOut
<1>7. CASE OpcodeShort /\ length + 1 < max_bytes
  <2>1. /\ too_short /\ pc' = "done" /\ length' = length + 2 /\ reads' = Most(reads, length + 2)
        /\ pfx' = pfx /\ enc' = e /\ mrm' = mrm /\ imd' = imd
    BY <1>1, <1>2, <1>4, <1>7 DEF OpcodeShort
  <2>2. AfterOpcodeScanner(Asked, Scan) = WithEnc(Short(Asked, Goes(Scan, "done", length + 2, length + 2)), e)
    BY <1>1, <1>4, <1>7, ScanFields DEF OpcodeShort, AtEscape, AfterOpcodeScanner, map, e, Amd3DNow
  <2>3. Scan' = With(Short(Asked, Goes(Scan, "done", length + 2, length + 2)), pfx, e, mrm, imd)
    BY <2>1, ScanShort
  <2>4. AfterOpcodeScanner(Asked, Scan) = With(Short(Asked, Goes(Scan, "done", length + 2, length + 2)), pfx, e, mrm, imd)
    BY <2>2 DEF WithEnc, With, Short, Goes, State, Scan
  <2>. QED  BY <1>3, <2>3, <2>4
<1>8. ASSUME OpcodeMap1 \/ OpcodeMap23 PROVE Scan' = Step(Asked, Scan)
  <2>. DEFINE n == IF OpcodeMap1 THEN length + 2 ELSE length + 3
              k == WithOpcode(e, IF OpcodeMap1 THEN length + 1 ELSE length + 2)
  <2>1. /\ pc' = "modrm" /\ length' = n /\ reads' = Most(reads, n) /\ enc' = k
        /\ out_of_bytes' = out_of_bytes /\ error' = error /\ pfx' = pfx /\ mrm' = mrm /\ imd' = imd
    BY <1>2, <1>4, <1>8 DEF OpcodeMap1, OpcodeMap23
  <2>2. AfterOpcodeScanner(Asked, Scan) = WithEnc(Goes(Scan, "modrm", n, n), k)
    <3>1. CASE OpcodeMap1
      BY <1>1, <1>4, <3>1, ScanFields DEF OpcodeMap1, AtEscape, AfterOpcodeScanner, map, e
    <3>2. CASE OpcodeMap23 /\ ~OpcodeMap1
      BY <1>1, <1>4, <3>2, ScanFields DEF OpcodeMap23, AtEscape, AfterOpcodeScanner, map, e, Amd3DNow
    <3>. QED  BY <1>8, <3>1, <3>2
  <2>. HIDE DEF n, k
  <2>. QED  BY <1>3, <2>1, <2>2 DEF Scan, State, Goes, With, WithEnc
<1>9. CASE Opcode3DNow
  <2>. DEFINE k == As3DNow(e)
  <2>1. /\ pc' = "modrm" /\ length' = length + 2 /\ reads' = Most(reads, length + 2) /\ enc' = k
        /\ out_of_bytes' = out_of_bytes /\ error' = error /\ pfx' = pfx /\ mrm' = mrm /\ imd' = imd
    BY <1>2, <1>4, <1>9 DEF Opcode3DNow, As3DNow
  <2>2. AfterOpcodeScanner(Asked, Scan) = WithEnc(Goes(Scan, "modrm", length + 2, length + 2), k)
    BY <1>1, <1>4, <1>9, ScanFields DEF Opcode3DNow, AtEscape, AfterOpcodeScanner, map, e, Amd3DNow
  <2>. HIDE DEF k
  <2>. QED  BY <1>3, <2>1, <2>2 DEF Scan, State, Goes, With, WithEnc
<1>. QED  BY <1>1, <1>5, <1>6, <1>7, <1>8, <1>9 DEF OpcodeShort

LEMMA StepOfModrm == ASSUME IldInv, ModrmScanner PROVE Scan' = Step(Asked, Scan)
<1>. DEFINE b == Byte(length)
            mod == Bits(b, 6, 2)
            regular == HasModrm # ModrmIgnoreMod
            ea == EaMode(cfg.mode, pfx.asz)
            m0 == HasModrmIs(mrm, HasModrm)
            m1 == ModrmRead(mrm, HasModrm, length, b, regular /\ HasSib(ea, mod, Bits(b, 0, 3)))
            d1 == DispIs(imd, IF regular THEN HasDispRegular(ea, mod, Bits(b, 0, 3)) ELSE imd.disp_width)
            said == IF BadLL(mod) THEN "BAD_EVEX_LL" ELSE error
<1>1. length \in Nat /\ max_bytes \in Nat /\ pc = "modrm" /\ pc' = "sib" /\ pfx' = pfx /\ enc' = enc
  BY Numbers DEF ModrmScanner
<1>2. Most(reads, 0) = reads /\ \A n : Seen(n) <=> reads' = Most(reads, n)
  BY Numbers, ReadsAre
<1>3. Step(Asked, Scan) = AfterModrmScanner(Asked, Scan)
  BY <1>1, ScanFields DEF Step
<1>4. ByteOf(Asked, length) = b /\ ModrmOf(cfg, enc) = HasModrm
  BY ScanFields DEF ByteOf, Byte, ModrmOf, HasModrm
<1>5. CASE HasModrm = ModrmFalse
  <2>1. mrm' = m0 /\ imd' = imd /\ length' = length /\ out_of_bytes' = out_of_bytes /\ error' = error /\ reads' = reads
    BY <1>5 DEF ModrmScanner, HasModrmIs
  <2>2. AfterModrmScanner(Asked, Scan) = Goes(With(Scan, pfx, enc, m0, imd), "sib", length, 0)
    BY <1>4, <1>5, ScanFields DEF AfterModrmScanner
  <2>. HIDE DEF m0
  <2>. QED  BY <1>1, <1>2, <1>3, <2>1, <2>2 DEF Scan, State, Goes, With
<1>6. CASE HasModrm # ModrmFalse /\ length >= max_bytes
  <2>1. mrm' = m0 /\ imd' = imd /\ length' = length /\ too_short /\ reads' = reads
    BY <1>1, <1>6 DEF ModrmScanner, HasModrmIs
  <2>2. AfterModrmScanner(Asked, Scan) = Short(Asked, Goes(With(Scan, pfx, enc, m0, imd), "sib", length, 0))
    BY <1>4, <1>6, ScanFields DEF AfterModrmScanner
  <2>. HIDE DEF m0
  <2>3. Scan' = With(Short(Asked, Goes(Scan, "sib", length, 0)), pfx, enc, m0, imd)
    BY <1>1, <1>2, <2>1, ScanShort
  <2>4. AfterModrmScanner(Asked, Scan) = With(Short(Asked, Goes(Scan, "sib", length, 0)), pfx, enc, m0, imd)
    BY <2>2 DEF With, Short, Goes, State, Scan, Asked
  <2>. QED  BY <1>3, <2>3, <2>4
<1>7. CASE HasModrm # ModrmFalse /\ length < max_bytes
  <2>1. /\ mrm' = m1 /\ imd' = d1 /\ length' = length + 1 /\ out_of_bytes' = out_of_bytes
        /\ error' = said /\ reads' = Most(reads, length + 1)
    BY <1>1, <1>2, <1>7 DEF ModrmScanner, ModrmRead, DispIs
  <2>2. AfterModrmScanner(Asked, Scan)
      = Says(With(Goes(Scan, "sib", length + 1, length + 1), pfx, enc, m1, d1), said)
    BY <1>1, <1>4, <1>7, ScanFields DEF AfterModrmScanner, BadLL
  <2>. HIDE DEF m1, d1, said
  <2>. QED  BY <1>1, <1>3, <2>1, <2>2 DEF Scan, State, Goes, With, Says
<1>. QED  BY <1>1, <1>5, <1>6, <1>7

LEMMA StepOfSib == ASSUME IldInv, SibScanner PROVE Scan' = Step(Asked, Scan)
<1>1. length \in Nat /\ max_bytes \in Nat /\ pc = "sib" /\ pc' = "disp" /\ pfx' = pfx /\ enc' = enc
  BY Numbers DEF SibScanner
<1>2. Most(reads, 0) = reads /\ \A n : Seen(n) <=> reads' = Most(reads, n)
  BY Numbers, ReadsAre
<1>3. Step(Asked, Scan) = AfterSibScanner(Asked, Scan)
  BY <1>1, ScanFields DEF Step
<1>4. ByteOf(Asked, length) = Byte(length)
  BY ScanFields DEF ByteOf, Byte
<1>5. CASE ~mrm.has_sib
  BY <1>1, <1>2, <1>3, <1>5 DEF SibScanner, AfterSibScanner, Scan, State, Goes
<1>6. CASE mrm.has_sib /\ length >= max_bytes
  <2>1. mrm' = mrm /\ imd' = imd /\ length' = length /\ too_short /\ reads' = reads
    BY <1>1, <1>6 DEF SibScanner
  <2>2. AfterSibScanner(Asked, Scan) = Short(Asked, Goes(Scan, "disp", length, 0))
    BY <1>6, ScanFields DEF AfterSibScanner
  <2>3. Scan' = With(Short(Asked, Goes(Scan, "disp", length, 0)), pfx, enc, mrm, imd)
    BY <1>1, <1>2, <2>1, ScanShort
  <2>4. AfterSibScanner(Asked, Scan) = With(Short(Asked, Goes(Scan, "disp", length, 0)), pfx, enc, mrm, imd)
    BY <2>2 DEF With, Short, Goes, State, Scan, Asked
  <2>. QED  BY <1>3, <2>3, <2>4
<1>7. CASE mrm.has_sib /\ length < max_bytes
  <2>. DEFINE m1 == [mrm EXCEPT !.pos_sib = length]
              d1 == DispIs(imd, IF Bits(Byte(length), 0, 3) = 5 /\ mrm.mod = 0 THEN 4 ELSE imd.disp_width)
  <2>1. /\ mrm' = m1 /\ imd' = d1 /\ length' = length + 1 /\ out_of_bytes' = out_of_bytes
        /\ error' = error /\ reads' = Most(reads, length + 1)
    BY <1>1, <1>2, <1>7 DEF SibScanner, DispIs
  <2>2. AfterSibScanner(Asked, Scan) = With(Goes(Scan, "disp", length + 1, length + 1), pfx, enc, m1, d1)
    BY <1>1, <1>4, <1>7, ScanFields DEF AfterSibScanner
  <2>. HIDE DEF m1, d1
  <2>. QED  BY <1>1, <1>3, <2>1, <2>2 DEF Scan, State, Goes, With
<1>. QED  BY <1>1, <1>5, <1>6, <1>7
LEMMA StepOfDisp == ASSUME IldInv, DispScanner PROVE Scan' = Step(Asked, Scan)
<1>. DEFINE w == DispBytes
            d == DispIs(imd, w)
            d1 == DispFound(imd, w, length)
<1>1. /\ length \in Nat /\ max_bytes \in Nat /\ pc = "disp" /\ pc' = "imm"
      /\ pfx' = pfx /\ enc' = enc /\ mrm' = mrm
  BY Numbers DEF DispScanner
<1>2. Most(reads, 0) = reads /\ \A n : Seen(n) <=> reads' = Most(reads, n)
  BY Numbers, ReadsAre
<1>3. Step(Asked, Scan) = AfterDispScanner(Asked, Scan)
  BY <1>1, ScanFields DEF Step
<1>4. DispOf(Asked.cfg, Scan) = w
  BY ScanFields DEF DispOf, ContextOf, DispBytes, Cx
<1>5. w \in Nat
  BY <1>1, DispBytesRange, WidthsNat
<1>. HIDE DEF w
<1>6. CASE w = 0
  <2>1. imd' = d /\ length' = length /\ out_of_bytes' = out_of_bytes /\ error' = error /\ reads' = reads
    BY <1>1, <1>5, <1>6 DEF DispScanner, DispIs, DispFound, w
  <2>2. AfterDispScanner(Asked, Scan) = WithImd(Goes(Scan, "imm", length, 0), d)
    BY <1>4, <1>6, ScanFields DEF AfterDispScanner
  <2>. HIDE DEF d
  <2>. QED  BY <1>1, <1>2, <1>3, <2>1, <2>2 DEF Scan, State, Goes, With, WithImd
<1>7. CASE w # 0 /\ length + w <= max_bytes
  <2>1. /\ imd' = d1 /\ length' = length + w /\ out_of_bytes' = out_of_bytes /\ error' = error
        /\ reads' = Most(reads, length + w)
    BY <1>1, <1>2, <1>5, <1>7 DEF DispScanner, DispIs, DispFound, w
  <2>2. AfterDispScanner(Asked, Scan) = WithImd(Goes(Scan, "imm", length + w, length + w), d1)
    BY <1>4, <1>7, ScanFields DEF AfterDispScanner
  <2>. HIDE DEF d1
  <2>. QED  BY <1>1, <1>3, <2>1, <2>2 DEF Scan, State, Goes, With, WithImd
<1>8. CASE w # 0 /\ length + w > max_bytes
  <2>1. imd' = d /\ length' = length /\ too_short /\ reads' = reads
    BY <1>1, <1>5, <1>8 DEF DispScanner, DispIs, DispFound, w
  <2>2. AfterDispScanner(Asked, Scan) = WithImd(Short(Asked, Goes(Scan, "imm", length, 0)), d)
    BY <1>1, <1>4, <1>5, <1>8, ScanFields DEF AfterDispScanner
  <2>. HIDE DEF d
  <2>3. Scan' = With(Short(Asked, Goes(Scan, "imm", length, 0)), pfx, enc, mrm, d)
    BY <1>1, <1>2, <2>1, ScanShort
  <2>4. AfterDispScanner(Asked, Scan) = With(Short(Asked, Goes(Scan, "imm", length, 0)), pfx, enc, mrm, d)
    BY <2>2 DEF WithImd, With, Short, Goes, State, Scan, Asked
  <2>. QED  BY <1>3, <2>3, <2>4
<1>. QED  BY <1>1, <1>5, <1>6, <1>7, <1>8

LEMMA StepOfImm == ASSUME IldInv, ImmScanner \/ ImmScanner3DNow PROVE Scan' = Step(Asked, Scan)
<1>. DEFINE w == ImmBytes.imm
            w1 == ImmBytes.imm1
            d == ImmIs(imd, w, w1)
            to == IF enc.vexvalid = Evex THEN "late_evex" ELSE "done"
<1>1. /\ length \in Nat /\ max_bytes \in Nat /\ pc = "imm" /\ pc' = to
      /\ pfx' = pfx /\ mrm' = mrm
  BY Numbers DEF ImmScanner, ImmScanner3DNow, AfterImm
<1>2. Most(reads, 0) = reads /\ \A n : Seen(n) <=> reads' = Most(reads, n)
  BY Numbers, ReadsAre
<1>3. Step(Asked, Scan) = AfterImmScanner(Asked, Scan)
  BY <1>1, ScanFields DEF Step
<1>4. ImmOf(Asked.cfg, Scan).imm = w /\ ImmOf(Asked.cfg, Scan).imm1 = w1 /\ ByteOf(Asked, length) = Byte(length)
  <2>1. ImmOf(Asked.cfg, Scan) = ImmBytes
    BY ScanFields DEF ImmOf, ContextOf, ImmBytes, Cx
  <2>. QED  BY <2>1, ScanFields DEF ByteOf, Byte
<1>5. w \in Nat /\ w1 \in Nat
  <2>1. w \in Widths /\ w1 \in Bit
    BY <1>1, ImmBytesRange
  <2>2. w1 \in Nat
    BY <2>1 DEF Bit
  <2>. QED  BY <2>1, <2>2, WidthsNat
<1>. HIDE DEF w, w1, to
<1>6. CASE ImmScanner3DNow /\ length < max_bytes
  <2>. DEFINE k == OpcodeBehind(enc, Byte(length), length)
  <2>1. /\ imd' = d /\ enc' = k /\ length' = length + 1 /\ out_of_bytes' = out_of_bytes /\ error' = error
        /\ reads' = Most(reads, length + 1)
    BY <1>1, <1>2, <1>6 DEF ImmScanner3DNow, ImmIs, OpcodeBehind, w, w1
  <2>2. AfterImmScanner(Asked, Scan) = With(Goes(Scan, to, length + 1, length + 1), pfx, k, mrm, d)
    BY <1>4, <1>6, ScanFields DEF ImmScanner3DNow, AfterImmScanner, to
  <2>. HIDE DEF d, k
  <2>. QED  BY <1>1, <1>3, <2>1, <2>2 DEF Scan, State, Goes, With
<1>7. CASE ImmScanner3DNow /\ length >= max_bytes
  <2>1. imd' = d /\ enc' = enc /\ length' = length /\ too_short /\ reads' = reads
    BY <1>1, <1>7 DEF ImmScanner3DNow, ImmIs, OpcodeBehind, w, w1
  <2>2. AfterImmScanner(Asked, Scan) = WithImd(Short(Asked, Goes(Scan, to, length, 0)), d)
    BY <1>1, <1>4, <1>7, ScanFields DEF ImmScanner3DNow, AfterImmScanner, to
  <2>. HIDE DEF d
  <2>3. Scan' = With(Short(Asked, Goes(Scan, to, length, 0)), pfx, enc, mrm, d)
    BY <1>1, <1>2, <2>1, ScanShort
  <2>4. AfterImmScanner(Asked, Scan) = With(Short(Asked, Goes(Scan, to, length, 0)), pfx, enc, mrm, d)
    BY <2>2 DEF WithImd, With, Short, Goes, State, Scan, Asked
  <2>. QED  BY <1>3, <2>3, <2>4
<1>8. CASE ImmScanner /\ w = 0
  <2>1. /\ imd' = d /\ enc' = enc /\ length' = length /\ out_of_bytes' = out_of_bytes /\ error' = error
        /\ reads' = reads
    BY <1>1, <1>5, <1>8 DEF ImmScanner, ImmIs, ImmFound, BothImmFound, w, w1
  <2>2. AfterImmScanner(Asked, Scan) = WithImd(Goes(Scan, to, length, 0), d)
    BY <1>4, <1>8, ScanFields DEF ImmScanner, AfterImmScanner, to
  <2>. HIDE DEF d
  <2>. QED  BY <1>1, <1>2, <1>3, <2>1, <2>2 DEF Scan, State, Goes, With, WithImd
<1>9. CASE ImmScanner /\ w # 0 /\ length + w > max_bytes
  <2>1. imd' = d /\ enc' = enc /\ length' = length /\ too_short /\ reads' = reads
    BY <1>1, <1>5, <1>9 DEF ImmScanner, ImmIs, ImmFound, BothImmFound, w, w1
  <2>2. AfterImmScanner(Asked, Scan) = WithImd(Short(Asked, Goes(Scan, to, length, 0)), d)
    BY <1>1, <1>4, <1>5, <1>9, ScanFields DEF ImmScanner, AfterImmScanner, to
  <2>. HIDE DEF d
  <2>3. Scan' = With(Short(Asked, Goes(Scan, to, length, 0)), pfx, enc, mrm, d)
    BY <1>1, <1>2, <2>1, ScanShort
  <2>4. AfterImmScanner(Asked, Scan) = With(Short(Asked, Goes(Scan, to, length, 0)), pfx, enc, mrm, d)
    BY <2>2 DEF WithImd, With, Short, Goes, State, Scan, Asked
  <2>. QED  BY <1>3, <2>3, <2>4
<1>10. CASE ImmScanner /\ w # 0 /\ length + w <= max_bytes /\ length + w + w1 > max_bytes
  <2>. DEFINE d1 == ImmFound(d, length)
  <2>1. imd' = d1 /\ enc' = enc /\ length' = length + w /\ too_short /\ reads' = reads
    BY <1>1, <1>5, <1>10 DEF ImmScanner, ImmIs, ImmFound, BothImmFound, w, w1
  <2>. HIDE DEF d
  <2>2. AfterImmScanner(Asked, Scan) = WithImd(Short(Asked, Goes(Scan, to, length + w, 0)), d1)
    BY <1>1, <1>4, <1>5, <1>10, ScanFields DEF ImmScanner, AfterImmScanner, to, d
  <2>. HIDE DEF d1
  <2>3. Scan' = With(Short(Asked, Goes(Scan, to, length + w, 0)), pfx, enc, mrm, d1)
    BY <1>1, <1>2, <2>1, ScanShort
  <2>4. AfterImmScanner(Asked, Scan) = With(Short(Asked, Goes(Scan, to, length + w, 0)), pfx, enc, mrm, d1)
    BY <2>2 DEF WithImd, With, Short, Goes, State, Scan, Asked
  <2>. QED  BY <1>3, <2>3, <2>4
<1>11. CASE ImmScanner /\ w # 0 /\ length + w + w1 <= max_bytes
  <2>. DEFINE d1 == BothImmFound(d, length, IF w1 # 0 THEN length + w ELSE d.pos_imm1)
  <2>1. /\ imd' = d1 /\ enc' = enc /\ length' = length + w + w1 /\ out_of_bytes' = out_of_bytes /\ error' = error
        /\ reads' = Most(reads, length + w + w1)
    BY <1>1, <1>2, <1>5, <1>11 DEF ImmScanner, ImmIs, ImmFound, BothImmFound, w, w1
  <2>2. AfterImmScanner(Asked, Scan) = WithImd(Goes(Scan, to, length + w + w1, length + w + w1), d1)
    BY <1>1, <1>4, <1>5, <1>11, ScanFields DEF ImmScanner, AfterImmScanner, to
  <2>. HIDE DEF d1
  <2>. QED  BY <1>1, <1>3, <2>1, <2>2 DEF Scan, State, Goes, With, WithImd
<1>. QED  BY <1>1, <1>5, <1>6, <1>7, <1>8, <1>9, <1>10, <1>11 DEF ImmScanner3DNow

LEMMA StepOfLateEvex == ASSUME IldInv, LateEvex PROVE Scan' = Step(Asked, Scan)
<1>1. Most(reads, 0) = reads
  BY Numbers, ReadsAre
<1>2. HasApx(Asked.cfg) <=> decoder_supports_apx
  BY ScanFields DEF In64, mode_64b, HasApx, decoder_supports_apx
<1>3. Step(Asked, Scan) = AfterLateEvex(Asked, Scan)
  BY ScanFields DEF Step, LateEvex
<1>. DEFINE k == IF mrm.mod # 3 /\ decoder_supports_apx
                 THEN [enc EXCEPT !.ubit = 1, !.rexx4 = 1 - enc.ubit] ELSE enc
<1>4. AfterLateEvex(Asked, Scan) = WithEnc(Goes(Scan, "done", length, 0), k)
  BY <1>2, ScanFields DEF AfterLateEvex
<1>5. /\ pc' = "done" /\ length' = length /\ reads' = reads /\ enc' = k
      /\ out_of_bytes' = out_of_bytes /\ error' = error /\ pfx' = pfx /\ mrm' = mrm /\ imd' = imd
  BY DEF LateEvex
<1>. HIDE DEF k
<1>. QED  BY <1>1, <1>3, <1>4, <1>5 DEF Scan, State, Goes, With, WithEnc

(* Every scanner computes its part of Step. *)
LEMMA StepIsTheScan == ASSUME IldInv, Next PROVE Scan' = Step(Asked, Scan) /\ Asked' = Asked
<1>1. Scan' = Step(Asked, Scan)
  BY StepOfPrefix, StepOfVex, StepOfEvex, StepOfCatchInvalid, StepOfRex2, StepOfOpcode,
     StepOfModrm, StepOfSib, StepOfDisp, StepOfImm, StepOfLateEvex DEF Next
<1>2. inputs' = inputs
  BY InputsStay
<1>. QED  BY <1>1, <1>2 DEF Asked, inputs
=============================================================================
