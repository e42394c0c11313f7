--------------------------- MODULE XedPatchProofs ---------------------------
(***************************************************************************)
(* Proofs about two decodes, for every text, chip, table, width and value: *)
(* what patching a decoded instruction in place does to it, and what       *)
(* offering more bytes does.                                               *)
(***************************************************************************)
EXTENDS XedPatch, XedIldFieldProofs

-----------------------------------------------------------------------------
(* The second decode reads its text and leaves it alone. *)
LEMMA MoreTextStays == More!Next => more_itext' = more_itext
<1>1. More!PrefixByte \/ More!PrefixesOut \/ More!VexNone \/ More!VexC4 \/ More!VexC5 \/ More!VexXop
         => more_itext' = more_itext
  BY DEF More!PrefixByte, More!PrefixesOut, More!VexNone, More!VexC4, More!BadMap, More!VexC5,
         More!VexXop, More!inputs
<1>2. More!VexShort \/ More!EvexShort \/ More!Rex2 \/ More!OpcodeShort => more_itext' = more_itext
  BY DEF More!VexShort, More!EvexShort, More!Rex2, More!OpcodeShort, More!RunOut, More!inputs
<1>3. More!EvexNone \/ More!EvexBadMap \/ More!EvexScan \/ More!CatchInvalid \/ More!Rex2None
         => more_itext' = more_itext
  BY DEF More!EvexNone, More!EvexBadMap, More!BadMap, More!EvexScan, More!CatchInvalid,
         More!Rex2None, More!inputs
<1>4. More!OpcodeMap0 \/ More!OpcodeMap1 \/ More!OpcodeMap23 \/ More!Opcode3DNow
         => more_itext' = more_itext
  BY DEF More!OpcodeMap0, More!OpcodeMap1, More!OpcodeMap23, More!Opcode3DNow, More!inputs
<1>5. More!ModrmScanner \/ More!SibScanner \/ More!DispScanner \/ More!ImmScanner3DNow
         \/ More!ImmScanner \/ More!LateEvex => more_itext' = more_itext
  BY DEF More!ModrmScanner, More!SibScanner, More!DispScanner, More!ImmScanner3DNow,
         More!ImmScanner, More!LateEvex, More!inputs
<1>. QED  BY <1>1, <1>2, <1>3, <1>4, <1>5 DEF More!Next

(* A decode that has ended stays as it is. *)
LEMMA DoneEnds == Next => ~Done
<1>1. PrefixByte \/ PrefixesOut \/ VexNone \/ VexShort \/ VexC4 \/ VexC5 \/ VexXop => ~Done
  BY DEF PrefixByte, PrefixesOut, VexNone, VexShort, VexC4, VexC5, VexXop, Done
<1>2. EvexNone \/ EvexShort \/ EvexBadMap \/ EvexScan \/ CatchInvalid \/ Rex2None \/ Rex2 => ~Done
  BY DEF EvexNone, EvexShort, EvexBadMap, EvexScan, CatchInvalid, Rex2None, Rex2, Done
<1>3. OpcodeMap0 \/ OpcodeShort \/ OpcodeMap1 \/ OpcodeMap23 \/ Opcode3DNow => ~Done
  BY DEF OpcodeMap0, OpcodeShort, OpcodeMap1, OpcodeMap23, Opcode3DNow, AtEscape, Done
<1>4. ModrmScanner \/ SibScanner \/ DispScanner \/ ImmScanner3DNow \/ ImmScanner \/ LateEvex => ~Done
  BY DEF ModrmScanner, SibScanner, DispScanner, ImmScanner3DNow, ImmScanner, LateEvex, Done
<1>. QED  BY <1>1, <1>2, <1>3, <1>4 DEF Next

(* the field a patch function looks for, and its bytes *)
SpanOf(field) == IF field = "imm0" THEN IF enc.amd3dnow THEN {} ELSE Span(imd.pos_imm, imd.imm_width)
                                   ELSE Span(imd.pos_disp, imd.disp_width)

LEMMA SpanSize ==
    ASSUME NEW p \in Nat, NEW w \in Nat
    PROVE  Cardinality(Span(p, w)) = w /\ (Span(p, w) # {} <=> w # 0)
<1>1. Cardinality(p..(p + w - 1)) = IF p > p + w - 1 THEN 0 ELSE (p + w - 1) - p + 1
  BY FS_Interval
<1>2. Cardinality(Span(p, w)) = w
  BY <1>1 DEF Span
<1>3. Span(p, w) # {} <=> w # 0
  BY DEF Span
<1>. QED  BY <1>2, <1>3

(* The test of the patch functions is the right one. *)
LEMMA AppliesToSpan ==
    ASSUME IldInv, PositionsInv, Success, NEW field, NEW width
    PROVE  /\ PatchApplies(Recorded(field), width)
                 <=> SpanOf(field) # {} /\ Cardinality(SpanOf(field)) = width
           /\ PatchApplies(Recorded(field), width) =>
                 SpanOf(field) = Recorded(field).pos..(Recorded(field).pos + Recorded(field).width - 1)
<1>1. /\ imd.pos_disp # 0 <=> imd.disp_width # 0
      /\ imd.pos_imm # 0 <=> imd.imm_width # 0 /\ ~enc.amd3dnow
  BY DEF PositionsInv, Success, Done
<1>2. /\ imd.pos_disp \in Nat /\ imd.disp_width \in Nat
      /\ imd.pos_imm \in Nat /\ imd.imm_width \in Nat
  <2>1. imd.pos_disp \in Nat /\ imd.pos_imm \in Nat
    BY MaxAssumption DEF IldInv, TypeOK, ImdType, Pos
  <2>. QED  BY <2>1, OpcodeEndNat
<1>3. CASE field = "imm0"
  <2>1. Recorded(field) = [width |-> imd.imm_width, pos |-> imd.pos_imm]
    BY <1>3 DEF Recorded
  <2>2. CASE enc.amd3dnow
    BY <1>1, <1>3, <2>1, <2>2 DEF SpanOf, PatchApplies
  <2>3. CASE ~enc.amd3dnow
    <3>1. SpanOf(field) = Span(imd.pos_imm, imd.imm_width)
      BY <1>3, <2>3 DEF SpanOf
    <3>2. /\ Cardinality(Span(imd.pos_imm, imd.imm_width)) = imd.imm_width
          /\ Span(imd.pos_imm, imd.imm_width) # {} <=> imd.imm_width # 0
      BY <1>2, SpanSize
    <3>. QED  BY <1>1, <2>1, <2>3, <3>1, <3>2 DEF PatchApplies, Span
  <2>. QED  BY <2>2, <2>3
<1>4. CASE field # "imm0"
  <2>1. Recorded(field) = [width |-> imd.disp_width, pos |-> imd.pos_disp]
    BY <1>4 DEF Recorded
  <2>2. SpanOf(field) = Span(imd.pos_disp, imd.disp_width)
    BY <1>4 DEF SpanOf
  <2>3. /\ Cardinality(Span(imd.pos_disp, imd.disp_width)) = imd.disp_width
        /\ Span(imd.pos_disp, imd.disp_width) # {} <=> imd.disp_width # 0
    BY <1>2, SpanSize
  <2>. QED  BY <1>1, <2>1, <2>2, <2>3 DEF PatchApplies, Span
<1>. QED  BY <1>3, <1>4

LEMMA PatchIsExact ==
    ASSUME IldInv, PositionsInv, more_itext = itext,
           NEW field \in {"disp", "brdisp", "imm0"}, NEW width, NEW value, Patch(field, width, value)
    PROVE  PatchExactly' /\ patched' # NoPatch
<1>. DEFINE at == Recorded(field)
            yes == PatchApplies(at, width)
<1>1. /\ Success /\ UNCHANGED <<imd, enc, itext>>
      /\ patched' = [field |-> field, width |-> width, value |-> value, result |-> yes]
      /\ more_itext' = IF yes THEN PatchedText(itext, at, value) ELSE itext
  BY DEF Patch, vars
<1>2. patched' # NoPatch
  BY <1>1 DEF NoPatch
<1>3. PatchSpan' = SpanOf(field)
  BY <1>1 DEF PatchSpan, SpanOf, Span
<1>4. /\ yes <=> SpanOf(field) # {} /\ Cardinality(SpanOf(field)) = width
      /\ yes => SpanOf(field) = at.pos..(at.pos + at.width - 1)
  BY <1>1, AppliesToSpan
<1>. HIDE DEF at, yes
<1>5. ASSUME NEW i \in 0..(Len(itext) - 1)
      PROVE  more_itext'[i + 1] = IF yes /\ i \in SpanOf(field) THEN value ELSE Byte(i)
  <2>1. /\ i + 1 \in DOMAIN itext /\ (i + 1) - 1 = i /\ Byte(i) = itext[i + 1]
    BY DEF IldInv, TypeOK, Byte
  <2>2. yes => PatchedText(itext, at, value)[i + 1] =
                  IF i \in at.pos..(at.pos + at.width - 1) THEN value ELSE itext[i + 1]
    BY <2>1 DEF PatchedText
  <2>. QED  BY <1>1, <1>4, <2>1, <2>2
<1>6. /\ patched'.result = yes /\ patched'.width = width /\ patched'.value = value
      /\ \A i : Byte(i)' = Byte(i)
  BY <1>1 DEF Byte
<1>. QED  BY <1>1, <1>2, <1>3, <1>4, <1>5, <1>6 DEF PatchExactly

-----------------------------------------------------------------------------
PatchInv ==
    /\ IldInv /\ PrefixInv /\ FieldsInv /\ PositionsInv
    /\ IF patched = NoPatch THEN more_itext = itext ELSE Success
    /\ PatchExactly

LEMMA PatchInvInit == InitPatch => PatchInv
<1>. SUFFICES ASSUME InitPatch PROVE PatchInv
  OBVIOUS
<1>1. Started /\ more_itext = itext /\ patched = NoPatch
  BY InitStarted DEF InitPatch, InitBoth
<1>2. IldInv /\ PrefixInv /\ FieldsInv /\ PositionsInv
  BY <1>1, StartedInv, StartedPrefixInv, StartedFieldsInv, StartedPositions
<1>. QED  BY <1>1, <1>2 DEF PatchInv, PatchExactly

(* Nothing PatchExactly is about changes. *)
LEMMA PatchExactlyStays ==
    ASSUME PatchExactly, UNCHANGED <<vars, more_itext, patched>>
    PROVE  PatchExactly'
<1>1. PatchSpan' = PatchSpan /\ itext' = itext /\ \A i : Byte(i)' = Byte(i)
  BY DEF PatchSpan, Span, vars, Byte
<1>. QED  BY <1>1 DEF PatchExactly

LEMMA PatchInvNext == PatchInv /\ [NextPatch]_patch_vars => PatchInv'
<1>. SUFFICES ASSUME PatchInv, [NextPatch]_patch_vars PROVE PatchInv'
  OBVIOUS
<1>1. [Next]_vars
  BY DEF NextPatch, NextBoth, First, Second, Patch, patch_vars, vars
<1>2. IldInv' /\ PrefixInv' /\ FieldsInv' /\ PositionsInv'
  BY <1>1, NextInv, PrefixInvStep, FieldsStep, PositionsStep DEF PatchInv
<1>3. CASE First /\ UNCHANGED patched
  <2>1. patched = NoPatch /\ more_itext' = more_itext /\ itext' = itext
    BY <1>3, DoneEnds, InputsStay DEF First, PatchInv, Success, more_vars, inputs
  <2>. QED  BY <1>2, <1>3, <2>1 DEF PatchInv, PatchExactly
<1>4. CASE (Second /\ UNCHANGED patched) \/ UNCHANGED patch_vars
  <2>1. UNCHANGED <<vars, more_itext, patched>>
    BY <1>4, MoreTextStays DEF Second, patch_vars, more_vars
  <2>. QED  BY <1>2, <2>1, PatchExactlyStays DEF PatchInv, Success, Done, vars
<1>5. CASE /\ patched = NoPatch
           /\ \E field \in {"disp", "brdisp", "imm0"}, width \in PatchWidths, value \in PatchBytes :
                 Patch(field, width, value)
  <2>1. more_itext = itext
    BY <1>5 DEF PatchInv
  <2>2. PatchExactly' /\ patched' # NoPatch
    BY <1>5, <2>1, PatchIsExact DEF PatchInv
  <2>3. Success'
    BY <1>5 DEF Patch, vars, Success, Done
  <2>4. NoPatch' = NoPatch
    BY DEF NoPatch
  <2>. QED  BY <1>2, <2>2, <2>3, <2>4 DEF PatchInv
<1>. QED  BY <1>3, <1>4, <1>5 DEF NextPatch, NextBoth

(* xed_patch_disp, xed_patch_brdisp and xed_patch_imm0 answer yes exactly  *)
(* when the decoded instruction has a field of that kind and width; then   *)
(* they write all of its bytes and no other, and after a no nothing.       *)
THEOREM PatchesTheField == SpecPatch => []PatchExactly
<1>1. PatchInv => PatchExactly
  BY DEF PatchInv
<1>. QED  BY <1>1, PatchInvInit, PatchInvNext, PTL DEF SpecPatch

-----------------------------------------------------------------------------
(* What a step looks at.  A step of a scan that does not run out of bytes  *)
(* depends on the presets and on the bytes it looks at: any other question *)
(* with these, and with at least as many bytes, is answered by the same    *)
(* step (the lemmas ...Local, one for each scanner, and StepLocal).        *)
LEMMA ScanNumbers ==
    ASSUME NEW s \in ScanType
    PROVE  s.length \in Nat /\ s.reads \in Nat
BY MaxAssumption DEF ScanType, Pos

(* The scan t has run out of bytes. *)
OutOf(t) == t.out_of_bytes = TRUE
(* How far the records a scanner is made of have read. *)
LEMMA ReadsOf ==
    /\ \A s, at, n, r : Goes(s, at, n, r).reads = Most(s.reads, r)
    /\ \A s, k : WithEnc(s, k).reads = s.reads
    /\ \A s, d : WithImd(s, d).reads = s.reads
    /\ \A s, p, k, m, d : With(s, p, k, m, d).reads = s.reads
    /\ \A s, e : Says(s, e).reads = s.reads
    /\ \A q, s : Short(q, s).reads = s.reads
BY DEF Goes, WithEnc, WithImd, With, Says, Short, State
LEMMA ShortIsOut ==
    /\ \A q, s : OutOf(Short(q, s))
    /\ \A q, s, k : OutOf(WithEnc(Short(q, s), k))
    /\ \A q, s, d : OutOf(WithImd(Short(q, s), d))
BY DEF WithEnc, WithImd, With, Short, State, OutOf

LEMMA MostBelow ==
    ASSUME NEW a \in Nat PROVE \A r, i \in Nat : i < r => i < Most(a, r)
BY DEF Most

LEMMA SameOpcode ==
    ASSUME NEW q, NEW z, NEW n, ByteOf(z, n) = ByteOf(q, n)
    PROVE  \A k : WithOpcodeOf(z, k, n) = WithOpcodeOf(q, k, n)
BY Zenon DEF WithOpcodeOf

(* The question z offers what q offers, or more; and where the step t of q *)
(* has not run out, z has the bytes t looked at.                           *)
Offers(q, z) ==
    q.cfg = z.cfg /\ q.max_bytes \in Nat /\ z.max_bytes \in Nat /\ q.max_bytes <= z.max_bytes
Follows(q, z, t) ==
    /\ Offers(q, z) /\ ~OutOf(t)
    /\ \A i \in Nat : i < t.reads => ByteOf(z, i) = ByteOf(q, i)

LEMMA VexLocal ==
    ASSUME NEW q, NEW z, NEW s \in ScanType, NEW t, t = AfterVexScanner(q, s), Follows(q, z, t)
    PROVE  AfterVexScanner(z, s) = t
<1>. DEFINE n == s.length
            b == ByteOf(q, n)
            xop == b = \h8F /\ q.cfg.could_support_xop
            none == IF xop THEN Bits(ByteOf(q, n + 1), 3, 3) = 0 ELSE MemoryModrm(q, n + 1)
            taken == q.cfg.no_vex # 1 /\ (b \in {\hC4, \hC5} \/ xop)
<1>1. n \in Nat /\ s.reads \in Nat
  BY ScanNumbers
<1>2. \A i \in Nat : i < t.reads => ByteOf(z, i) = ByteOf(q, i)
  BY DEF Follows
<1>3. /\ \A r, i \in Nat : i < r => i < Most(s.reads, r)
      /\ q.cfg = z.cfg /\ q.max_bytes \in Nat /\ z.max_bytes \in Nat /\ q.max_bytes <= z.max_bytes
      /\ ~OutOf(t)
  BY <1>1, MostBelow DEF Follows, Offers
<1>4. CASE q.cfg.no_vex = 1
  BY <1>3, <1>4 DEF AfterVexScanner
<1>5. CASE q.cfg.no_vex # 1 /\ ~taken
  <2>1. t = Goes(s, "evex", n, n + 1)
    BY <1>5 DEF AfterVexScanner
  <2>2. n < t.reads
    BY <1>1, <1>3, <2>1, ReadsOf
  <2>. QED  BY <1>1, <1>2, <1>3, <1>5, <2>1, <2>2 DEF AfterVexScanner
<1>6. CASE taken
  <2>1. n + 1 < q.max_bytes
    <3>1. ASSUME ~(n + 1 < q.max_bytes) PROVE \E x : t = Short(q, x)
      BY <1>1, <1>3, <1>6, <3>1 DEF AfterVexScanner
    <3>. QED  BY <1>3, <3>1, ShortIsOut
  <2>2. n < t.reads /\ n + 1 < t.reads
    BY <1>1, <1>3, <1>6, <2>1, ReadsOf DEF AfterVexScanner
  <2>3. ByteOf(z, n) = b /\ ByteOf(z, n + 1) = ByteOf(q, n + 1)
    BY <1>1, <1>2, <2>2
  <2>4. MemoryModrm(z, n + 1) <=> MemoryModrm(q, n + 1)
    BY <1>3, <2>3 DEF MemoryModrm
  <2>5. CASE none
    BY <1>1, <1>3, <1>6, <2>1, <2>3, <2>4, <2>5 DEF AfterVexScanner
  <2>6. CASE ~none /\ b = \hC5
    <3>1. n + 2 < q.max_bytes
      <4>1. ASSUME ~(n + 2 < q.max_bytes) PROVE \E x : t = Short(q, x)
        BY <1>1, <1>3, <1>6, <2>1, <2>6, <4>1 DEF AfterVexScanner
      <4>. QED  BY <1>3, <4>1, ShortIsOut
    <3>2. n + 2 < t.reads
      BY <1>1, <1>3, <1>6, <2>1, <2>6, <3>1, ReadsOf DEF AfterVexScanner
    <3>3. \A k : WithOpcodeOf(z, k, n + 2) = WithOpcodeOf(q, k, n + 2)
      BY <1>1, <1>2, <3>2, SameOpcode
    <3>. QED  BY <1>1, <1>3, <1>6, <2>1, <2>3, <2>4, <2>6, <3>1, <3>3 DEF AfterVexScanner
  <2>7. CASE ~none /\ b # \hC5
    <3>1. n + 3 < q.max_bytes
      <4>1. ASSUME ~(n + 3 < q.max_bytes) PROVE \E x : t = Short(q, x)
        BY <1>1, <1>3, <1>6, <2>1, <2>7, <4>1 DEF AfterVexScanner
      <4>. QED  BY <1>3, <4>1, ShortIsOut
    <3>2. n + 2 < t.reads /\ (xop \/ ValidVexMap(VexMap(ByteOf(q, n + 1))) => n + 3 < t.reads)
      BY <1>1, <1>3, <1>6, <2>1, <2>7, <3>1, ReadsOf DEF AfterVexScanner
    <3>3. /\ ByteOf(z, n + 2) = ByteOf(q, n + 2)
          /\ xop \/ ValidVexMap(VexMap(ByteOf(q, n + 1)))
               => \A k : WithOpcodeOf(z, k, n + 3) = WithOpcodeOf(q, k, n + 3)
      BY <1>1, <1>2, <3>2, SameOpcode
    <3>. QED  BY <1>1, <1>3, <1>6, <2>1, <2>3, <2>4, <2>7, <3>1, <3>3 DEF AfterVexScanner
  <2>. QED  BY <2>5, <2>6, <2>7
<1>. QED  BY <1>4, <1>5, <1>6

LEMMA PrefixLocal ==
    ASSUME NEW q, NEW z, NEW s \in ScanType, NEW t, t = AfterPrefixScanner(q, s), Follows(q, z, t)
    PROVE  AfterPrefixScanner(z, s) = t
<1>. DEFINE n == s.length
<1>1. n \in Nat /\ s.reads \in Nat
  BY ScanNumbers
<1>2. \A i \in Nat : i < t.reads => ByteOf(z, i) = ByteOf(q, i)
  BY DEF Follows
<1>3. /\ \A r, i \in Nat : i < r => i < Most(s.reads, r)
      /\ q.cfg = z.cfg /\ q.max_bytes \in Nat /\ z.max_bytes \in Nat /\ q.max_bytes <= z.max_bytes
      /\ ~OutOf(t)
  BY <1>1, MostBelow DEF Follows, Offers
<1>4. n < q.max_bytes
  <2>1. ASSUME ~(n < q.max_bytes) PROVE \E x : t = Short(q, x)
    BY <1>1, <1>3, <2>1 DEF AfterPrefixScanner
  <2>. QED  BY <1>3, <2>1, ShortIsOut
<1>5. n < t.reads
  BY <1>1, <1>3, <1>4, ReadsOf DEF AfterPrefixScanner
<1>6. ByteOf(z, n) = ByteOf(q, n)
  BY <1>1, <1>2, <1>5
<1>. QED  BY <1>1, <1>3, <1>4, <1>6 DEF AfterPrefixScanner

LEMMA EvexLocal ==
    ASSUME NEW q, NEW z, NEW s \in ScanType, NEW t, t = AfterEvexScanner(q, s), Follows(q, z, t)
    PROVE  AfterEvexScanner(z, s) = t
<1>. DEFINE n == s.length
            b == ByteOf(q, n)
            b1 == ByteOf(q, n + 1)
            map == EvexMapOf(q.cfg, b1)
            open == s.enc.vexvalid = Legacy /\ HasAvx512(q.cfg)
<1>1. n \in Nat /\ s.reads \in Nat
  BY ScanNumbers
<1>2. \A i \in Nat : i < t.reads => ByteOf(z, i) = ByteOf(q, i)
  BY DEF Follows
<1>3. /\ \A r, i \in Nat : i < r => i < Most(s.reads, r)
      /\ q.cfg = z.cfg /\ q.max_bytes \in Nat /\ z.max_bytes \in Nat /\ q.max_bytes <= z.max_bytes
      /\ ~OutOf(t)
  BY <1>1, MostBelow DEF Follows, Offers
<1>4. CASE ~open
  BY <1>3, <1>4 DEF AfterEvexScanner
<1>5. CASE open /\ b # \h62
  <2>1. t = Goes(s, "rex2", n, n + 1)
    BY <1>5 DEF AfterEvexScanner
  <2>2. n < t.reads
    BY <1>1, <1>3, <2>1, ReadsOf
  <2>. QED  BY <1>1, <1>2, <1>3, <1>5, <2>1, <2>2 DEF AfterEvexScanner
<1>6. CASE open /\ b = \h62
  <2>1. n + 1 < q.max_bytes
    <3>1. ASSUME ~(n + 1 < q.max_bytes) PROVE \E x : t = Short(q, x)
      BY <1>1, <1>3, <1>6, <3>1 DEF AfterEvexScanner
    <3>. QED  BY <1>3, <3>1, ShortIsOut
  <2>2. n < t.reads /\ n + 1 < t.reads
    BY <1>1, <1>3, <1>6, <2>1, ReadsOf DEF AfterEvexScanner
  <2>3. ByteOf(z, n) = b /\ ByteOf(z, n + 1) = b1
    BY <1>1, <1>2, <2>2
  <2>4. MemoryModrm(z, n + 1) <=> MemoryModrm(q, n + 1)
    BY <1>3, <2>3 DEF MemoryModrm
  <2>5. CASE MemoryModrm(q, n + 1) \/ map = 0
    BY <1>1, <1>3, <1>6, <2>1, <2>3, <2>4, <2>5 DEF AfterEvexScanner
  <2>6. CASE ~MemoryModrm(q, n + 1) /\ map # 0
    <3>1. n + 4 < q.max_bytes
      <4>1. ASSUME ~(n + 4 < q.max_bytes) PROVE \E x, k : t = WithEnc(Short(q, x), k)
        BY <1>1, <1>3, <1>6, <2>1, <2>6, <4>1 DEF AfterEvexScanner
      <4>. QED  BY <1>3, <4>1, ShortIsOut
    <3>2. CASE ~ValidEvexMap(map)
      BY <1>1, <1>3, <1>6, <2>1, <2>3, <2>4, <2>6, <3>1, <3>2 DEF AfterEvexScanner
    <3>3. CASE ValidEvexMap(map)
      <4>1. t.reads = Most(s.reads, n + 5)
        BY <1>1, <1>3, <1>6, <2>1, <2>6, <3>1, <3>3, ReadsOf DEF AfterEvexScanner
      <4>2. n + 2 < t.reads /\ n + 3 < t.reads /\ n + 4 < t.reads
        BY <1>1, <1>3, <4>1
      <4>3. /\ ByteOf(z, n + 2) = ByteOf(q, n + 2) /\ ByteOf(z, n + 3) = ByteOf(q, n + 3)
            /\ \A k : WithOpcodeOf(z, k, n + 4) = WithOpcodeOf(q, k, n + 4)
        BY <1>1, <1>2, <4>2, SameOpcode
      <4>. QED  BY <1>1, <1>3, <1>6, <2>1, <2>3, <2>4, <2>6, <3>1, <3>3, <4>3 DEF AfterEvexScanner
    <3>. QED  BY <3>2, <3>3
  <2>. QED  BY <2>5, <2>6
<1>. QED  BY <1>4, <1>5, <1>6

LEMMA Rex2Local ==
    ASSUME NEW q, NEW z, NEW s \in ScanType, NEW t, t = AfterRex2Scanner(q, s), Follows(q, z, t),
           s.length < q.max_bytes
    PROVE  AfterRex2Scanner(z, s) = t
<1>. DEFINE n == s.length
            b == ByteOf(q, n)
<1>1. n \in Nat /\ s.reads \in Nat
  BY ScanNumbers
<1>2. \A i \in Nat : i < t.reads => ByteOf(z, i) = ByteOf(q, i)
  BY DEF Follows
<1>3. /\ \A r, i \in Nat : i < r => i < Most(s.reads, r)
      /\ q.cfg = z.cfg /\ q.max_bytes \in Nat /\ z.max_bytes \in Nat /\ q.max_bytes <= z.max_bytes
      /\ ~OutOf(t)
  BY <1>1, MostBelow DEF Follows, Offers
<1>4. CASE ~HasApx(q.cfg)
  BY <1>3, <1>4 DEF AfterRex2Scanner
<1>5. CASE HasApx(q.cfg) /\ b # \hD5
  <2>1. t = Goes(s, "opcode", n, n + 1)
    BY <1>5 DEF AfterRex2Scanner
  <2>2. n < t.reads
    BY <1>1, <1>3, <2>1, ReadsOf
  <2>. QED  BY <1>1, <1>2, <1>3, <1>5, <2>1, <2>2 DEF AfterRex2Scanner
<1>6. CASE HasApx(q.cfg) /\ b = \hD5
  <2>1. n + 1 < q.max_bytes /\ n + 2 # q.max_bytes
    <3>1. ASSUME ~(n + 1 < q.max_bytes) PROVE \E x : t = Short(q, x)
      BY <1>1, <1>3, <1>6, <3>1 DEF AfterRex2Scanner
    <3>2. ASSUME n + 1 < q.max_bytes, n + 2 = q.max_bytes PROVE \E x, k : t = WithEnc(Short(q, x), k)
      BY <1>1, <1>3, <1>6, <3>2 DEF AfterRex2Scanner
    <3>. QED  BY <1>3, <3>1, <3>2, ShortIsOut
  <2>2. t.reads = Most(s.reads, n + 3)
    BY <1>1, <1>3, <1>6, <2>1, ReadsOf DEF AfterRex2Scanner
  <2>3. n < t.reads /\ n + 1 < t.reads /\ n + 2 < t.reads
    BY <1>1, <1>3, <2>2
  <2>4. /\ ByteOf(z, n) = b /\ ByteOf(z, n + 1) = ByteOf(q, n + 1)
        /\ \A k : WithOpcodeOf(z, k, n + 2) = WithOpcodeOf(q, k, n + 2)
    BY <1>1, <1>2, <2>3, SameOpcode
  <2>. QED  BY <1>1, <1>3, <1>6, <2>1, <2>4 DEF AfterRex2Scanner
<1>. QED  BY <1>4, <1>5, <1>6

LEMMA OpcodeLocal ==
    ASSUME NEW q, NEW z, NEW s \in ScanType, NEW t, t = AfterOpcodeScanner(q, s), Follows(q, z, t)
    PROVE  AfterOpcodeScanner(z, s) = t
<1>. DEFINE n == s.length
            b == ByteOf(q, n)
            map == EscapeMap(ByteOf(q, n + 1))
<1>1. n \in Nat /\ s.reads \in Nat
  BY ScanNumbers
<1>2. \A i \in Nat : i < t.reads => ByteOf(z, i) = ByteOf(q, i)
  BY DEF Follows
<1>3. /\ \A r, i \in Nat : i < r => i < Most(s.reads, r)
      /\ q.cfg = z.cfg /\ q.max_bytes \in Nat /\ z.max_bytes \in Nat /\ q.max_bytes <= z.max_bytes
      /\ ~OutOf(t)
  BY <1>1, MostBelow DEF Follows, Offers
<1>4. n < t.reads
  BY <1>1, <1>3, ReadsOf DEF AfterOpcodeScanner
<1>5. ByteOf(z, n) = b /\ \A k : WithOpcodeOf(z, k, n) = WithOpcodeOf(q, k, n)
  BY <1>1, <1>2, <1>4, SameOpcode
<1>6. CASE b # \h0F
  BY <1>5, <1>6 DEF AfterOpcodeScanner
<1>7. CASE b = \h0F
  <2>1. n + 1 < q.max_bytes
    <3>1. ASSUME ~(n + 1 < q.max_bytes) PROVE \E x : t = Short(q, x)
      BY <1>1, <1>3, <1>7, <3>1 DEF AfterOpcodeScanner
    <3>. QED  BY <1>3, <3>1, ShortIsOut
  <2>2. n + 1 < t.reads
    BY <1>1, <1>3, <1>7, <2>1, ReadsOf DEF AfterOpcodeScanner
  <2>3. /\ ByteOf(z, n + 1) = ByteOf(q, n + 1)
        /\ \A k : WithOpcodeOf(z, k, n + 1) = WithOpcodeOf(q, k, n + 1)
    BY <1>1, <1>2, <2>2, SameOpcode
  <2>4. CASE map \in {1, Amd3DNow}
    BY <1>1, <1>3, <1>5, <1>7, <2>1, <2>3, <2>4 DEF AfterOpcodeScanner
  <2>5. CASE map \notin {1, Amd3DNow}
    <3>1. n + 2 # q.max_bytes
      <4>1. ASSUME n + 2 = q.max_bytes PROVE \E x, k : t = WithEnc(Short(q, x), k)
        BY <1>1, <1>3, <1>7, <2>1, <2>5, <4>1 DEF AfterOpcodeScanner
      <4>. QED  BY <1>3, <4>1, ShortIsOut
    <3>2. t.reads = Most(s.reads, n + 3)
      BY <1>1, <1>3, <1>7, <2>1, <2>5, <3>1, ReadsOf DEF AfterOpcodeScanner
    <3>3. \A k : WithOpcodeOf(z, k, n + 2) = WithOpcodeOf(q, k, n + 2)
      BY <1>1, <1>2, <1>3, <3>2, SameOpcode
    <3>. QED  BY <1>1, <1>3, <1>5, <1>7, <2>1, <2>3, <2>5, <3>1, <3>3 DEF AfterOpcodeScanner
  <2>. QED  BY <2>4, <2>5
<1>. QED  BY <1>6, <1>7

LEMMA ModrmLocal ==
    ASSUME NEW q, NEW z, NEW s \in ScanType, NEW t, t = AfterModrmScanner(q, s), Follows(q, z, t)
    PROVE  AfterModrmScanner(z, s) = t
<1>. DEFINE n == s.length
            has == ModrmOf(q.cfg, s.enc)
<1>1. n \in Nat /\ s.reads \in Nat
  BY ScanNumbers
<1>2. \A i \in Nat : i < t.reads => ByteOf(z, i) = ByteOf(q, i)
  BY DEF Follows
<1>3. /\ \A r, i \in Nat : i < r => i < Most(s.reads, r)
      /\ q.cfg = z.cfg /\ q.max_bytes \in Nat /\ z.max_bytes \in Nat /\ q.max_bytes <= z.max_bytes
      /\ ~OutOf(t)
  BY <1>1, MostBelow DEF Follows, Offers
<1>4. CASE has = ModrmFalse
  BY <1>3, <1>4 DEF AfterModrmScanner
<1>5. CASE has # ModrmFalse
  <2>1. n < q.max_bytes
    <3>1. ASSUME ~(n < q.max_bytes) PROVE \E x : t = Short(q, x)
      BY <1>1, <1>3, <1>5, <3>1 DEF AfterModrmScanner
    <3>. QED  BY <1>3, <3>1, ShortIsOut
  <2>2. t.reads = Most(s.reads, n + 1)
    BY <1>1, <1>3, <1>5, <2>1, ReadsOf DEF AfterModrmScanner
  <2>3. ByteOf(z, n) = ByteOf(q, n)
    BY <1>1, <1>2, <1>3, <2>2
  <2>. QED  BY <1>1, <1>3, <1>5, <2>1, <2>3 DEF AfterModrmScanner
<1>. QED  BY <1>4, <1>5

LEMMA SibLocal ==
    ASSUME NEW q, NEW z, NEW s \in ScanType, NEW t, t = AfterSibScanner(q, s), Follows(q, z, t)
    PROVE  AfterSibScanner(z, s) = t
<1>. DEFINE n == s.length
<1>1. n \in Nat /\ s.reads \in Nat
  BY ScanNumbers
<1>2. \A i \in Nat : i < t.reads => ByteOf(z, i) = ByteOf(q, i)
  BY DEF Follows
<1>3. /\ \A r, i \in Nat : i < r => i < Most(s.reads, r)
      /\ q.cfg = z.cfg /\ q.max_bytes \in Nat /\ z.max_bytes \in Nat /\ q.max_bytes <= z.max_bytes
      /\ ~OutOf(t)
  BY <1>1, MostBelow DEF Follows, Offers
<1>4. CASE ~s.mrm.has_sib
  BY <1>3, <1>4 DEF AfterSibScanner
<1>5. CASE s.mrm.has_sib
  <2>1. n < q.max_bytes
    <3>1. ASSUME ~(n < q.max_bytes) PROVE \E x : t = Short(q, x)
      BY <1>1, <1>3, <1>5, <3>1 DEF AfterSibScanner
    <3>. QED  BY <1>3, <3>1, ShortIsOut
  <2>2. t.reads = Most(s.reads, n + 1)
    BY <1>1, <1>3, <1>5, <2>1, ReadsOf DEF AfterSibScanner
  <2>3. ByteOf(z, n) = ByteOf(q, n)
    BY <1>1, <1>2, <1>3, <2>2
  <2>. QED  BY <1>1, <1>3, <1>5, <2>1, <2>3 DEF AfterSibScanner
<1>. QED  BY <1>4, <1>5

(* Behind the SIB a scanner looks at no byte of its field, only at whether *)
(* the field is there: the exception is the opcode that ends a 3DNow!      *)
(* instruction.                                                            *)
LEMMA ImdOf ==
    /\ \A s, at, n, r : Goes(s, at, n, r).imd = s.imd
    /\ \A s, d : WithImd(s, d).imd = d
    /\ \A s, p, k, m, d : With(s, p, k, m, d).imd = d
    /\ \A q, s : Short(q, s).imd = s.imd
BY DEF Goes, WithImd, With, Short, State

LEMMA DispLocal ==
    ASSUME NEW q, NEW z, NEW s \in ScanType, NEW t \in ScanType, t = AfterDispScanner(q, s),
           Offers(q, z), ~OutOf(t)
    PROVE  AfterDispScanner(z, s) = t
<1>. DEFINE n == s.length
            w == DispOf(q.cfg, s)
<1>1. n \in Nat /\ s.imd \in ImdType /\ t.imd \in ImdType
  BY ScanNumbers DEF ScanType
<1>2. /\ q.cfg = z.cfg /\ q.max_bytes \in Nat /\ z.max_bytes \in Nat /\ q.max_bytes <= z.max_bytes
      /\ ~OutOf(t)
  BY DEF Offers
<1>3. CASE w = 0
  BY <1>2, <1>3 DEF AfterDispScanner
<1>4. CASE w # 0
  <2>1. n + w <= q.max_bytes
    <3>1. ASSUME ~(n + w <= q.max_bytes) PROVE \E x, d : t = WithImd(Short(q, x), d)
      BY <1>1, <1>2, <1>4, <3>1 DEF AfterDispScanner
    <3>. QED  BY <1>2, <3>1, ShortIsOut
  <2>2. t.imd = DispFound(s.imd, w, n)
    BY <1>4, <2>1, ImdOf DEF AfterDispScanner
  <2>3. w \in Nat
    <3>1. t.imd.disp_width = w
      BY <1>1, <2>2 DEF DispFound, ImdType
    <3>. QED  BY <1>1, <3>1, WidthsNat DEF ImdType
  <2>4. n + w <= z.max_bytes
    BY <1>1, <1>2, <2>1, <2>3
  <2>. QED  BY <1>2, <1>4, <2>1, <2>4 DEF AfterDispScanner
<1>. QED  BY <1>3, <1>4

LEMMA ImmLocal ==
    ASSUME NEW q, NEW z, NEW s \in ScanType, NEW t \in ScanType, t = AfterImmScanner(q, s),
           Offers(q, z), ~OutOf(t),
           s.enc.amd3dnow => ByteOf(z, s.length) = ByteOf(q, s.length)
    PROVE  AfterImmScanner(z, s) = t
<1>. DEFINE n == s.length
            w == ImmOf(q.cfg, s).imm
            w1 == ImmOf(q.cfg, s).imm1
            d == ImmIs(s.imd, w, w1)
<1>1. n \in Nat /\ s.imd \in ImdType /\ t.imd \in ImdType
  BY ScanNumbers DEF ScanType
<1>2. /\ q.cfg = z.cfg /\ q.max_bytes \in Nat /\ z.max_bytes \in Nat /\ q.max_bytes <= z.max_bytes
      /\ ~OutOf(t)
  BY DEF Offers
<1>3. CASE s.enc.amd3dnow
  <2>1. n < q.max_bytes
    <3>1. ASSUME ~(n < q.max_bytes) PROVE \E x, y : t = WithImd(Short(q, x), y)
      BY <1>1, <1>2, <1>3, <3>1 DEF AfterImmScanner
    <3>. QED  BY <1>2, <3>1, ShortIsOut
  <2>2. n < z.max_bytes
    BY <1>1, <1>2, <2>1
  <2>. QED  BY <1>2, <1>3, <2>1, <2>2 DEF AfterImmScanner
<1>4. CASE ~s.enc.amd3dnow /\ w = 0
  BY <1>2, <1>4 DEF AfterImmScanner
<1>5. CASE ~s.enc.amd3dnow /\ w # 0
  <2>1. ~(n + w > q.max_bytes) /\ ~(n + w + w1 > q.max_bytes)
    <3>1. ASSUME n + w > q.max_bytes \/ n + w + w1 > q.max_bytes
          PROVE  \E x, y : t = WithImd(Short(q, x), y)
      BY <1>1, <1>2, <1>5, <3>1 DEF AfterImmScanner
    <3>. QED  BY <1>2, <3>1, ShortIsOut
  <2>2. t.imd = BothImmFound(d, n, IF w1 # 0 THEN n + w ELSE d.pos_imm1)
    BY <1>5, <2>1, ImdOf DEF AfterImmScanner
  <2>3. w \in Nat /\ w1 \in Nat
    <3>1. t.imd.imm_width = w /\ t.imd.imm1_bytes = w1
      BY <1>1, <2>2 DEF BothImmFound, ImmIs, ImdType
    <3>2. t.imd.imm_width \in Widths /\ t.imd.imm1_bytes \in Bit
      BY <1>1 DEF ImdType
    <3>3. t.imd.imm1_bytes \in Nat
      BY <3>2 DEF Bit
    <3>. QED  BY <3>1, <3>2, <3>3, WidthsNat
  <2>4. ~(n + w > z.max_bytes) /\ ~(n + w + w1 > z.max_bytes)
    BY <1>1, <1>2, <2>1, <2>3
  <2>. QED  BY <1>2, <1>5, <2>1, <2>4 DEF AfterImmScanner
<1>. QED  BY <1>3, <1>4, <1>5

(* The scanners behind the SIB, and what StepLocal asks of another text. *)
Behind == {"disp", "imm", "late_evex", "done"}
StepAgrees(q, z, s) ==
    /\ s.pc \notin Behind => \A i \in Nat : i < Step(q, s).reads => ByteOf(z, i) = ByteOf(q, i)
    /\ s.pc = "imm" /\ s.enc.amd3dnow => ByteOf(z, s.length) = ByteOf(q, s.length)

LEMMA StepLocal ==
    ASSUME NEW q, NEW z, NEW s \in ScanType, NEW t \in ScanType, t = Step(q, s), Offers(q, z), ~OutOf(t),
           Before(s) => s.length < q.max_bytes, StepAgrees(q, z, s)
    PROVE  Step(z, s) = t
<1>1. s.pc \in Pcs /\ q.cfg = z.cfg
  BY DEF ScanType, Offers
<1>2. s.pc \notin Behind => Follows(q, z, t)
  BY DEF StepAgrees, Follows
<1>3. CASE s.pc = "prefix"
  <2>1. t = AfterPrefixScanner(q, s) /\ Step(z, s) = AfterPrefixScanner(z, s)
    BY <1>3 DEF Step
  <2>. QED  BY <1>2, <1>3, <2>1, PrefixLocal DEF Behind
<1>4. CASE s.pc = "vex"
  <2>1. t = AfterVexScanner(q, s) /\ Step(z, s) = AfterVexScanner(z, s)
    BY <1>4 DEF Step
  <2>. QED  BY <1>2, <1>4, <2>1, VexLocal DEF Behind
<1>5. CASE s.pc = "evex"
  <2>1. t = AfterEvexScanner(q, s) /\ Step(z, s) = AfterEvexScanner(z, s)
    BY <1>5 DEF Step
  <2>. QED  BY <1>2, <1>5, <2>1, EvexLocal DEF Behind
<1>6. CASE s.pc = "catch_invalid"
  BY <1>1, <1>6 DEF Step, AfterCatchInvalid
<1>7. CASE s.pc = "rex2"
  <2>1. t = AfterRex2Scanner(q, s) /\ Step(z, s) = AfterRex2Scanner(z, s) /\ s.length < q.max_bytes
    BY <1>7 DEF Step, Before
  <2>. QED  BY <1>2, <1>7, <2>1, Rex2Local DEF Behind
<1>8. CASE s.pc = "opcode"
  <2>1. t = AfterOpcodeScanner(q, s) /\ Step(z, s) = AfterOpcodeScanner(z, s)
    BY <1>8 DEF Step
  <2>. QED  BY <1>2, <1>8, <2>1, OpcodeLocal DEF Behind
<1>9. CASE s.pc = "modrm"
  <2>1. t = AfterModrmScanner(q, s) /\ Step(z, s) = AfterModrmScanner(z, s)
    BY <1>9 DEF Step
  <2>. QED  BY <1>2, <1>9, <2>1, ModrmLocal DEF Behind
<1>10. CASE s.pc = "sib"
  <2>1. t = AfterSibScanner(q, s) /\ Step(z, s) = AfterSibScanner(z, s)
    BY <1>10 DEF Step
  <2>. QED  BY <1>2, <1>10, <2>1, SibLocal DEF Behind
<1>11. CASE s.pc = "disp"
  <2>1. t = AfterDispScanner(q, s) /\ Step(z, s) = AfterDispScanner(z, s)
    BY <1>11 DEF Step
  <2>. QED  BY <2>1, DispLocal
<1>12. CASE s.pc = "imm"
  <2>1. t = AfterImmScanner(q, s) /\ Step(z, s) = AfterImmScanner(z, s)
    BY <1>12 DEF Step
  <2>. QED  BY <1>12, <2>1, ImmLocal DEF StepAgrees
<1>13. CASE s.pc = "late_evex"
  BY <1>1, <1>13 DEF Step, AfterLateEvex
<1>14. CASE s.pc = "done"
  BY <1>14 DEF Step
<1>. QED  BY <1>1, <1>3, <1>4, <1>5, <1>6, <1>7, <1>8, <1>9, <1>10, <1>11, <1>12, <1>13, <1>14 DEF Pcs

(* What a decode leads to without running out has not run out on the way. *)
LEMMA ErrorsStay ==
    ASSUME NEW q, NEW s \in ScanType, NEW f \in ScanType, Leads(q, s, f)
    PROVE  (~OutOf(f) => ~OutOf(s)) /\ (f.error = "NONE" => s.error = "NONE")
           /\ s.length <= f.length /\ s.reads <= f.reads
<1>. DEFINE C == {x \in ScanType : /\ OutOf(s) => OutOf(x)
                                   /\ x.error = "NONE" => s.error = "NONE"
                                   /\ s.length <= x.length /\ s.reads <= x.reads}
<1>1. s \in C
  BY ScanNumbers
<1>2. Closed(q, C)
  <2>. SUFFICES ASSUME NEW x \in C, NEW y \in ScanType, Moves(q, x, y) PROVE y \in C
    BY DEF Closed
  <2>1. /\ x.length <= y.length /\ x.reads <= y.reads
        /\ y.error = "NONE" => x.error = "NONE"
    BY DEF Moves
  <2>2. OutOf(x) => OutOf(y)
    BY DEF Moves, OutOf, ScanType
  <2>3. /\ s.length \in Nat /\ x.length \in Nat /\ y.length \in Nat
        /\ s.reads \in Nat /\ x.reads \in Nat /\ y.reads \in Nat
    BY ScanNumbers
  <2>. QED  BY <2>1, <2>2, <2>3
<1>3. f \in C
  BY <1>1, <1>2 DEF Leads
<1>. QED  BY <1>3

(* Where no step of the one decode sees a difference the other decode is   *)
(* the same.                                                               *)
Meets(q, s, f) == s \in ScanType /\ Leads(q, StartOfScan, s) /\ Leads(q, s, f)
LEMMA SameDecode ==
    ASSUME NEW q, NEW z, NEW f \in ScanType, NEW g \in ScanType, Offers(q, z),
           Leads(q, StartOfScan, f), f.pc = "done", ~OutOf(f),
           Leads(z, StartOfScan, g), g.pc = "done",
           \A s : Meets(q, s, f) /\ s # f => StepAgrees(q, z, s)
    PROVE  g = f
<1>. DEFINE C == {s \in ScanType : Meets(q, s, f)}
<1>1. StartOfScan \in C /\ C \in SUBSET ScanType
  BY StartIsScan, LeadsToItself DEF Meets
<1>2. Closed(z, C)
  <2>. SUFFICES ASSUME NEW x \in C, NEW y \in ScanType, Moves(z, x, y) PROVE y \in C
    BY DEF Closed
  <2>1. x # f
    BY DEF Moves
  <2>2. PICK u \in ScanType : Moves(q, x, u) /\ Leads(q, u, f)
    BY <2>1, LeadsThroughStep DEF Meets
  <2>3. ~OutOf(u)
    BY <2>2, ErrorsStay
  <2>4. u = Step(q, x) /\ y = Step(z, x) /\ (Before(x) => x.length < q.max_bytes)
    BY <2>2 DEF Moves, Sane
  <2>5. y = u
    BY <2>1, <2>3, <2>4, StepLocal DEF Meets
  <2>. QED  BY <2>2, <2>5, LeadsOn DEF Meets
<1>3. g \in C
  BY <1>1, <1>2 DEF Leads
<1>4. g # f => \E t : Moves(q, g, t)
  BY <1>3, LeadsThroughStep DEF Meets
<1>. QED  BY <1>4 DEF Moves

-----------------------------------------------------------------------------
(* Running out.  Where the step of one question runs out of bytes, the     *)
(* step of the other, with more bytes of the same text, is an error too or *)
(* reads beyond what the first was offered (the lemmas ...Beyond).         *)
LEMMA OutOfIs ==
    /\ \A s, at, n, r : OutOf(Goes(s, at, n, r)) <=> OutOf(s)
    /\ \A s, k : OutOf(WithEnc(s, k)) <=> OutOf(s)
    /\ \A s, d : OutOf(WithImd(s, d)) <=> OutOf(s)
    /\ \A s, p, k, m, d : OutOf(With(s, p, k, m, d)) <=> OutOf(s)
    /\ \A s, e : OutOf(Says(s, e)) <=> OutOf(s)
BY DEF OutOf, Goes, WithEnc, WithImd, With, Says, State
LEMMA ErrorOf ==
    /\ \A q, s : Short(q, s).error # "NONE"
    /\ \A s, e : Says(s, e).error = e
    /\ \A q, s, k : WithEnc(Short(q, s), k).error # "NONE"
    /\ \A q, s, d : WithImd(Short(q, s), d).error # "NONE"
BY DEF WithEnc, WithImd, With, Says, Short, State

(* An answer that is an error, or rests on bytes from n on. *)
Beyond(t, n) == t.error # "NONE" \/ t.reads > n
OfOneText(q, z) == Offers(q, z) /\ q.itext = z.itext

LEMMA SameBytes ==
    ASSUME NEW q, NEW z, OfOneText(q, z)
    PROVE  /\ q.cfg = z.cfg /\ q.max_bytes \in Nat /\ z.max_bytes \in Nat /\ q.max_bytes <= z.max_bytes
           /\ \A i : ByteOf(z, i) = ByteOf(q, i)
           /\ \A i : MemoryModrm(z, i) <=> MemoryModrm(q, i)
BY DEF OfOneText, Offers, ByteOf, MemoryModrm

LEMMA MostIs == ASSUME NEW a \in Nat PROVE \A r, n \in Nat : r > n => Most(a, r) > n
BY DEF Most

LEMMA PrefixBeyond ==
    ASSUME NEW q, NEW z, NEW s \in ScanType, OfOneText(q, z), ~OutOf(s), OutOf(AfterPrefixScanner(q, s))
    PROVE  Beyond(AfterPrefixScanner(z, s), q.max_bytes)
<1>. DEFINE n == s.length
            t == AfterPrefixScanner(z, s)
<1>1. n \in Nat /\ s.reads \in Nat
  BY ScanNumbers
<1>2. ~(n < q.max_bytes)
  BY OutOfIs, SameBytes DEF AfterPrefixScanner
<1>3. CASE ~(n < z.max_bytes)
  <2>1. \E x : t = Short(z, x)
    BY <1>3 DEF AfterPrefixScanner
  <2>. QED  BY <2>1, ErrorOf DEF Beyond
<1>4. CASE n < z.max_bytes
  <2>1. t.reads = Most(s.reads, n + 1)
    BY <1>4, ReadsOf DEF AfterPrefixScanner
  <2>. QED  BY <1>1, <1>2, <2>1, SameBytes, MostIs DEF Beyond
<1>. QED  BY <1>3, <1>4

LEMMA VexBeyond ==
    ASSUME NEW q, NEW z, NEW s \in ScanType, OfOneText(q, z), ~OutOf(s), OutOf(AfterVexScanner(q, s)),
           s.length < q.max_bytes
    PROVE  Beyond(AfterVexScanner(z, s), q.max_bytes)
<1>. DEFINE n == s.length
            b == ByteOf(q, n)
            xop == b = \h8F /\ q.cfg.could_support_xop
            none == IF xop THEN Bits(ByteOf(q, n + 1), 3, 3) = 0 ELSE MemoryModrm(q, n + 1)
            size == IF b = \hC5 THEN 3 ELSE 4
            map == VexMap(ByteOf(q, n + 1))
            t == AfterVexScanner(z, s)
<1>1. n \in Nat /\ s.reads \in Nat
  BY ScanNumbers
<1>2. /\ q.cfg.no_vex # 1 /\ (b \in {\hC4, \hC5} \/ xop)
      /\ n + 1 >= q.max_bytes \/ (~none /\ n + size - 1 >= q.max_bytes)
  BY OutOfIs DEF AfterVexScanner
<1>3. CASE n + 1 >= z.max_bytes
  <2>1. \E x : t = Short(z, x)
    BY <1>2, <1>3, SameBytes DEF AfterVexScanner
  <2>. QED  BY <2>1, ErrorOf DEF Beyond
<1>4. CASE n + 1 < z.max_bytes /\ none
  <2>1. t = Goes(s, "evex", n, n + 2)
    BY <1>1, <1>2, <1>4, SameBytes DEF AfterVexScanner
  <2>2. n + 1 >= q.max_bytes
    BY <1>2, <1>4
  <2>. QED  BY <1>1, <2>1, <2>2, ReadsOf, SameBytes, MostIs DEF Beyond
<1>5. CASE n + 1 < z.max_bytes /\ ~none /\ n + size - 1 >= z.max_bytes
  <2>1. \E x : t = Short(z, x)
    BY <1>1, <1>2, <1>5, SameBytes DEF AfterVexScanner
  <2>. QED  BY <2>1, ErrorOf DEF Beyond
<1>6. CASE n + 1 < z.max_bytes /\ ~none /\ ~(n + size - 1 >= z.max_bytes)
  <2>1. n + size > q.max_bytes
    BY <1>1, <1>2, SameBytes
  <2>2. t.reads = Most(s.reads, n + size) \/ t.error = "BAD_MAP"
    <3>1. CASE b = \hC5
      BY <1>1, <1>2, <1>6, <3>1, SameBytes, ReadsOf DEF AfterVexScanner
    <3>2. CASE b # \hC5
      BY <1>1, <1>2, <1>6, <3>2, SameBytes, ReadsOf, ErrorOf DEF AfterVexScanner
    <3>. QED  BY <3>1, <3>2
  <2>. QED  BY <1>1, <2>1, <2>2, SameBytes, MostIs DEF Beyond
<1>. QED  BY <1>1, <1>3, <1>4, <1>5, <1>6, SameBytes

LEMMA EvexBeyond ==
    ASSUME NEW q, NEW z, NEW s \in ScanType, OfOneText(q, z), ~OutOf(s), OutOf(AfterEvexScanner(q, s)),
           s.enc.vexvalid = Legacy => s.length < q.max_bytes
    PROVE  Beyond(AfterEvexScanner(z, s), q.max_bytes)
<1>. DEFINE n == s.length
            map == EvexMapOf(q.cfg, ByteOf(q, n + 1))
            t == AfterEvexScanner(z, s)
<1>1. n \in Nat /\ s.reads \in Nat
  BY ScanNumbers
<1>2. /\ s.enc.vexvalid = Legacy /\ HasAvx512(q.cfg) /\ ByteOf(q, n) = \h62
      /\ n + 1 >= q.max_bytes \/ (~MemoryModrm(q, n + 1) /\ map # 0 /\ n + 4 >= q.max_bytes)
  BY OutOfIs DEF AfterEvexScanner
<1>3. CASE n + 1 >= z.max_bytes
  <2>1. \E x : t = Short(z, x)
    BY <1>2, <1>3, SameBytes DEF AfterEvexScanner
  <2>. QED  BY <2>1, ErrorOf DEF Beyond
<1>4. CASE n + 1 < z.max_bytes /\ MemoryModrm(q, n + 1)
  <2>1. t = Goes(s, "rex2", n, n + 2)
    BY <1>1, <1>2, <1>4, SameBytes DEF AfterEvexScanner
  <2>2. n + 1 >= q.max_bytes
    BY <1>2, <1>4
  <2>. QED  BY <1>1, <2>1, <2>2, ReadsOf, SameBytes, MostIs DEF Beyond
<1>5. CASE n + 1 < z.max_bytes /\ ~MemoryModrm(q, n + 1) /\ map = 0
  BY <1>1, <1>2, <1>5, SameBytes, ErrorOf DEF AfterEvexScanner, Beyond
<1>6. CASE n + 1 < z.max_bytes /\ ~MemoryModrm(q, n + 1) /\ map # 0 /\ n + 4 >= z.max_bytes
  <2>1. \E x, k : t = WithEnc(Short(z, x), k)
    BY <1>1, <1>2, <1>6, SameBytes DEF AfterEvexScanner
  <2>. QED  BY <2>1, ErrorOf DEF Beyond
<1>7. CASE n + 1 < z.max_bytes /\ ~MemoryModrm(q, n + 1) /\ map # 0 /\ ~(n + 4 >= z.max_bytes)
  <2>1. CASE ~ValidEvexMap(map)
    BY <1>1, <1>2, <1>7, <2>1, SameBytes, ErrorOf DEF AfterEvexScanner, Beyond
  <2>2. CASE ValidEvexMap(map)
    <3>1. t.reads = Most(s.reads, n + 5)
      BY <1>1, <1>2, <1>7, <2>2, SameBytes, ReadsOf DEF AfterEvexScanner
    <3>2. n + 5 > q.max_bytes
      BY <1>1, <1>2, SameBytes
    <3>. QED  BY <1>1, <3>1, <3>2, SameBytes, MostIs DEF Beyond
  <2>. QED  BY <2>1, <2>2
<1>. QED  BY <1>1, <1>3, <1>4, <1>5, <1>6, <1>7, SameBytes

LEMMA Rex2Beyond ==
    ASSUME NEW q, NEW z, NEW s \in ScanType, OfOneText(q, z), ~OutOf(s), OutOf(AfterRex2Scanner(q, s)),
           s.length < q.max_bytes
    PROVE  Beyond(AfterRex2Scanner(z, s), q.max_bytes)
<1>. DEFINE n == s.length
            t == AfterRex2Scanner(z, s)
<1>1. n \in Nat /\ s.reads \in Nat
  BY ScanNumbers
<1>2. HasApx(q.cfg) /\ ByteOf(q, n) = \hD5 /\ (n + 1 >= q.max_bytes \/ n + 2 = q.max_bytes)
  BY OutOfIs DEF AfterRex2Scanner
<1>3. CASE n + 1 >= z.max_bytes
  <2>1. \E x : t = Short(z, x)
    BY <1>2, <1>3, SameBytes DEF AfterRex2Scanner
  <2>. QED  BY <2>1, ErrorOf DEF Beyond
<1>4. CASE n + 1 < z.max_bytes /\ n + 2 = z.max_bytes
  <2>1. \E x, k : t = WithEnc(Short(z, x), k)
    BY <1>1, <1>2, <1>4, SameBytes DEF AfterRex2Scanner
  <2>. QED  BY <2>1, ErrorOf DEF Beyond
<1>5. CASE n + 1 < z.max_bytes /\ n + 2 # z.max_bytes
  <2>1. t.reads = Most(s.reads, n + 3)
    BY <1>1, <1>2, <1>5, SameBytes, ReadsOf DEF AfterRex2Scanner
  <2>2. n + 3 > q.max_bytes
    BY <1>1, <1>2, SameBytes
  <2>. QED  BY <1>1, <2>1, <2>2, SameBytes, MostIs DEF Beyond
<1>. QED  BY <1>1, <1>3, <1>4, <1>5, SameBytes

LEMMA OpcodeBeyond ==
    ASSUME NEW q, NEW z, NEW s \in ScanType, OfOneText(q, z), ~OutOf(s), OutOf(AfterOpcodeScanner(q, s)),
           s.length < q.max_bytes
    PROVE  Beyond(AfterOpcodeScanner(z, s), q.max_bytes)
<1>. DEFINE n == s.length
            map == EscapeMap(ByteOf(q, n + 1))
            t == AfterOpcodeScanner(z, s)
<1>1. n \in Nat /\ s.reads \in Nat
  BY ScanNumbers
<1>2. /\ ByteOf(q, n) = \h0F
      /\ n + 1 >= q.max_bytes \/ (map \notin {1, Amd3DNow} /\ n + 2 = q.max_bytes)
  BY OutOfIs DEF AfterOpcodeScanner
<1>3. CASE n + 1 >= z.max_bytes
  <2>1. \E x : t = Short(z, x)
    BY <1>2, <1>3, SameBytes DEF AfterOpcodeScanner
  <2>. QED  BY <2>1, ErrorOf DEF Beyond
<1>4. CASE n + 1 < z.max_bytes /\ map \in {1, Amd3DNow}
  <2>1. t.reads = Most(s.reads, n + 2)
    BY <1>1, <1>2, <1>4, SameBytes, ReadsOf DEF AfterOpcodeScanner
  <2>2. n + 2 > q.max_bytes
    BY <1>1, <1>2, <1>4, SameBytes
  <2>. QED  BY <1>1, <2>1, <2>2, SameBytes, MostIs DEF Beyond
<1>5. CASE n + 1 < z.max_bytes /\ map \notin {1, Amd3DNow} /\ n + 2 = z.max_bytes
  <2>1. \E x, k : t = WithEnc(Short(z, x), k)
    BY <1>1, <1>2, <1>5, SameBytes DEF AfterOpcodeScanner
  <2>. QED  BY <2>1, ErrorOf DEF Beyond
<1>6. CASE n + 1 < z.max_bytes /\ map \notin {1, Amd3DNow} /\ n + 2 # z.max_bytes
  <2>1. t.reads = Most(s.reads, n + 3)
    BY <1>1, <1>2, <1>6, SameBytes, ReadsOf DEF AfterOpcodeScanner
  <2>2. n + 3 > q.max_bytes
    BY <1>1, <1>2, SameBytes
  <2>. QED  BY <1>1, <2>1, <2>2, SameBytes, MostIs DEF Beyond
<1>. QED  BY <1>1, <1>3, <1>4, <1>5, <1>6, SameBytes

LEMMA ModrmSibBeyond ==
    ASSUME NEW q, NEW z, NEW s \in ScanType, OfOneText(q, z), ~OutOf(s)
    PROVE  /\ OutOf(AfterModrmScanner(q, s)) => Beyond(AfterModrmScanner(z, s), q.max_bytes)
           /\ OutOf(AfterSibScanner(q, s)) => Beyond(AfterSibScanner(z, s), q.max_bytes)
<1>. DEFINE n == s.length
<1>1. n \in Nat /\ s.reads \in Nat
  BY ScanNumbers
<1>2. n >= q.max_bytes /\ n < z.max_bytes => Most(s.reads, n + 1) > q.max_bytes
  BY <1>1, SameBytes, MostIs
<1>3. ASSUME OutOf(AfterModrmScanner(q, s)) PROVE Beyond(AfterModrmScanner(z, s), q.max_bytes)
  <2>1. ModrmOf(q.cfg, s.enc) # ModrmFalse /\ n >= q.max_bytes
    BY <1>3, OutOfIs DEF AfterModrmScanner
  <2>2. CASE n >= z.max_bytes
    <3>1. \E x : AfterModrmScanner(z, s) = Short(z, x)
      BY <2>1, <2>2, SameBytes DEF AfterModrmScanner
    <3>. QED  BY <3>1, ErrorOf DEF Beyond
  <2>3. CASE n < z.max_bytes
    <3>1. AfterModrmScanner(z, s).reads = Most(s.reads, n + 1)
      BY <1>1, <2>1, <2>3, SameBytes, ReadsOf DEF AfterModrmScanner
    <3>. QED  BY <1>2, <2>1, <2>3, <3>1 DEF Beyond
  <2>. QED  BY <1>1, <2>2, <2>3, SameBytes
<1>4. ASSUME OutOf(AfterSibScanner(q, s)) PROVE Beyond(AfterSibScanner(z, s), q.max_bytes)
  <2>1. s.mrm.has_sib /\ n >= q.max_bytes
    BY <1>4, OutOfIs DEF AfterSibScanner
  <2>2. CASE n >= z.max_bytes
    <3>1. \E x : AfterSibScanner(z, s) = Short(z, x)
      BY <2>1, <2>2, SameBytes DEF AfterSibScanner
    <3>. QED  BY <3>1, ErrorOf DEF Beyond
  <2>3. CASE n < z.max_bytes
    <3>1. AfterSibScanner(z, s).reads = Most(s.reads, n + 1)
      BY <1>1, <2>1, <2>3, SameBytes, ReadsOf DEF AfterSibScanner
    <3>. QED  BY <1>2, <2>1, <2>3, <3>1 DEF Beyond
  <2>. QED  BY <1>1, <2>2, <2>3, SameBytes
<1>. QED  BY <1>3, <1>4

LEMMA DispBeyond ==
    ASSUME NEW q, NEW z, NEW s \in ScanType, OfOneText(q, z), ~OutOf(s), OutOf(AfterDispScanner(q, s)),
           NEW t \in ScanType, t = AfterDispScanner(z, s)
    PROVE  Beyond(t, q.max_bytes)
<1>. DEFINE n == s.length
            w == DispOf(q.cfg, s)
<1>1. n \in Nat /\ s.reads \in Nat /\ s.imd \in ImdType /\ t.imd \in ImdType
  BY ScanNumbers DEF ScanType
<1>2. w # 0 /\ ~(n + w <= q.max_bytes)
  BY OutOfIs DEF AfterDispScanner
<1>3. CASE ~(n + w <= z.max_bytes)
  <2>1. \E x, d : t = WithImd(Short(z, x), d)
    BY <1>2, <1>3, SameBytes DEF AfterDispScanner
  <2>. QED  BY <2>1, ErrorOf DEF Beyond
<1>4. CASE n + w <= z.max_bytes
  <2>1. t = WithImd(Goes(s, "imm", n + w, n + w), DispFound(s.imd, w, n))
    BY <1>2, <1>4, SameBytes DEF AfterDispScanner
  <2>2. w \in Nat
    <3>1. t.imd = DispFound(s.imd, w, n)
      BY <2>1, ImdOf
    <3>2. t.imd.disp_width = w
      BY <1>1, <3>1 DEF DispFound, ImdType
    <3>. QED  BY <1>1, <3>2, WidthsNat DEF ImdType
  <2>3. t.reads = Most(s.reads, n + w)
    BY <2>1, ReadsOf
  <2>. QED  BY <1>1, <1>2, <2>2, <2>3, SameBytes, MostIs DEF Beyond
<1>. QED  BY <1>3, <1>4

LEMMA ImmBeyond ==
    ASSUME NEW q, NEW z, NEW s \in ScanType, OfOneText(q, z), ~OutOf(s), OutOf(AfterImmScanner(q, s)),
           NEW t \in ScanType, t = AfterImmScanner(z, s)
    PROVE  Beyond(t, q.max_bytes)
<1>. DEFINE n == s.length
            w == ImmOf(q.cfg, s).imm
            w1 == ImmOf(q.cfg, s).imm1
            d == ImmIs(s.imd, w, w1)
            to == IF s.enc.vexvalid = Evex THEN "late_evex" ELSE "done"
<1>1. n \in Nat /\ s.reads \in Nat /\ s.imd \in ImdType /\ t.imd \in ImdType
  BY ScanNumbers DEF ScanType
<1>2. CASE s.enc.amd3dnow
  <2>1. ~(n < q.max_bytes)
    BY <1>2, OutOfIs DEF AfterImmScanner
  <2>2. CASE ~(n < z.max_bytes)
    <3>1. \E x, y : t = WithImd(Short(z, x), y)
      BY <1>2, <2>2, SameBytes DEF AfterImmScanner
    <3>. QED  BY <3>1, ErrorOf DEF Beyond
  <2>3. CASE n < z.max_bytes
    <3>1. t.reads = Most(s.reads, n + 1)
      BY <1>2, <2>3, SameBytes, ReadsOf DEF AfterImmScanner
    <3>. QED  BY <1>1, <2>1, <3>1, SameBytes, MostIs DEF Beyond
  <2>. QED  BY <2>2, <2>3
<1>3. CASE ~s.enc.amd3dnow
  <2>1. w # 0 /\ (n + w > q.max_bytes \/ n + w + w1 > q.max_bytes)
    BY <1>3, OutOfIs DEF AfterImmScanner
  <2>2. CASE n + w > z.max_bytes \/ n + w + w1 > z.max_bytes
    <3>1. \E x, y : t = WithImd(Short(z, x), y)
      BY <1>3, <2>1, <2>2, SameBytes DEF AfterImmScanner
    <3>. QED  BY <3>1, ErrorOf DEF Beyond
  <2>3. CASE ~(n + w > z.max_bytes) /\ ~(n + w + w1 > z.max_bytes)
    <3>1. t = WithImd(Goes(s, to, n + w + w1, n + w + w1),
                      BothImmFound(d, n, IF w1 # 0 THEN n + w ELSE d.pos_imm1))
      BY <1>3, <2>1, <2>3, SameBytes DEF AfterImmScanner
    <3>2. w \in Nat /\ w1 \in Nat
      <4>. t.imd = BothImmFound(d, n, IF w1 # 0 THEN n + w ELSE d.pos_imm1)
        BY <3>1, ImdOf
      <4>1. t.imd.imm_width = w /\ t.imd.imm1_bytes = w1
        BY <1>1 DEF BothImmFound, ImmIs, ImdType
      <4>2. t.imd.imm_width \in Widths /\ t.imd.imm1_bytes \in Bit
        BY <1>1 DEF ImdType
      <4>3. t.imd.imm1_bytes \in Nat
        BY <4>2 DEF Bit
      <4>. QED  BY <4>1, <4>2, <4>3, WidthsNat
    <3>3. t.reads = Most(s.reads, n + w + w1)
      BY <3>1, ReadsOf
    <3>4. n + w + w1 > q.max_bytes
      BY <1>1, <2>1, <3>2, SameBytes
    <3>. QED  BY <1>1, <3>2, <3>3, <3>4, SameBytes, MostIs DEF Beyond
  <2>. QED  BY <2>2, <2>3
<1>. QED  BY <1>2, <1>3

LEMMA StepBeyond ==
    ASSUME NEW q, NEW z, NEW s \in ScanType, OfOneText(q, z), Before(s) => s.length < q.max_bytes,
           ~OutOf(s), OutOf(Step(q, s)), NEW t \in ScanType, t = Step(z, s)
    PROVE  Beyond(t, q.max_bytes)
<1>1. s.pc \in Pcs
  BY DEF ScanType
<1>2. CASE s.pc = "prefix"
  BY <1>2, PrefixBeyond DEF Step
<1>3. CASE s.pc = "vex"
  BY <1>3, VexBeyond DEF Step, Before
<1>4. CASE s.pc = "evex"
  BY <1>4, EvexBeyond DEF Step, Before
<1>5. CASE s.pc = "rex2"
  BY <1>5, Rex2Beyond DEF Step, Before
<1>6. CASE s.pc = "opcode"
  BY <1>6, OpcodeBeyond DEF Step, Before
<1>7. CASE s.pc \in {"modrm", "sib"}
  BY <1>7, ModrmSibBeyond DEF Step
<1>8. CASE s.pc = "disp"
  BY <1>8, DispBeyond DEF Step
<1>9. CASE s.pc = "imm"
  BY <1>9, ImmBeyond DEF Step
<1>10. CASE s.pc \in {"catch_invalid", "late_evex", "done"}
  BY <1>10, OutOfIs DEF Step, AfterCatchInvalid, AfterLateEvex
<1>. QED  BY <1>1, <1>2, <1>3, <1>4, <1>5, <1>6, <1>7, <1>8, <1>9, <1>10 DEF Pcs

(* Where one decode has run out of bytes, another of the same text is an   *)
(* error or goes beyond what the one was offered.                          *)
LEMMA DecodeBeyond ==
    ASSUME NEW q, NEW z, NEW f \in ScanType, NEW g \in ScanType, OfOneText(q, z),
           Leads(q, StartOfScan, f), OutOf(f), Leads(z, StartOfScan, g), g.pc = "done"
    PROVE  Beyond(g, q.max_bytes)
<1>. DEFINE C == {s \in ScanType : (Leads(q, s, f) /\ ~OutOf(s)) \/ Beyond(s, q.max_bytes)}
<1>1. StartOfScan \in C /\ C \in SUBSET ScanType
  <2>1. ~OutOf(StartOfScan)
    BY DEF OutOf, StartOfScan, State
  <2>. QED  BY <2>1, StartIsScan
<1>2. Closed(z, C)
  <2>. SUFFICES ASSUME NEW x \in C, NEW y \in ScanType, Moves(z, x, y) PROVE y \in C
    BY DEF Closed
  <2>1. CASE Beyond(x, q.max_bytes)
    <3>1. x.reads \in Nat /\ y.reads \in Nat /\ q.max_bytes \in Nat
      BY ScanNumbers, SameBytes
    <3>. QED  BY <2>1, <3>1 DEF Beyond, Moves
  <2>2. CASE Leads(q, x, f) /\ ~OutOf(x)
    <3>1. PICK u \in ScanType : Moves(q, x, u) /\ Leads(q, u, f)
      BY <2>2, LeadsThroughStep
    <3>2. u = Step(q, x) /\ y = Step(z, x) /\ (Before(x) => x.length < q.max_bytes)
      BY <3>1 DEF Moves, Sane
    <3>3. CASE OutOf(u)
      BY <2>2, <3>2, <3>3, StepBeyond
    <3>4. CASE ~OutOf(u)
      <4>1. StepAgrees(q, z, x)
        BY SameBytes DEF StepAgrees
      <4>2. y = u
        BY <3>2, <3>4, <4>1, StepLocal DEF OfOneText
      <4>. QED  BY <3>1, <3>4, <4>2
    <3>. QED  BY <3>3, <3>4
  <2>. QED  BY <2>1, <2>2
<1>3. g \in C
  BY <1>1, <1>2 DEF Leads
<1>4. Leads(q, g, f) /\ g # f => \E t : Moves(q, g, t)
  BY <1>3, LeadsThroughStep
<1>. QED  BY <1>3, <1>4 DEF Moves

-----------------------------------------------------------------------------
(* What has been read when a displacement or an immediate is still to come *)
(* lies before it.                                                         *)
LEMMA FieldBehind ==
    ASSUME NEW q, NEW u \in ScanType, NEW f \in ScanType, Leads(q, u, f), f.error = "NONE",
           u.imd.pos_disp = 0, u.imd.pos_imm = 0
    PROVE  /\ f.imd.pos_disp = 0 \/ u.reads <= f.imd.pos_disp
           /\ f.imd.pos_imm = 0 \/ u.reads <= f.imd.pos_imm
<1>. DEFINE C == {x \in ScanType : /\ u.reads <= x.reads
                                   /\ x.error = "NONE" =>
                                        /\ x.imd.pos_disp = 0 \/ u.reads <= x.imd.pos_disp
                                        /\ x.imd.pos_imm = 0 \/ u.reads <= x.imd.pos_imm}
<1>1. u \in C
  BY ScanNumbers
<1>2. Closed(q, C)
  <2>. SUFFICES ASSUME NEW x \in C, NEW y \in ScanType, Moves(q, x, y) PROVE y \in C
    BY DEF Closed
  <2>1. u.reads \in Nat /\ x.reads \in Nat /\ y.reads \in Nat
    BY ScanNumbers
  <2>2. u.reads <= y.reads
    BY <2>1 DEF Moves
  <2>3. ASSUME y.error = "NONE"
        PROVE  /\ y.imd.pos_disp = 0 \/ u.reads <= y.imd.pos_disp
               /\ y.imd.pos_imm = 0 \/ u.reads <= y.imd.pos_imm
    <3>1. x.error = "NONE" /\ (x.pc \in {"disp", "imm"} => x.reads = x.length)
      BY <2>3 DEF Moves, Sane
    <3>. QED  BY <2>1, <3>1 DEF Moves
  <2>. QED  BY <2>2, <2>3
<1>3. f \in C
  BY <1>1, <1>2 DEF Leads
<1>. QED  BY <1>3

(* Behind the immediates the fields stay as they are. *)
LEMMA ImmIsLast ==
    ASSUME NEW q, NEW s \in ScanType, NEW u \in ScanType, NEW f \in ScanType,
           s.pc = "imm", u = Step(q, s), Leads(q, u, f)
    PROVE  f.imd = u.imd
<1>1. u.pc \in {"late_evex", "done"}
  <2>1. \A x, at, n, r : Goes(x, at, n, r).pc = at
    BY DEF Goes, State
  <2>2. /\ \A x, d : WithImd(x, d).pc = x.pc
        /\ \A x, p, k, m, d : With(x, p, k, m, d).pc = x.pc
        /\ \A y, x : Short(y, x).pc = x.pc
    BY DEF WithImd, With, Short, State
  <2>. QED  BY <2>1, <2>2 DEF Step, AfterImmScanner
<1>2. CASE u.pc = "done"
  <2>1. u # f => \E t : Moves(q, u, t)
    BY LeadsThroughStep
  <2>. QED  BY <1>2, <2>1 DEF Moves
<1>3. CASE u.pc = "late_evex" /\ u # f
  <2>1. PICK v \in ScanType : Moves(q, u, v) /\ Leads(q, v, f)
    BY <1>3, LeadsThroughStep
  <2>2. v = AfterLateEvex(q, u)
    BY <1>3, <2>1 DEF Moves, Step
  <2>3. v.pc = "done" /\ v.imd = u.imd
    BY <2>2 DEF AfterLateEvex, WithEnc, With, Goes, State
  <2>4. v # f => \E t : Moves(q, v, t)
    BY <2>1, LeadsThroughStep
  <2>. QED  BY <2>3, <2>4 DEF Moves
<1>. QED  BY <1>1, <1>2, <1>3

(* The bytes of a displacement, or of a first immediate, decide nothing:   *)
(* no scanner that looks at a byte looks at them.                          *)
LEMMA FieldDecidesNothing ==
    ASSUME NEW q, NEW z, NEW f \in ScanType, f.error = "NONE", NEW p, NEW w, p # 0,
           \/ p = f.imd.pos_disp /\ w = f.imd.disp_width
           \/ p = f.imd.pos_imm /\ w = f.imd.imm_width,
           \A i \in Nat : i \notin p..(p + w - 1) => ByteOf(z, i) = ByteOf(q, i),
           NEW s, Meets(q, s, f), s # f
    PROVE  StepAgrees(q, z, s)
<1>1. PICK u \in ScanType : Moves(q, s, u) /\ Leads(q, u, f)
  BY LeadsThroughStep DEF Meets
<1>2. s \in ScanType /\ s.error = "NONE" /\ u = Step(q, s)
  BY <1>1, ErrorsStay DEF Meets, Moves
<1>3. /\ s.pc \in Pcs /\ s.imd \in ImdType /\ u.imd \in ImdType /\ f.imd \in ImdType
      /\ s.length \in Nat /\ u.reads \in Nat
  BY <1>2, ScanNumbers DEF ScanType
<1>4. p \in Nat /\ w \in Nat
  <2>1. f.imd.pos_disp \in Nat /\ f.imd.pos_imm \in Nat
    BY <1>3, MaxAssumption DEF ImdType, Pos
  <2>2. f.imd.disp_width \in Nat /\ f.imd.imm_width \in Nat
    BY <1>3, WidthsNat DEF ImdType
  <2>. QED  BY <2>1, <2>2
<1>5. ASSUME s.pc \notin Behind, NEW i \in Nat, i < u.reads PROVE ByteOf(z, i) = ByteOf(q, i)
  <2>1. s.pc \in Early \cup {"sib"}
    BY <1>3, <1>5 DEF Behind, Pcs, Early
  <2>2. u.imd.pos_disp = 0 /\ u.imd.pos_imm = 0
    BY <1>1, <1>2, <2>1 DEF Moves, Sane, Early
  <2>3. u.reads <= p
    BY <1>1, <2>2, FieldBehind
  <2>. QED  BY <1>3, <1>4, <1>5, <2>3
<1>6. ASSUME s.pc = "imm", s.enc.amd3dnow PROVE ByteOf(z, s.length) = ByteOf(q, s.length)
  <2>1. f.imd = u.imd
    BY <1>1, <1>2, <1>6, ImmIsLast
  <2>2. s.imd.pos_imm = 0 /\ s.imd.pos_disp + s.imd.disp_width <= s.length
    BY <1>1, <1>2, <1>6 DEF Moves, Sane
  <2>3. /\ u.imd.pos_imm = 0 /\ u.imd.pos_disp = s.imd.pos_disp
        /\ u.imd.disp_width = s.imd.disp_width
    <3>1. \E a, b : u.imd = ImmIs(s.imd, a, b)
      BY <1>2, <1>6, ImdOf DEF Step, AfterImmScanner
    <3>. QED  BY <1>3, <2>2, <3>1 DEF ImmIs, ImdType
  <2>4. p = s.imd.pos_disp /\ w = s.imd.disp_width
    BY <2>1, <2>3
  <2>. QED  BY <1>3, <1>4, <2>2, <2>4
<1>. QED  BY <1>2, <1>5, <1>6 DEF StepAgrees

-----------------------------------------------------------------------------
(* The second decode.  MP names the definitions and facts of the proofs    *)
(* with its variables; its steps are those of More, and what does not      *)
(* depend on variables is the same for both.                               *)
MP == INSTANCE XedIldFieldProofs WITH
        pc <- more_pc, itext <- more_itext, max_bytes <- more_max_bytes, length <- more_length,
        out_of_bytes <- more_out_of_bytes, error <- more_error, reads <- more_reads,
        pfx <- more_pfx, enc <- more_enc, mrm <- more_mrm, imd <- more_imd

(* The steps of More, one scanner at a time. *)
LEMMA MoreNext == More!Next <=> MP!Next
<1>. USE DEF More!inputs, MP!inputs
<1>1. More!PrefixByte <=> MP!PrefixByte
  BY Zenon DEF
     More!PrefixByte, More!IsPrefixByte, More!Byte, More!AfterPrefix, More!RexPrefixes,
     More!Seen, More!LegacyPrefixes, More!mode_64b, More!SegPrefixes, More!SegmentPrefix,
     More!RepPrefix, More!Mode64, More!SegHint, More!SegKept, MP!PrefixByte, MP!IsPrefixByte,
     MP!Byte, MP!AfterPrefix, MP!RexPrefixes, MP!Seen, MP!LegacyPrefixes, MP!mode_64b,
     MP!SegPrefixes, MP!SegmentPrefix, MP!RepPrefix, MP!Mode64, MP!SegHint, MP!SegKept
<1>2. More!PrefixesOut <=> MP!PrefixesOut
  BY Zenon DEF
     More!PrefixesOut, More!IsPrefixByte, More!Byte, More!Seen, More!SegOvd, More!Bits,
     More!too_short, More!LegacyPrefixes, More!mode_64b, More!RexPrefixes, More!SegPrefixes,
     More!Mode64, MP!PrefixesOut, MP!IsPrefixByte, MP!Byte, MP!Seen, MP!SegOvd, MP!Bits,
     MP!too_short, MP!LegacyPrefixes, MP!mode_64b, MP!RexPrefixes, MP!SegPrefixes, MP!Mode64
<1>3. More!VexNone <=> MP!VexNone
  BY Zenon DEF
     More!VexNone, More!Byte, More!IsXop, More!Seen, More!ModrmIsMemory, More!Bits,
     More!mode_64b, More!Mode64, MP!VexNone, MP!Byte, MP!IsXop, MP!Seen, MP!ModrmIsMemory,
     MP!Bits, MP!mode_64b, MP!Mode64
<1>4. More!VexShort <=> MP!VexShort
  BY Zenon DEF
     More!VexShort, More!Seen, More!Byte, More!RunOut, More!IsXop, More!ModrmIsMemory,
     More!Bits, More!too_short, More!mode_64b, More!Mode64, MP!VexShort, MP!Seen, MP!Byte,
     MP!RunOut, MP!IsXop, MP!ModrmIsMemory, MP!Bits, MP!too_short, MP!mode_64b, MP!Mode64
<1>5. More!VexC4 <=> MP!VexC4
  BY Zenon DEF
     More!VexC4, More!Byte, More!ModrmIsMemory, More!Bits, More!ValidVexMap, More!BadMap,
     More!Seen, More!WithOpcode, More!Vex, More!mode_64b, More!InvalidMap, More!MapInfo,
     More!Mode64, More!Legacy, More!Info, More!Var, More!ImmVar, More!Yes, More!No,
     More!Amd3DNow, More!Evex, More!Xop, More!NoInfo, MP!VexC4, MP!Byte, MP!ModrmIsMemory,
     MP!Bits, MP!ValidVexMap, MP!BadMap, MP!Seen, MP!WithOpcode, MP!Vex, MP!mode_64b,
     MP!InvalidMap, MP!MapInfo, MP!Mode64, MP!Legacy, MP!Info, MP!Var, MP!ImmVar, MP!Yes, MP!No,
     MP!Amd3DNow, MP!Evex, MP!Xop, MP!NoInfo
<1>6. More!VexC5 <=> MP!VexC5
  BY Zenon DEF
     More!VexC5, More!Byte, More!ModrmIsMemory, More!WithOpcode, More!Vex, More!Seen,
     More!mode_64b, More!Bits, More!MapInfo, More!Mode64, More!Legacy, More!Info, More!Var,
     More!ImmVar, More!Yes, More!No, More!Amd3DNow, More!Evex, More!Xop, More!NoInfo, MP!VexC5,
     MP!Byte, MP!ModrmIsMemory, MP!WithOpcode, MP!Vex, MP!Seen, MP!mode_64b, MP!Bits,
     MP!MapInfo, MP!Mode64, MP!Legacy, MP!Info, MP!Var, MP!ImmVar, MP!Yes, MP!No, MP!Amd3DNow,
     MP!Evex, MP!Xop, MP!NoInfo
<1>7. More!VexXop <=> MP!VexXop
  BY Zenon DEF
     More!VexXop, More!IsXop, More!Bits, More!Byte, More!Xop, More!ValidXopMap, More!InvalidMap,
     More!WithOpcode, More!Seen, More!MapInfo, More!Legacy, More!Info, More!Var, More!ImmVar,
     More!Yes, More!No, More!Amd3DNow, More!Vex, More!Evex, More!NoInfo, MP!VexXop, MP!IsXop,
     MP!Bits, MP!Byte, MP!Xop, MP!ValidXopMap, MP!InvalidMap, MP!WithOpcode, MP!Seen,
     MP!MapInfo, MP!Legacy, MP!Info, MP!Var, MP!ImmVar, MP!Yes, MP!No, MP!Amd3DNow, MP!Vex,
     MP!Evex, MP!NoInfo
<1>8. More!EvexNone <=> MP!EvexNone
  BY Zenon DEF
     More!EvexNone, More!Legacy, More!decoder_supports_avx512, More!Byte, More!Seen,
     More!IsEvex, More!ModrmIsMemory, More!mode_64b, More!Bits, More!Mode64, MP!EvexNone,
     MP!Legacy, MP!decoder_supports_avx512, MP!Byte, MP!Seen, MP!IsEvex, MP!ModrmIsMemory,
     MP!mode_64b, MP!Bits, MP!Mode64
<1>9. More!EvexShort <=> MP!EvexShort
  BY Zenon DEF
     More!EvexShort, More!IsEvex, More!Seen, More!RunOut, More!ModrmIsMemory, More!EvexMap,
     More!Byte, More!Evex, More!too_short, More!Legacy, More!decoder_supports_avx512,
     More!mode_64b, More!Bits, More!decoder_supports_apx, More!Mode64, MP!EvexShort, MP!IsEvex,
     MP!Seen, MP!RunOut, MP!ModrmIsMemory, MP!EvexMap, MP!Byte, MP!Evex, MP!too_short,
     MP!Legacy, MP!decoder_supports_avx512, MP!mode_64b, MP!Bits, MP!decoder_supports_apx,
     MP!Mode64
<1>10. More!EvexBadMap <=> MP!EvexBadMap
  BY Zenon DEF
     More!EvexBadMap, More!IsEvex, More!ModrmIsMemory, More!EvexMap, More!Byte, More!Seen,
     More!BadMap, More!Evex, More!ValidEvexMap, More!Legacy, More!decoder_supports_avx512,
     More!mode_64b, More!Bits, More!decoder_supports_apx, More!InvalidMap, More!Mode64,
     MP!EvexBadMap, MP!IsEvex, MP!ModrmIsMemory, MP!EvexMap, MP!Byte, MP!Seen, MP!BadMap,
     MP!Evex, MP!ValidEvexMap, MP!Legacy, MP!decoder_supports_avx512, MP!mode_64b, MP!Bits,
     MP!decoder_supports_apx, MP!InvalidMap, MP!Mode64
<1>11. More!EvexScan <=> MP!EvexScan
  BY Zenon DEF
     More!EvexScan, More!IsEvex, More!ModrmIsMemory, More!ValidEvexMap, More!EvexMap, More!Byte,
     More!Evex, More!Bits, More!WithOpcode, More!EvexPayload3Error, More!Seen, More!Legacy,
     More!decoder_supports_avx512, More!mode_64b, More!decoder_supports_apx, More!MapInfo,
     More!Mode64, More!Info, More!Var, More!ImmVar, More!Yes, More!No, More!Amd3DNow, More!Vex,
     More!Xop, More!NoInfo, MP!EvexScan, MP!IsEvex, MP!ModrmIsMemory, MP!ValidEvexMap,
     MP!EvexMap, MP!Byte, MP!Evex, MP!Bits, MP!WithOpcode, MP!EvexPayload3Error, MP!Seen,
     MP!Legacy, MP!decoder_supports_avx512, MP!mode_64b, MP!decoder_supports_apx, MP!MapInfo,
     MP!Mode64, MP!Info, MP!Var, MP!ImmVar, MP!Yes, MP!No, MP!Amd3DNow, MP!Vex, MP!Xop,
     MP!NoInfo
<1>12. More!CatchInvalid <=> MP!CatchInvalid
  BY Zenon DEF
     More!CatchInvalid, More!mode_64b, More!Mode64, MP!CatchInvalid, MP!mode_64b, MP!Mode64
<1>13. More!Rex2None <=> MP!Rex2None
  BY Zenon DEF
     More!Rex2None, More!decoder_supports_apx, More!Byte, More!Seen, More!mode_64b, More!Mode64,
     MP!Rex2None, MP!decoder_supports_apx, MP!Byte, MP!Seen, MP!mode_64b, MP!Mode64
<1>14. More!Rex2 <=> MP!Rex2
  BY Zenon DEF
     More!Rex2, More!decoder_supports_apx, More!Byte, More!Bits, More!Seen, More!RunOut,
     More!too_short, More!WithOpcode, More!mode_64b, More!MapInfo, More!Mode64, More!Legacy,
     More!Info, More!Var, More!ImmVar, More!Yes, More!No, More!Amd3DNow, More!Vex, More!Evex,
     More!Xop, More!NoInfo, MP!Rex2, MP!decoder_supports_apx, MP!Byte, MP!Bits, MP!Seen,
     MP!RunOut, MP!too_short, MP!WithOpcode, MP!mode_64b, MP!MapInfo, MP!Mode64, MP!Legacy,
     MP!Info, MP!Var, MP!ImmVar, MP!Yes, MP!No, MP!Amd3DNow, MP!Vex, MP!Evex, MP!Xop, MP!NoInfo
<1>15. More!OpcodeMap0 <=> MP!OpcodeMap0
  BY Zenon DEF
     More!OpcodeMap0, More!Byte, More!Seen, More!WithOpcode, More!MapInfo, More!Legacy,
     More!Info, More!Var, More!ImmVar, More!Yes, More!No, More!Amd3DNow, More!Vex, More!Evex,
     More!Xop, More!NoInfo, MP!OpcodeMap0, MP!Byte, MP!Seen, MP!WithOpcode, MP!MapInfo,
     MP!Legacy, MP!Info, MP!Var, MP!ImmVar, MP!Yes, MP!No, MP!Amd3DNow, MP!Vex, MP!Evex, MP!Xop,
     MP!NoInfo
<1>16. More!OpcodeShort <=> MP!OpcodeShort
  BY Zenon DEF
     More!OpcodeShort, More!AtEscape, More!Seen, More!RunOut, More!Escaped, More!too_short,
     More!Byte, More!EscapeMap, More!MapInfo, More!Legacy, More!Amd3DNow, More!Info, More!Var,
     More!ImmVar, More!Yes, More!No, More!Vex, More!Evex, More!Xop, More!NoInfo, MP!OpcodeShort,
     MP!AtEscape, MP!Seen, MP!RunOut, MP!Escaped, MP!too_short, MP!Byte, MP!EscapeMap,
     MP!MapInfo, MP!Legacy, MP!Amd3DNow, MP!Info, MP!Var, MP!ImmVar, MP!Yes, MP!No, MP!Vex,
     MP!Evex, MP!Xop, MP!NoInfo
<1>17. More!OpcodeMap1 <=> MP!OpcodeMap1
  BY Zenon DEF
     More!OpcodeMap1, More!AtEscape, More!Escaped, More!Seen, More!WithOpcode, More!Byte,
     More!EscapeMap, More!MapInfo, More!Legacy, More!Amd3DNow, More!Info, More!Var, More!ImmVar,
     More!Yes, More!No, More!Vex, More!Evex, More!Xop, More!NoInfo, MP!OpcodeMap1, MP!AtEscape,
     MP!Escaped, MP!Seen, MP!WithOpcode, MP!Byte, MP!EscapeMap, MP!MapInfo, MP!Legacy,
     MP!Amd3DNow, MP!Info, MP!Var, MP!ImmVar, MP!Yes, MP!No, MP!Vex, MP!Evex, MP!Xop, MP!NoInfo
<1>18. More!OpcodeMap23 <=> MP!OpcodeMap23
  BY Zenon DEF
     More!OpcodeMap23, More!AtEscape, More!Escaped, More!Seen, More!WithOpcode, More!Byte,
     More!EscapeMap, More!MapInfo, More!Legacy, More!Amd3DNow, More!Info, More!Var, More!ImmVar,
     More!Yes, More!No, More!Vex, More!Evex, More!Xop, More!NoInfo, MP!OpcodeMap23, MP!AtEscape,
     MP!Escaped, MP!Seen, MP!WithOpcode, MP!Byte, MP!EscapeMap, MP!MapInfo, MP!Legacy,
     MP!Amd3DNow, MP!Info, MP!Var, MP!ImmVar, MP!Yes, MP!No, MP!Vex, MP!Evex, MP!Xop, MP!NoInfo
<1>19. More!Opcode3DNow <=> MP!Opcode3DNow
  BY Zenon DEF
     More!Opcode3DNow, More!AtEscape, More!Escaped, More!Amd3DNow, More!Seen, More!Byte,
     More!EscapeMap, More!MapInfo, More!Legacy, More!Info, More!Var, More!ImmVar, More!Yes,
     More!No, More!Vex, More!Evex, More!Xop, More!NoInfo, MP!Opcode3DNow, MP!AtEscape,
     MP!Escaped, MP!Amd3DNow, MP!Seen, MP!Byte, MP!EscapeMap, MP!MapInfo, MP!Legacy, MP!Info,
     MP!Var, MP!ImmVar, MP!Yes, MP!No, MP!Vex, MP!Evex, MP!Xop, MP!NoInfo
<1>20. More!ModrmScanner <=> MP!ModrmScanner
  BY Zenon DEF
     More!ModrmScanner, More!Byte, More!Bits, More!EaMode, More!HasModrm, More!ModrmIgnoreMod,
     More!ModrmFalse, More!too_short, More!HasSib, More!HasDispRegular, More!BadLL, More!Seen,
     More!Mode32, More!Mode16, More!Yes, More!ModrmTrue, More!No, More!ModrmUd0,
     MP!ModrmScanner, MP!Byte, MP!Bits, MP!EaMode, MP!HasModrm, MP!ModrmIgnoreMod,
     MP!ModrmFalse, MP!too_short, MP!HasSib, MP!HasDispRegular, MP!BadLL, MP!Seen, MP!Mode32,
     MP!Mode16, MP!Yes, MP!ModrmTrue, MP!No, MP!ModrmUd0
<1>21. More!SibScanner <=> MP!SibScanner
  BY Zenon DEF
     More!SibScanner, More!too_short, More!Bits, More!Byte, More!Seen, MP!SibScanner,
     MP!too_short, MP!Bits, MP!Byte, MP!Seen
<1>22. More!DispScanner <=> MP!DispScanner
  BY Zenon DEF
     More!DispScanner, More!DispBytes, More!Seen, More!too_short, More!Cx, More!Var, More!Keep,
     MP!DispScanner, MP!DispBytes, MP!Seen, MP!too_short, MP!Cx, MP!Var, MP!Keep
<1>23. More!ImmScanner3DNow <=> MP!ImmScanner3DNow
  BY Zenon DEF
     More!ImmScanner3DNow, More!ImmBytes, More!Byte, More!Seen, More!too_short, More!AfterImm,
     More!ImmVar, More!Cx, More!Evex, MP!ImmScanner3DNow, MP!ImmBytes, MP!Byte, MP!Seen,
     MP!too_short, MP!AfterImm, MP!ImmVar, MP!Cx, MP!Evex
<1>24. More!ImmScanner <=> MP!ImmScanner
  BY Zenon DEF
     More!ImmScanner, More!ImmBytes, More!too_short, More!Seen, More!AfterImm, More!ImmVar,
     More!Cx, More!Evex, MP!ImmScanner, MP!ImmBytes, MP!too_short, MP!Seen, MP!AfterImm,
     MP!ImmVar, MP!Cx, MP!Evex
<1>25. More!LateEvex <=> MP!LateEvex
  BY Zenon DEF
     More!LateEvex, More!decoder_supports_apx, More!mode_64b, More!Mode64, MP!LateEvex,
     MP!decoder_supports_apx, MP!mode_64b, MP!Mode64
<1>. QED
  BY <1>1, <1>2, <1>3, <1>4, <1>5, <1>6, <1>7, <1>8, <1>9, <1>10, <1>11, <1>12, <1>13, <1>14,
  <1>15, <1>16, <1>17, <1>18, <1>19, <1>20, <1>21, <1>22, <1>23, <1>24, <1>25
  DEF More!Next, MP!Next

(* A step as a function is the same in both names. *)
LEMMA MoreStep == ASSUME NEW q, NEW s PROVE MP!Step(q, s) = Step(q, s)
<1>1. MP!AfterPrefixScanner(q, s) = AfterPrefixScanner(q, s)
  BY Zenon DEF
     AfterPrefixScanner, ByteOf, IsPrefixIn, With, Goes, PfxCounted, PfxDerived, EncDerived,
     Short, LegacyPrefixes, In64, RexPrefixes, State, Most, PfxAfter, SegOvd, Bits, SegPrefixes,
     Mode64, HintAfter, SegAfter, MP!AfterPrefixScanner, MP!ByteOf, MP!IsPrefixIn, MP!With,
     MP!Goes, MP!PfxCounted, MP!PfxDerived, MP!EncDerived, MP!Short, MP!LegacyPrefixes, MP!In64,
     MP!RexPrefixes, MP!State, MP!Most, MP!PfxAfter, MP!SegOvd, MP!Bits, MP!SegPrefixes,
     MP!Mode64, MP!HintAfter, MP!SegAfter
<1>2. MP!AfterVexScanner(q, s) = AfterVexScanner(q, s)
  BY Zenon DEF
     AfterVexScanner, ByteOf, Bits, MemoryModrm, Goes, Short, WithEnc, WithOpcodeOf, Vex, Says,
     ValidXopMap, VexMap, XopEnc, ValidVexMap, VexEnc, VexFields, BadVexEnc, In64, State, Most,
     With, MapInfo, Xop, InvalidMap, Mode64, Legacy, Info, Var, ImmVar, Yes, No, Amd3DNow, Evex,
     NoInfo, MP!AfterVexScanner, MP!ByteOf, MP!Bits, MP!MemoryModrm, MP!Goes, MP!Short,
     MP!WithEnc, MP!WithOpcodeOf, MP!Vex, MP!Says, MP!ValidXopMap, MP!VexMap, MP!XopEnc,
     MP!ValidVexMap, MP!VexEnc, MP!VexFields, MP!BadVexEnc, MP!In64, MP!State, MP!Most, MP!With,
     MP!MapInfo, MP!Xop, MP!InvalidMap, MP!Mode64, MP!Legacy, MP!Info, MP!Var, MP!ImmVar,
     MP!Yes, MP!No, MP!Amd3DNow, MP!Evex, MP!NoInfo
<1>3. MP!AfterEvexScanner(q, s) = AfterEvexScanner(q, s)
  BY Zenon DEF
     AfterEvexScanner, ByteOf, EvexMapOf, EvexMapped, InvalidMap, Legacy, Goes, HasAvx512,
     Short, MemoryModrm, Says, WithEnc, ValidEvexMap, With, EvexPfx, WithOpcodeOf, EvexEnc,
     ErrorOfPayload3, Bits, HasApx, Evex, State, Most, In64, MapInfo, Mode64, Info, Var, ImmVar,
     Yes, No, Amd3DNow, Vex, Xop, NoInfo, MP!AfterEvexScanner, MP!ByteOf, MP!EvexMapOf,
     MP!EvexMapped, MP!InvalidMap, MP!Legacy, MP!Goes, MP!HasAvx512, MP!Short, MP!MemoryModrm,
     MP!Says, MP!WithEnc, MP!ValidEvexMap, MP!With, MP!EvexPfx, MP!WithOpcodeOf, MP!EvexEnc,
     MP!ErrorOfPayload3, MP!Bits, MP!HasApx, MP!Evex, MP!State, MP!Most, MP!In64, MP!MapInfo,
     MP!Mode64, MP!Info, MP!Var, MP!ImmVar, MP!Yes, MP!No, MP!Amd3DNow, MP!Vex, MP!Xop,
     MP!NoInfo
<1>4. MP!AfterCatchInvalid(q, s) = AfterCatchInvalid(q, s)
  BY Zenon DEF
     AfterCatchInvalid, Says, Goes, In64, State, Most, Mode64, MP!AfterCatchInvalid, MP!Says,
     MP!Goes, MP!In64, MP!State, MP!Most, MP!Mode64
<1>5. MP!AfterRex2Scanner(q, s) = AfterRex2Scanner(q, s)
  BY Zenon DEF
     AfterRex2Scanner, Rex2Enc, ByteOf, HasApx, Goes, Short, WithEnc, Says, WithOpcodeOf, Bits,
     In64, State, Most, With, MapInfo, Mode64, Legacy, Info, Var, ImmVar, Yes, No, Amd3DNow,
     Vex, Evex, Xop, NoInfo, MP!AfterRex2Scanner, MP!Rex2Enc, MP!ByteOf, MP!HasApx, MP!Goes,
     MP!Short, MP!WithEnc, MP!Says, MP!WithOpcodeOf, MP!Bits, MP!In64, MP!State, MP!Most,
     MP!With, MP!MapInfo, MP!Mode64, MP!Legacy, MP!Info, MP!Var, MP!ImmVar, MP!Yes, MP!No,
     MP!Amd3DNow, MP!Vex, MP!Evex, MP!Xop, MP!NoInfo
<1>6. MP!AfterOpcodeScanner(q, s) = AfterOpcodeScanner(q, s)
  BY Zenon DEF
     AfterOpcodeScanner, EscapeMap, ByteOf, EscapedEnc, WithEnc, Goes, WithOpcodeOf, Short,
     Amd3DNow, As3DNow, MapInfo, Legacy, With, State, Most, Info, Var, ImmVar, Yes, No, Vex,
     Evex, Xop, NoInfo, MP!AfterOpcodeScanner, MP!EscapeMap, MP!ByteOf, MP!EscapedEnc,
     MP!WithEnc, MP!Goes, MP!WithOpcodeOf, MP!Short, MP!Amd3DNow, MP!As3DNow, MP!MapInfo,
     MP!Legacy, MP!With, MP!State, MP!Most, MP!Info, MP!Var, MP!ImmVar, MP!Yes, MP!No, MP!Vex,
     MP!Evex, MP!Xop, MP!NoInfo
<1>7. MP!AfterModrmScanner(q, s) = AfterModrmScanner(q, s)
  BY Zenon DEF
     AfterModrmScanner, ModrmOf, ByteOf, Bits, EaMode, ModrmIgnoreMod, With, HasModrmIs,
     ModrmFalse, Goes, Short, Says, ModrmRead, HasSib, DispIs, HasDispRegular, Yes, ModrmTrue,
     No, ModrmUd0, Mode32, Mode16, State, Most, MP!AfterModrmScanner, MP!ModrmOf, MP!ByteOf,
     MP!Bits, MP!EaMode, MP!ModrmIgnoreMod, MP!With, MP!HasModrmIs, MP!ModrmFalse, MP!Goes,
     MP!Short, MP!Says, MP!ModrmRead, MP!HasSib, MP!DispIs, MP!HasDispRegular, MP!Yes,
     MP!ModrmTrue, MP!No, MP!ModrmUd0, MP!Mode32, MP!Mode16, MP!State, MP!Most
<1>8. MP!AfterSibScanner(q, s) = AfterSibScanner(q, s)
  BY Zenon DEF
     AfterSibScanner, Goes, Short, With, DispIs, Bits, ByteOf, State, Most, MP!AfterSibScanner,
     MP!Goes, MP!Short, MP!With, MP!DispIs, MP!Bits, MP!ByteOf, MP!State, MP!Most
<1>9. MP!AfterDispScanner(q, s) = AfterDispScanner(q, s)
  BY Zenon DEF
     AfterDispScanner, DispOf, WithImd, Goes, DispIs, DispFound, Short, ContextOf, Var, Keep,
     With, State, Most, MP!AfterDispScanner, MP!DispOf, MP!WithImd, MP!Goes, MP!DispIs,
     MP!DispFound, MP!Short, MP!ContextOf, MP!Var, MP!Keep, MP!With, MP!State, MP!Most
<1>10. MP!AfterImmScanner(q, s) = AfterImmScanner(q, s)
  BY Zenon DEF
     AfterImmScanner, ImmOf, ImmIs, Evex, With, Goes, OpcodeBehind, ByteOf, WithImd, Short,
     ImmFound, BothImmFound, ImmVar, ContextOf, State, Most, MP!AfterImmScanner, MP!ImmOf,
     MP!ImmIs, MP!Evex, MP!With, MP!Goes, MP!OpcodeBehind, MP!ByteOf, MP!WithImd, MP!Short,
     MP!ImmFound, MP!BothImmFound, MP!ImmVar, MP!ContextOf, MP!State, MP!Most
<1>11. MP!AfterLateEvex(q, s) = AfterLateEvex(q, s)
  BY Zenon DEF
     AfterLateEvex, WithEnc, Goes, HasApx, With, State, Most, In64, Mode64, MP!AfterLateEvex,
     MP!WithEnc, MP!Goes, MP!HasApx, MP!With, MP!State, MP!Most, MP!In64, MP!Mode64
<1>. QED
  BY <1>1, <1>2, <1>3, <1>4, <1>5, <1>6, <1>7, <1>8, <1>9, <1>10, <1>11, Zenon DEF Step, MP!Step

LEMMA MoreLeads == ASSUME NEW q, NEW s, NEW t, MP!Leads(q, s, t) PROVE Leads(q, s, t)
<1>1. MP!ScanType = ScanType
  BY Zenon DEF
     ScanType, Pcs, Pos, Errors, PfxType, EncType, MrmType, ImdType, RexPrefixes, Bit,
     SegPrefixes, Spaces, MapIds, Byte256, InfoType, Widths, Legacy, Vex, Evex, Xop,
     MP!ScanType, MP!Pcs, MP!Pos, MP!Errors, MP!PfxType, MP!EncType, MP!MrmType, MP!ImdType,
     MP!RexPrefixes, MP!Bit, MP!SegPrefixes, MP!Spaces, MP!MapIds, MP!Byte256, MP!InfoType,
     MP!Widths, MP!Legacy, MP!Vex, MP!Evex, MP!Xop
<1>2. ASSUME NEW x, NEW y PROVE MP!Sane(q, x) <=> Sane(q, x)
  BY <1>1, Zenon DEF
     Sane, Before, Legacy, Early, Pcs, Pos, Errors, PfxType, EncType, MrmType, ImdType,
     RexPrefixes, Bit, SegPrefixes, Spaces, MapIds, Byte256, InfoType, Widths, Vex, Evex, Xop,
     MP!Sane, MP!Before, MP!Legacy, MP!Early, MP!Pcs, MP!Pos, MP!Errors, MP!PfxType, MP!EncType,
     MP!MrmType, MP!ImdType, MP!RexPrefixes, MP!Bit, MP!SegPrefixes, MP!Spaces, MP!MapIds,
     MP!Byte256, MP!InfoType, MP!Widths, MP!Vex, MP!Evex, MP!Xop
<1>3. ASSUME NEW x, NEW y PROVE MP!Moves(q, x, y) <=> Moves(q, x, y)
  BY <1>2, MoreStep, Zenon DEF Moves, MP!Moves
<1>4. ASSUME NEW C, Closed(q, C) PROVE MP!Closed(q, C)
  BY <1>1, <1>3, <1>4, Zenon DEF Closed, MP!Closed
<1>. QED  BY <1>1, <1>4, Zenon DEF Leads, MP!Leads

(* what is asked of the second decode, its scan, and its start *)
MoreAsked == [itext |-> more_itext, max_bytes |-> more_max_bytes, cfg |-> cfg]
MoreScan == State(more_pc, more_length, more_out_of_bytes, more_error, more_reads,
                  more_pfx, more_enc, more_mrm, more_imd)
MoreFresh == more_pc = "prefix" /\ more_length = 0
MoreStarted ==
    /\ more_itext \in Seq(Byte256) /\ more_max_bytes \in Pos /\ cfg \in Config
    /\ more_pc = "prefix" /\ more_length = 0 /\ more_reads = 0
    /\ more_out_of_bytes = FALSE /\ more_error = "NONE"
    /\ more_pfx = NoPfx /\ more_enc = NoEnc /\ more_mrm = NoMrm /\ more_imd = NoImd

LEMMA MoreStartedIs == MoreStarted <=> MP!Started
BY Zenon DEF MoreStarted,
     Started, Byte256, Pos, Config, NoPfx, NoEnc, NoMrm, NoImd, Modes, Bit, Legacy, NoInfo,
     Mode16, Mode32, Mode64, Info, No, MP!Started, MP!Byte256, MP!Pos, MP!Config, MP!NoPfx,
     MP!NoEnc, MP!NoMrm, MP!NoImd, MP!Modes, MP!Bit, MP!Legacy, MP!NoInfo, MP!Mode16, MP!Mode32,
     MP!Mode64, MP!Info, MP!No

LEMMA MoreFacts ==
    /\ MoreStarted => MP!ScanInv
    /\ MP!ScanInv /\ (More!Next \/ UNCHANGED <<more_vars, cfg>>) => MP!ScanInv'
    /\ MP!ScanInv /\ More!Next => ~MoreFresh' /\ UNCHANGED <<more_itext, more_max_bytes, cfg>>
    /\ MP!ScanInv => /\ MoreScan \in ScanType /\ Leads(MoreAsked, StartOfScan, MoreScan)
                     /\ more_max_bytes \in Nat
                     /\ more_pc = "done" /\ more_error = "NONE" => more_reads = more_length
<1>. USE DEF
       Byte256, Config, Spaces, MapIds, MapInfo, Var, ModrmCodes, Context, Widths, Keep, ImmVar,
       Bit, LesOpcodes, Legacy, ModrmFalse, ModrmUd0, Modes, Vex, Evex, Xop, Info, Yes, No,
       Amd3DNow, NoInfo, Mode16, Mode32, Mode64, MP!Byte256, MP!Config, MP!Spaces, MP!MapIds,
       MP!MapInfo, MP!Var, MP!ModrmCodes, MP!Context, MP!Widths, MP!Keep, MP!ImmVar, MP!Bit,
       MP!LesOpcodes, MP!Legacy, MP!ModrmFalse, MP!ModrmUd0, MP!Modes, MP!Vex, MP!Evex, MP!Xop,
       MP!Info, MP!Yes, MP!No, MP!Amd3DNow, MP!NoInfo, MP!Mode16, MP!Mode32, MP!Mode64
<1>1. /\ MP!Started => MP!ScanInv
      /\ MP!ScanInv /\ [MP!Next]_(MP!vars) => MP!ScanInv'
      /\ MP!ScanInv /\ MP!Next => ~(more_pc' = "prefix" /\ more_length' = 0) /\ UNCHANGED MP!inputs
      /\ MP!ScanInv => /\ MP!Scan \in MP!ScanType /\ MP!Leads(MP!Asked, MP!StartOfScan, MP!Scan)
                       /\ more_max_bytes \in Nat
                       /\ more_pc = "done" /\ more_error = "NONE" => more_reads = more_length
  BY MP!ScanFacts,
     MaxAssumption, InputAssumption, ConfigAssumption, ModrmAssumption, DispAssumption,
     ImmAssumption, Imm1Assumption, LesAssumption,
     Zenon DEF MaxAssumption, InputAssumption, ConfigAssumption, ModrmAssumption, DispAssumption,
     ImmAssumption, Imm1Assumption, LesAssumption
<1>2. MoreStarted => MP!Started
  BY MoreStartedIs
<1>3. UNCHANGED <<more_vars, cfg>> => UNCHANGED MP!vars
  BY DEF more_vars, MP!vars
<1>4. UNCHANGED MP!inputs => UNCHANGED <<more_itext, more_max_bytes, cfg>>
  BY DEF MP!inputs
<1>5. MP!Scan = MoreScan /\ MP!Asked = MoreAsked /\ MP!StartOfScan = StartOfScan /\ MP!ScanType = ScanType
  BY Zenon DEF MoreScan, MoreAsked,
     Scan, Asked, StartOfScan, ScanType, State, NoPfx, NoEnc, NoMrm, NoImd, Pcs, Pos, Errors,
     PfxType, EncType, MrmType, ImdType, Legacy, NoInfo, RexPrefixes, Bit, SegPrefixes, Spaces,
     MapIds, Byte256, InfoType, Widths, Info, No, Vex, Evex, Xop, MP!Scan, MP!Asked,
     MP!StartOfScan, MP!ScanType, MP!State, MP!NoPfx, MP!NoEnc, MP!NoMrm, MP!NoImd, MP!Pcs,
     MP!Pos, MP!Errors, MP!PfxType, MP!EncType, MP!MrmType, MP!ImdType, MP!Legacy, MP!NoInfo,
     MP!RexPrefixes, MP!Bit, MP!SegPrefixes, MP!Spaces, MP!MapIds, MP!Byte256, MP!InfoType,
     MP!Widths, MP!Info, MP!No, MP!Vex, MP!Evex, MP!Xop
<1>6. MP!Leads(MoreAsked, StartOfScan, MoreScan) => Leads(MoreAsked, StartOfScan, MoreScan)
  BY MoreLeads
<1>. QED  BY <1>1, <1>2, <1>3, <1>4, <1>5, <1>6, MoreNext, Zenon DEF MoreFresh

-----------------------------------------------------------------------------
(* Both decodes keep their invariants, and the second starts afresh.       *)
BothInv ==
    /\ ScanInv /\ MP!ScanInv
    /\ MoreFresh => MoreStarted
    /\ max_bytes <= more_max_bytes

LEMMA BothInvInit == InitBoth => BothInv
<1>. SUFFICES ASSUME InitBoth PROVE BothInv
  OBVIOUS
<1>1. Started /\ max_bytes \in Nat
  <2>1. Started
    BY InitStarted DEF InitBoth
  <2>. QED  BY <2>1, MaxAssumption DEF Started, Pos
<1>2. more_max_bytes \in Pos /\ max_bytes <= more_max_bytes
  BY <1>1, MaxAssumption DEF InitBoth, Pos
<1>3. MoreStarted
  BY <1>1, <1>2 DEF InitBoth, Started, MoreStarted
<1>. QED  BY <1>1, <1>2, <1>3, MoreFacts, ScanStarts DEF BothInv

LEMMA BothInvNext == BothInv /\ NextBoth => BothInv'
<1>. SUFFICES ASSUME BothInv, NextBoth PROVE BothInv'
  OBVIOUS
<1>1. CASE First
  <2>1. UNCHANGED inputs /\ UNCHANGED more_vars
    BY <1>1, InputsStay DEF First
  <2>2. MP!ScanInv'
    BY <2>1, MoreFacts DEF BothInv, inputs
  <2>3. ScanInv'
    BY <1>1, ScanStep DEF BothInv, First
  <2>4. MoreFresh' => MoreStarted'
    BY <2>1 DEF BothInv, MoreFresh, MoreStarted, more_vars, inputs, NoPfx, NoEnc, NoMrm, NoImd, Pos
  <2>. QED  BY <2>1, <2>2, <2>3, <2>4 DEF BothInv, inputs, more_vars
<1>2. CASE Second
  <2>1. More!Next /\ UNCHANGED vars
    BY <1>2 DEF Second
  <2>2. MP!ScanInv' /\ ~MoreFresh' /\ UNCHANGED <<more_itext, more_max_bytes, cfg>>
    BY <2>1, MoreFacts DEF BothInv
  <2>3. ScanInv'
    BY <2>1, ScanStep DEF BothInv
  <2>. QED  BY <2>1, <2>2, <2>3 DEF BothInv, vars
<1>. QED  BY <1>1, <1>2 DEF NextBoth

LEMMA BothInvStays == BothInv /\ UNCHANGED <<vars, more_vars>> => BothInv'
<1>. SUFFICES ASSUME BothInv, UNCHANGED <<vars, more_vars>> PROVE BothInv'
  OBVIOUS
<1>1. UNCHANGED <<more_vars, cfg>> /\ UNCHANGED vars
  BY DEF vars
<1>2. MP!ScanInv' /\ ScanInv'
  BY <1>1, MoreFacts, ScanStep DEF BothInv
<1>3. MoreFresh' => MoreStarted'
  BY <1>1 DEF BothInv, MoreFresh, MoreStarted, more_vars, NoPfx, NoEnc, NoMrm, NoImd, Pos
<1>. QED  BY <1>1, <1>2, <1>3 DEF BothInv, vars, more_vars

(* What the two scans are to each other when both have ended. *)
LEMMA BothScans ==
    ASSUME BothInv, BothDone
    PROVE  /\ Scan \in ScanType /\ Leads(Asked, StartOfScan, Scan) /\ Scan.pc = "done"
           /\ MoreScan \in ScanType /\ Leads(MoreAsked, StartOfScan, MoreScan) /\ MoreScan.pc = "done"
           /\ Offers(Asked, MoreAsked)
           /\ OutOf(Scan) <=> out_of_bytes
           /\ Scan.error = error /\ Asked.max_bytes = max_bytes
           /\ MoreScan.error = more_error /\ MoreScan.reads = more_reads
<1>1. /\ Scan \in ScanType /\ Leads(Asked, StartOfScan, Scan) /\ max_bytes \in Nat
  BY ScanFacts DEF BothInv
<1>2. MoreScan \in ScanType /\ Leads(MoreAsked, StartOfScan, MoreScan) /\ more_max_bytes \in Nat
  BY MoreFacts DEF BothInv
<1>3. Offers(Asked, MoreAsked)
  BY <1>1, <1>2 DEF BothInv, Offers, Asked, MoreAsked
<1>4. out_of_bytes \in BOOLEAN
  BY DEF BothInv, ScanInv, IldInv, TypeOK
<1>5. OutOf(Scan) <=> out_of_bytes
  BY <1>4, ScanResult DEF OutOf, Scan, State
<1>6. /\ MoreScan.pc = more_pc /\ MoreScan.error = more_error /\ MoreScan.reads = more_reads
  BY DEF MoreScan, State
<1>. QED  BY <1>1, <1>2, <1>3, <1>5, <1>6, ScanFields DEF BothDone, Done

(* One scan, one answer. *)
LEMMA SameScan ==
    ASSUME MoreScan = Scan
    PROVE  <<more_length, more_out_of_bytes, more_error, more_pfx, more_enc, more_mrm, more_imd>>
         = <<length, out_of_bytes, error, pfx, enc, mrm, imd>>
BY Zenon DEF MoreScan, Scan, State

(* The two properties of truncation, at a state. *)
LEMMA MoreBytesKeep == ASSUME BothInv PROVE MoreBytesKeepTheAnswer
<1>. SUFFICES ASSUME BothDone, ~out_of_bytes, more_itext = itext PROVE MoreScan = Scan
  BY SameScan, Zenon DEF MoreBytesKeepTheAnswer
<1>1. \A i : ByteOf(MoreAsked, i) = ByteOf(Asked, i)
  BY DEF ByteOf, MoreAsked, Asked
<1>2. \A s : StepAgrees(Asked, MoreAsked, s)
  BY <1>1 DEF StepAgrees
<1>. QED  BY <1>2, BothScans, SameDecode

LEMMA AsksNeeded == ASSUME BothInv, more_itext = itext PROVE AsksOnlyWhenNeeded
<1>. SUFFICES ASSUME BothDone, out_of_bytes, MoreSuccess PROVE more_length > max_bytes
  BY DEF AsksOnlyWhenNeeded
<1>1. OfOneText(Asked, MoreAsked)
  BY BothScans DEF OfOneText, Asked, MoreAsked
<1>2. Beyond(MoreScan, max_bytes)
  BY <1>1, BothScans, DecodeBeyond
<1>3. more_reads > max_bytes
  BY <1>2, BothScans DEF Beyond, MoreSuccess
<1>4. more_reads = more_length
  BY MoreFacts DEF BothInv, MoreSuccess
<1>. QED  BY <1>3, <1>4

-----------------------------------------------------------------------------
(* An answer that does not ask for more bytes is the answer that any       *)
(* larger number of bytes gives, in every operand (the comment on          *)
(* xed_decode in xed-decode.h has the client call again with more).        *)
THEOREM MoreBytesAreNotNeeded == SpecBoth => []MoreBytesKeepTheAnswer
<1>1. BothInv => MoreBytesKeepTheAnswer
  BY MoreBytesKeep
<1>. QED  BY <1>1, BothInvInit, BothInvNext, BothInvStays, PTL DEF SpecBoth

(* More bytes are asked for only when needed: an instruction that decodes  *)
(* with more of them is longer than what was offered.                      *)
THEOREM AsksForWhatIsMissing == SpecBoth => []AsksOnlyWhenNeeded
<1>. DEFINE Inv == BothInv /\ more_itext = itext
<1>1. InitBoth => Inv
  BY BothInvInit DEF InitBoth
<1>2. Inv /\ [NextBoth]_<<vars, more_vars>> => Inv'
  <2>. SUFFICES ASSUME Inv, [NextBoth]_<<vars, more_vars>> PROVE Inv'
    OBVIOUS
  <2>1. BothInv'
    BY BothInvNext, BothInvStays
  <2>2. CASE First
    BY <2>1, <2>2, InputsStay DEF First, inputs, more_vars
  <2>3. CASE Second
    BY <2>1, <2>3, MoreFacts DEF Second, BothInv, vars
  <2>4. CASE UNCHANGED <<vars, more_vars>>
    BY <2>1, <2>4 DEF vars, more_vars
  <2>. QED  BY <2>2, <2>3, <2>4 DEF NextBoth
<1>3. Inv => AsksOnlyWhenNeeded
  BY AsksNeeded
<1>. QED  BY <1>1, <1>2, <1>3, PTL DEF SpecBoth

-----------------------------------------------------------------------------
(* The patched text is a text of the same length. *)
LEMMA PatchedTextType ==
    ASSUME NEW text \in Seq(Byte256), NEW at, NEW value \in Byte256
    PROVE  PatchedText(text, at, value) \in Seq(Byte256) /\ Len(PatchedText(text, at, value)) = Len(text)
<1>1. DOMAIN text = 1..Len(text) /\ Len(text) \in Nat /\ \A i \in 1..Len(text) : text[i] \in Byte256
  OBVIOUS
<1>2. \A i \in 1..Len(text) :
         (IF i - 1 \in at.pos..(at.pos + at.width - 1) THEN value ELSE text[i]) \in Byte256
  BY <1>1
<1>. QED  BY <1>1, <1>2 DEF PatchedText

PatchBothInv == PatchInv /\ BothInv /\ Len(more_itext) = Len(itext)

LEMMA PatchBothInit == InitPatch => PatchBothInv
BY PatchInvInit, BothInvInit DEF InitPatch, InitBoth, PatchBothInv

LEMMA PatchBothNext == PatchBothInv /\ [NextPatch]_patch_vars => PatchBothInv'
<1>. SUFFICES ASSUME PatchBothInv, [NextPatch]_patch_vars PROVE PatchBothInv'
  OBVIOUS
<1>1. PatchInv'
  BY PatchInvNext DEF PatchBothInv
<1>2. CASE First
  BY <1>1, <1>2, BothInvNext, InputsStay DEF PatchBothInv, NextBoth, First, inputs, more_vars
<1>3. CASE Second
  BY <1>1, <1>3, BothInvNext, MoreFacts DEF PatchBothInv, NextBoth, Second, BothInv, vars
<1>4. CASE UNCHANGED patch_vars
  <2>1. BothInv'
    BY <1>4, BothInvStays DEF PatchBothInv, patch_vars
  <2>. QED  BY <1>1, <1>4, <2>1 DEF PatchBothInv, patch_vars, vars, more_vars
<1>5. ASSUME NEW field \in {"disp", "brdisp", "imm0"}, NEW width \in PatchWidths, NEW value \in PatchBytes,
             Patch(field, width, value)
      PROVE  PatchBothInv'
  <2>. DEFINE text == PatchedText(more_itext, Recorded(field), value)
  <2>1. /\ MoreFresh /\ UNCHANGED vars /\ more_max_bytes' = max_bytes
        /\ more_itext' \in {text, more_itext}
        /\ UNCHANGED <<more_pc, more_length, more_out_of_bytes, more_error, more_reads,
                       more_pfx, more_enc, more_mrm, more_imd>>
    BY <1>5 DEF Patch, MoreFresh
  <2>2. MoreStarted
    BY <2>1 DEF PatchBothInv, BothInv
  <2>3. text \in Seq(Byte256) /\ Len(text) = Len(more_itext)
    <3>1. more_itext \in Seq(Byte256) /\ value \in Byte256
      BY <2>2, PatchAssumption DEF MoreStarted
    <3>. QED  BY <3>1, PatchedTextType
  <2>4. ScanInv'
    BY <2>1, ScanStep DEF PatchBothInv, BothInv
  <2>5. MoreStarted'
    <3>1. max_bytes \in Pos
      BY DEF PatchBothInv, BothInv, ScanInv, IldInv, TypeOK
    <3>. QED  BY <2>1, <2>2, <2>3, <3>1 DEF MoreStarted, vars, Pos, NoPfx, NoEnc, NoMrm, NoImd
  <2>6. MP!ScanInv'
    <3>1. (MoreStarted => MP!ScanInv)'
      BY MoreFacts, PTL
    <3>. QED  BY <2>5, <3>1
  <2>7. max_bytes' <= more_max_bytes' /\ Len(more_itext') = Len(itext')
    <3>1. max_bytes \in Nat
      BY ScanFacts DEF PatchBothInv, BothInv
    <3>. QED  BY <2>1, <2>3, <3>1 DEF PatchBothInv, vars
  <2>. QED  BY <1>1, <2>4, <2>5, <2>6, <2>7 DEF PatchBothInv, BothInv
<1>. QED  BY <1>2, <1>3, <1>4, <1>5 DEF NextPatch, NextBoth

(* A field that has been patched, and the bytes that differ. *)
LEMMA PatchDiffers ==
    ASSUME PatchBothInv, patched # NoPatch
    PROVE  \/ \A i \in Nat : ByteOf(MoreAsked, i) = ByteOf(Asked, i)
           \/ \E p, w : /\ p # 0
                        /\ \/ p = imd.pos_disp /\ w = imd.disp_width
                           \/ p = imd.pos_imm /\ w = imd.imm_width
                        /\ \A i \in Nat : i \notin p..(p + w - 1) => ByteOf(MoreAsked, i) = ByteOf(Asked, i)
<1>1. /\ PatchExactly /\ IldInv /\ PositionsInv /\ Success /\ Len(more_itext) = Len(itext)
  BY DEF PatchBothInv, PatchInv
<1>2. Len(itext) \in Nat
  BY <1>1 DEF IldInv, TypeOK
<1>3. ASSUME NEW i \in Nat, ~(patched.result /\ i \in PatchSpan)
      PROVE  ByteOf(MoreAsked, i) = ByteOf(Asked, i)
  <2>1. CASE i < Len(itext)
    <3>1. more_itext[i + 1] = Byte(i)
      BY <1>1, <1>2, <1>3, <2>1 DEF PatchExactly
    <3>. QED  BY <1>1, <2>1, <3>1 DEF ByteOf, MoreAsked, Asked, Byte
  <2>2. CASE ~(i < Len(itext))
    BY <1>1, <2>2 DEF ByteOf, MoreAsked, Asked
  <2>. QED  BY <2>1, <2>2
<1>4. CASE PatchSpan = {} \/ ~patched.result
  BY <1>3, <1>4
<1>5. CASE PatchSpan # {}
  <2>1. PICK p, w : /\ PatchSpan = p..(p + w - 1)
                    /\ \/ p = imd.pos_disp /\ w = imd.disp_width
                       \/ p = imd.pos_imm /\ w = imd.imm_width /\ ~enc.amd3dnow
    BY <1>5 DEF PatchSpan, Span
  <2>2. p \in Nat /\ w \in Nat
    <3>1. imd.pos_disp \in Nat /\ imd.pos_imm \in Nat
      BY <1>1, MaxAssumption DEF IldInv, TypeOK, ImdType, Pos
    <3>. QED  BY <1>1, <2>1, <3>1, OpcodeEndNat
  <2>3. w # 0
    BY <1>5, <2>1, <2>2
  <2>4. p # 0
    BY <1>1, <2>1, <2>3 DEF PositionsInv, Success, Done
  <2>. QED  BY <1>3, <2>1, <2>4
<1>. QED  BY <1>4, <1>5

LEMMA PatchKeeps == ASSUME PatchBothInv PROVE PatchKeepsTheRest
<1>. SUFFICES ASSUME BothDone, patched # NoPatch PROVE MoreScan = Scan
  BY SameScan, Zenon DEF PatchKeepsTheRest
<1>1. BothInv /\ Success /\ OutOfBytesInv
  BY DEF PatchBothInv, PatchInv, BothInv, ScanInv
<1>2. Scan.error = "NONE" /\ ~OutOf(Scan) /\ Scan.imd = imd
  BY <1>1, BothScans, ScanFields DEF Success, OutOfBytesInv, ShortError
<1>3. ASSUME NEW s, Meets(Asked, s, Scan), s # Scan PROVE StepAgrees(Asked, MoreAsked, s)
  <2>1. CASE \A i \in Nat : ByteOf(MoreAsked, i) = ByteOf(Asked, i)
    <3>1. s.length \in Nat
      BY <1>3, ScanNumbers DEF Meets
    <3>. QED  BY <2>1, <3>1 DEF StepAgrees
  <2>2. CASE ~(\A i \in Nat : ByteOf(MoreAsked, i) = ByteOf(Asked, i))
    <3>1. PICK p, w : /\ p # 0
                      /\ \/ p = imd.pos_disp /\ w = imd.disp_width
                         \/ p = imd.pos_imm /\ w = imd.imm_width
                      /\ \A i \in Nat : i \notin p..(p + w - 1) => ByteOf(MoreAsked, i) = ByteOf(Asked, i)
      BY <2>2, PatchDiffers
    <3>. QED  BY <1>1, <1>2, <1>3, <3>1, BothScans, FieldDecidesNothing
  <2>. QED  BY <2>1, <2>2
<1>. QED  BY <1>1, <1>2, <1>3, BothScans, SameDecode

(* A patched instruction is the same instruction: decoded again it has the *)
(* same length, prefixes, opcode, ModRM and SIB, and its displacement and  *)
(* immediates are where they were, for every value patched in.             *)
THEOREM PatchedIsTheSameInstruction == SpecPatch => []PatchKeepsTheRest
<1>1. PatchBothInv => PatchKeepsTheRest
  BY PatchKeeps
<1>. QED  BY <1>1, PatchBothInit, PatchBothNext, PTL DEF SpecPatch

(* The two properties of truncation, with patches between the decodes. *)
THEOREM TruncationWithPatches == SpecPatch => [](MoreBytesKeepTheAnswer /\ AsksOnlyWhenNeeded)
<1>1. PatchBothInv => MoreBytesKeepTheAnswer
  BY MoreBytesKeep DEF PatchBothInv
<1>2. PatchBothInv => AsksOnlyWhenNeeded
  <2>. SUFFICES ASSUME PatchBothInv PROVE AsksOnlyWhenNeeded
    OBVIOUS
  <2>1. CASE patched = NoPatch
    BY <2>1, AsksNeeded DEF PatchBothInv, PatchInv
  <2>2. CASE patched # NoPatch
    <3>1. ~out_of_bytes
      BY <2>2 DEF PatchBothInv, PatchInv, BothInv, ScanInv, OutOfBytesInv, Success, ShortError
    <3>. QED  BY <3>1 DEF AsksOnlyWhenNeeded
  <2>. QED  BY <2>1, <2>2
<1>. QED  BY <1>1, <1>2, PatchBothInit, PatchBothNext, PTL DEF SpecPatch
=============================================================================
