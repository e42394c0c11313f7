--------------------------- MODULE XedMemopProofs ---------------------------
(***************************************************************************)
(* The direct encoder, the decoder of what it wrote and xed_agen, for any  *)
(* forms, calls and callbacks.                                             *)
(*   EncoderInv   the request stays within its bits: at most twelve bytes  *)
(*                are written to a buffer whose size is never told         *)
(*   AgenInv      no address is stored after a failure                     *)
(*   EmitInv      the bytes emitted are the parts of the request in order  *)
(*   DecodeInv    each scanner finds what the encoder wrote (ReadSoFar)    *)
(*   CaptureInv   the operand captured is that of the call: what was       *)
(*                asked for comes back                                     *)
(*   ComputedInv  xed_agen has fetched the registers of that operand: the  *)
(*                address it computes is the one meant                     *)
(***************************************************************************)
EXTENDS XedMemopProps, XedIldProofs

ReqType == [mod : 0..2, reg : 0..7, rm : 0..7, rexr : 0..1, rexx : 0..1, rexb : 0..1,
            rexr4 : 0..1, rexx4 : 0..1, rexb4 : 0..1, evexvv : 0..1,
            has_sib : BOOLEAN, sibbase : 0..7, sibindex : 0..7, sibscale : 0..3,
            has_disp : SUBSET Int, use_displacement : Int]

(* a segment prefix, four bytes of prefix, opcode, ModRM and SIB, and four *)
(* bytes of displacement                                                   *)
SoFar ==
    /\ stage = "client" => emitted = <<>>
    /\ stage \in {"operand", "prefix", "aborted"} => Len(emitted) <= 1
    /\ stage = "opcode" => Len(emitted) <= 5
    /\ stage = "disp" => Len(emitted) <= 8

Twelve == emitted \in Seq(Byte256) /\ Len(emitted) <= 12

EncoderInv ==
    /\ call \in Calls
    /\ req \in ReqType
    /\ stage \in {"client", "operand", "prefix", "opcode", "disp", "emitted", "aborted"}
    /\ SoFar
    /\ Twelve

-----------------------------------------------------------------------------
LEMMA BitsOf ==
    ASSUME NEW n \in Nat
    PROVE  n % 8 \in 0..7 /\ Bit3(n) \in 0..1 /\ Bit4(n) \in 0..1
  BY DEF Bit3, Bit4

LEMMA Quotient == ASSUME NEW a \in Int, NEW b \in 1..64  PROVE a \div b \in Int
  OBVIOUS

LEMMA FormFields ==
    ASSUME NEW f \in Forms
    PROVE  /\ f.space \in {Legacy, Vex, Evex} /\ f.map \in 0..7 /\ f.opcode \in 0..255
           /\ f.rex2 \in BOOLEAN /\ f.vsib \in BOOLEAN /\ f.width \in 1..64
           /\ f.space = Legacy => f.map <= 3
  BY Enc2Assumption DEF FormType, Byte256

LEMMA CallFields ==
    ASSUME NEW c \in Calls
    PROVE  /\ c.mode \in Modes /\ c.form \in Forms
           /\ c.base \in 0..33 /\ c.index \in 0..32
           /\ c.dispsz \in {0, 8, 16, 32} /\ c.disp \in Int /\ c.reg \in 0..31
           /\ c.seg \in 40..45 \cup {NoReg}
  BY Enc2Assumption DEF CallType, Gprs, NoReg, Rip, SegRegs

LEMMA BytesOf ==
    ASSUME NEW v \in Int, NEW n \in {1, 2, 4}
    PROVE  LittleEndian(v, n) \in Seq(Byte256) /\ Len(LittleEndian(v, n)) = n
  <1>1. \A i \in 1..n : (v \div <<1, 256, 65536, 16777216>>[i]) % 256 \in 0..255
    <2>1. \A w \in {1, 256, 65536, 16777216} : (v \div w) % 256 \in 0..255
      OBVIOUS
    <2>2. \A i \in 1..n : <<1, 256, 65536, 16777216>>[i] \in {1, 256, 65536, 16777216}
      OBVIOUS
    <2> QED
      BY <2>1, <2>2
  <1> QED
    BY <1>1 DEF LittleEndian, Byte256

-----------------------------------------------------------------------------
(* Each setter of the operand keeps the fields of a request in range.      *)
LEMMA SetFields ==
    ASSUME NEW r \in ReqType
    PROVE  /\ \A v \in 0..2 : [r EXCEPT !.mod = v] \in ReqType
           /\ \A v \in 0..7 : [r EXCEPT !.rm = v] \in ReqType
           /\ \A v \in 0..7 : [r EXCEPT !.sibbase = v] \in ReqType
           /\ [r EXCEPT !.has_sib = TRUE] \in ReqType
           /\ \A d \in SUBSET Int : [r EXCEPT !.has_disp = d] \in ReqType
           /\ \A v \in Int : [r EXCEPT !.use_displacement = v] \in ReqType
  <1>1. \A v \in 0..2 : [r EXCEPT !.mod = v] \in ReqType
    BY DEF ReqType
  <1>2. \A v \in 0..7 : [r EXCEPT !.rm = v] \in ReqType
    BY DEF ReqType
  <1>3. \A v \in 0..7 : [r EXCEPT !.sibbase = v] \in ReqType
    BY DEF ReqType
  <1>4. [r EXCEPT !.has_sib = TRUE] \in ReqType
    BY DEF ReqType
  <1>5. \A d \in SUBSET Int : [r EXCEPT !.has_disp = d] \in ReqType
    BY DEF ReqType
  <1>6. \A v \in Int : [r EXCEPT !.use_displacement = v] \in ReqType
    BY DEF ReqType
  <1> QED
    BY <1>1, <1>2, <1>3, <1>4, <1>5, <1>6

(* the mod and a displacement more *)
LEMMA SetModDisp ==
    ASSUME NEW r \in ReqType, NEW v \in 0..2, NEW d \in SUBSET Int
    PROVE  [r EXCEPT !.mod = v, !.has_disp = @ \cup d] \in ReqType
  <1>1. r.has_disp \cup d \in SUBSET Int
    BY DEF ReqType
  <1>2. [r EXCEPT !.mod = v, !.has_disp = @ \cup d]
        = [[r EXCEPT !.mod = v] EXCEPT !.has_disp = r.has_disp \cup d]
    BY DEF ReqType
  <1> HIDE DEF ReqType
  <1> QED
    BY <1>1, <1>2, SetFields

LEMMA RegisterKeeps ==
    ASSUME NEW c \in Calls, NEW r \in ReqType
    PROVE  WithRegister(c, r) \in ReqType
  <1>1. c.reg % 8 \in 0..7 /\ Bit3(c.reg) \in 0..1 /\ Bit4(c.reg) \in 0..1
    BY CallFields, BitsOf
  <1> QED
    BY <1>1 DEF WithRegister, ReqType

LEMMA ScaledDispKeeps ==
    ASSUME NEW c \in Calls, NEW r \in ReqType
    PROVE  ChooseScaledDisp(c, r) \in ReqType
  <1>1. c.disp \in Int /\ c.dispsz \in Int /\ c.disp \div c.form.width \in Int
    BY CallFields, FormFields, Quotient
  <1>2. ASSUME NEW v \in 1..2, NEW d \in Int, NEW u \in Int
        PROVE  [r EXCEPT !.mod = v, !.has_disp = @ \cup {d}, !.use_displacement = u] \in ReqType
    <2>1. [r EXCEPT !.mod = v, !.has_disp = @ \cup {d}, !.use_displacement = u]
          = [[r EXCEPT !.mod = v, !.has_disp = @ \cup {d}] EXCEPT !.use_displacement = u]
      BY DEF ReqType
    <2>2. [r EXCEPT !.mod = v, !.has_disp = @ \cup {d}] \in ReqType
      <3>1. v \in 0..2 /\ {d} \in SUBSET Int
        OBVIOUS
      <3> QED
        BY <3>1, SetModDisp
    <2> QED
      BY <2>1, <2>2, SetFields
  <1>3. 1 \in 1..2 /\ 2 \in 1..2 /\ 8 \in Int
    OBVIOUS
  <1>4. [r EXCEPT !.mod = 1, !.has_disp = @ \cup {8},
                  !.use_displacement = c.disp \div c.form.width] \in ReqType
    BY <1>1, <1>2, <1>3, Zenon
  <1>5. [r EXCEPT !.mod = 2, !.has_disp = @ \cup {c.dispsz},
        !.use_displacement = c.disp] \in ReqType
    BY <1>1, <1>2, <1>3, Zenon
  <1> QED
    BY <1>4, <1>5 DEF ChooseScaledDisp

LEMMA BaseKeeps ==
    ASSUME NEW c \in Calls, NEW r \in ReqType
    PROVE  WithBase(c, r) \in ReqType
  <1>1. c.base % 8 \in 0..7 /\ Bit3(c.base) \in 0..1 /\ Bit4(c.base) \in 0..1
    BY CallFields, BitsOf
  <1> DEFINE field == IF c.base = NoReg THEN 5 ELSE c.base % 8
             b == [r EXCEPT !.rexb = Bit3(c.base), !.rexb4 = Bit4(c.base)]
  <1>2. field \in 0..7
    BY <1>1
  <1>3. b \in ReqType
    BY <1>1 DEF ReqType
  <1>4. WithBase(c, r) = IF NeedsSib(c)
                         THEN [b EXCEPT !.has_sib = TRUE, !.rm = 4, !.sibbase = field]
                         ELSE [b EXCEPT !.rm = field]
    BY Zenon DEF WithBase
  <1> HIDE DEF field, b
  <1>5. [b EXCEPT !.has_sib = TRUE, !.rm = 4, !.sibbase = field] \in ReqType
    <2>1. [b EXCEPT !.has_sib = TRUE, !.rm = 4, !.sibbase = field]
          = [[[b EXCEPT !.has_sib = TRUE] EXCEPT !.rm = 4] EXCEPT !.sibbase = field]
      BY <1>3 DEF ReqType
    <2>2. [b EXCEPT !.has_sib = TRUE] \in ReqType
      BY <1>3, SetFields
    <2>3. [[b EXCEPT !.has_sib = TRUE] EXCEPT !.rm = 4] \in ReqType
      <3>1. 4 \in 0..7
        OBVIOUS
      <3> QED
        BY <2>2, <3>1, SetFields, Zenon
    <2> QED
      BY <1>2, <2>1, <2>3, SetFields
  <1>6. [b EXCEPT !.rm = field] \in ReqType
    BY <1>2, <1>3, SetFields
  <1> QED
    BY <1>4, <1>5, <1>6

LEMMA IndexKeeps ==
    ASSUME NEW c \in Calls, NEW r \in ReqType
    PROVE  WithIndex(c, r) \in ReqType
  <1>1. c.index % 8 \in 0..7 /\ Bit3(c.index) \in 0..1 /\ Bit4(c.index) \in 0..1
    BY CallFields, BitsOf
  <1> DEFINE scale == CASE c.scale = 1 -> 0 [] c.scale = 2 -> 1
                        [] c.scale = 4 -> 2 [] OTHER -> 3
             i == [r EXCEPT !.sibindex = c.index % 8, !.rexx = Bit3(c.index), !.sibscale = scale]
  <1>2. scale \in 0..3
    OBVIOUS
  <1>3. WithIndex(c, r) = IF c.index = NoReg THEN [r EXCEPT !.sibindex = IF r.has_sib THEN 4 ELSE 0]
                          ELSE IF c.form.vsib THEN [i EXCEPT !.evexvv = Bit4(c.index)]
                          ELSE [i EXCEPT !.rexx4 = Bit4(c.index)]
    BY Zenon DEF WithIndex
  <1> HIDE DEF scale
  <1>4. i \in ReqType
    BY <1>1, <1>2 DEF ReqType
  <1> HIDE DEF i
  <1>5. [r EXCEPT !.sibindex = IF r.has_sib THEN 4 ELSE 0] \in ReqType
    BY DEF ReqType
  <1>6. [i EXCEPT !.evexvv = Bit4(c.index)] \in ReqType
    BY <1>1, <1>4 DEF ReqType
  <1>7. [i EXCEPT !.rexx4 = Bit4(c.index)] \in ReqType
    BY <1>1, <1>4 DEF ReqType
  <1> QED
    BY <1>3, <1>5, <1>6, <1>7

LEMMA DispFlagsKeep ==
    ASSUME NEW c \in Calls, NEW r \in ReqType
    PROVE  WithDispFlags(c, r) \in ReqType
  <1> DEFINE v == IF NeedsZeroDisp(c) THEN 1 ELSE r.mod
             d == (IF NeedsZeroDisp(c) THEN {8} ELSE {})
                  \cup (IF c.form.vsib /\ c.dispsz # 0 THEN {c.dispsz} ELSE {})
  <1>1. v \in 0..2
    BY DEF ReqType
  <1>2. d \in SUBSET Int
    BY CallFields
  <1>3. WithDispFlags(c, r) = [r EXCEPT !.mod = v, !.has_disp = @ \cup d]
    <2>1. [r EXCEPT !.mod = v, !.has_disp = @ \cup d]
          = [[r EXCEPT !.mod = v] EXCEPT !.has_disp = r.has_disp \cup d]
      BY DEF ReqType
    <2>2. WithDispFlags(c, r) = [[r EXCEPT !.mod = v] EXCEPT !.has_disp = r.has_disp \cup d]
      BY DEF WithDispFlags, ReqType
    <2> QED
      BY <2>1, <2>2
  <1> HIDE DEF v, d
  <1> QED
    BY <1>1, <1>2, <1>3, SetModDisp, ZenonT(30)

LEMMA Rm16Range == \A b, i, d : Rm16(b, i, d) \in 0..8
  BY DEF Rm16, NoRm

LEMMA OperandKeeps ==
    ASSUME NEW c \in Calls, NEW r \in ReqType, ~OperandError(c)
    PROVE  MemoryOperand(c, r) \in ReqType
  <1> DEFINE m == [r EXCEPT !.mod = ModVal(c.dispsz)]
  <1>1. MemoryOperand(c, r) =
            IF c.mode = Mode16 THEN [m EXCEPT !.rm = Rm16(c.base, c.index, c.dispsz)]
            ELSE IF c.base = Rip
            THEN [m EXCEPT !.mod = 0, !.rm = 5,
                           !.has_disp = @ \cup (IF c.dispsz = 0 THEN {32} ELSE {})]
            ELSE WithDispFlags(c, WithIndex(c, WithBase(c, m)))
    BY Zenon DEF MemoryOperand
  <1>2. ModVal(c.dispsz) \in 0..2
    BY DEF ModVal
  <1>3. m \in ReqType
    BY <1>2 DEF ReqType
  <1> HIDE DEF m
  <1>4. ASSUME c.mode = Mode16  PROVE [m EXCEPT !.rm = Rm16(c.base, c.index, c.dispsz)] \in ReqType
    <2>1. Rm16(c.base, c.index, c.dispsz) # 8
      BY <1>4 DEF OperandError, NoRm
    <2>2. Rm16(c.base, c.index, c.dispsz) \in 0..7
      BY <2>1, Rm16Range
    <2> QED
      BY <1>3, <2>2 DEF ReqType
  <1>5. [m EXCEPT !.mod = 0, !.rm = 5,
                  !.has_disp = @ \cup (IF c.dispsz = 0 THEN {32} ELSE {})] \in ReqType
    <2> DEFINE d == IF c.dispsz = 0 THEN {32} ELSE {}
    <2>1. d \in SUBSET Int /\ m.has_disp \cup d \in SUBSET Int
      BY <1>3 DEF ReqType
    <2> HIDE DEF d
    <2>2. [m EXCEPT !.mod = 0, !.rm = 5, !.has_disp = @ \cup d]
          = [[[m EXCEPT !.mod = 0] EXCEPT !.rm = 5] EXCEPT !.has_disp = m.has_disp \cup d]
      BY <1>3 DEF ReqType
    <2>3. [[m EXCEPT !.mod = 0] EXCEPT !.rm = 5] \in ReqType
      <3>1. 0 \in 0..2 /\ 5 \in 0..7
        OBVIOUS
      <3>2. [m EXCEPT !.mod = 0] \in ReqType
        BY <1>3, <3>1, SetFields, Zenon
      <3> QED
        BY <3>1, <3>2, SetFields, Zenon
    <2>4. [m EXCEPT !.mod = 0, !.rm = 5, !.has_disp = @ \cup d] \in ReqType
      BY <2>1, <2>2, <2>3, SetFields
    <2> QED
      BY <2>4 DEF d
  <1>6. WithDispFlags(c, WithIndex(c, WithBase(c, m))) \in ReqType
    BY <1>3, BaseKeeps, IndexKeeps, DispFlagsKeep
  <1> QED
    BY <1>1, <1>4, <1>5, <1>6

-----------------------------------------------------------------------------
(* What each stage writes.                                                 *)
Bytes(s, n) == s \in Seq(Byte256) /\ Len(s) <= n

LEMMA Cat ==
    ASSUME NEW s, NEW t, NEW m \in Nat, NEW n \in Nat, Bytes(s, m), Bytes(t, n)
    PROVE  Bytes(s \o t, m + n)
  BY DEF Bytes

LEMMA OneByte == ASSUME NEW a \in 0..255  PROVE Bytes(<<a>>, 1)
  BY DEF Bytes, Byte256

LEMMA TwoBytes == ASSUME NEW a \in 0..255, NEW b \in 0..255  PROVE Bytes(<<a, b>>, 2)
  BY DEF Bytes, Byte256

LEMMA ThreeBytes ==
    ASSUME NEW a \in 0..255, NEW b \in 0..255, NEW d \in 0..255
    PROVE  Bytes(<<a, b, d>>, 3)
  BY DEF Bytes, Byte256

LEMMA FourBytes ==
    ASSUME NEW a \in 0..255, NEW b \in 0..255, NEW d \in 0..255, NEW e \in 0..255
    PROVE  Bytes(<<a, b, d, e>>, 4)
  BY DEF Bytes, Byte256

LEMMA NoBytes == \A n \in Nat : Bytes(<<>>, n)
  BY DEF Bytes

LEMMA Fewer == ASSUME NEW s, NEW m \in Nat, NEW n \in Nat, m <= n, Bytes(s, m)  PROVE Bytes(s, n)
  BY DEF Bytes

LEMMA RegisterBitsRange ==
    ASSUME req \in ReqType
    PROVE  Rxb \in 0..7 /\ Rxb4 \in 0..7
  <1>1. /\ req.rexr \in 0..1 /\ req.rexx \in 0..1 /\ req.rexb \in 0..1
        /\ req.rexr4 \in 0..1 /\ req.rexx4 \in 0..1 /\ req.rexb4 \in 0..1
    BY DEF ReqType
  <1> QED
    BY <1>1 DEF Rxb, Rxb4

LEMMA LegacyWrites ==
    ASSUME req \in ReqType, call \in Calls, call.form.space = Legacy
    PROVE  Bytes(LegacyPrefix, 4)
  <1> DEFINE wide == call.form.rex2 /\ Rxb4 # 0
             prefix == IF wide /\ call.form.map <= 1 THEN Rex2Prefix
                       ELSE IF Rxb # 0 THEN Rex ELSE <<>>
             escape == CASE call.form.map = 0 -> <<>>
                         [] call.form.map = 1 -> IF wide THEN <<>> ELSE <<\h0F>>
                         [] call.form.map = 2 -> <<\h0F, \h38>>
                         [] call.form.map = 3 -> <<\h0F, \h3A>>
  <1>1. call.form.map \in 0..3
    BY CallFields, FormFields
  <1>2. Rxb \in 0..7 /\ Rxb4 \in 0..7
    BY RegisterBitsRange
  <1>3. Bytes(Rex, 2)
    <2>1. \h40 + Rxb \in 0..255
      BY <1>2
    <2>2. Bytes(Rex, 1)
      BY <2>1, OneByte, Zenon DEF Rex
    <2> QED
      BY <2>2, Fewer
  <1>4. call.form.map <= 1 => Bytes(Rex2Prefix, 2)
    <2>1. call.form.map <= 1 => \hD5 \in 0..255 /\ 128 * call.form.map + 16 * Rxb4 + Rxb \in 0..255
      BY <1>1, <1>2
    <2> QED
      BY <2>1, TwoBytes, Zenon DEF Rex2Prefix
  <1>5. Bytes(<<>>, 2)
    BY NoBytes
  <1>6. Bytes(prefix, 2)
    BY <1>3, <1>4, <1>5
  <1>7. Bytes(escape, 2)
    <2>1. Bytes(<<\h0F>>, 2) /\ Bytes(<<\h0F, \h38>>, 2) /\ Bytes(<<\h0F, \h3A>>, 2)
      BY DEF Bytes, Byte256
    <2>2. CASE call.form.map = 0
      BY <2>2, <1>5
    <2>3. CASE call.form.map = 1
      BY <2>3, <1>5, <2>1
    <2>4. CASE call.form.map = 2
      BY <2>4, <2>1
    <2>5. CASE call.form.map = 3
      BY <2>5, <2>1
    <2> QED
      BY <1>1, <2>2, <2>3, <2>4, <2>5
  <1>8. LegacyPrefix = (IF call.mode = Mode64 THEN prefix ELSE <<>>) \o escape
    BY Zenon DEF LegacyPrefix
  <1> HIDE DEF prefix, escape
  <1>9. Bytes(IF call.mode = Mode64 THEN prefix ELSE <<>>, 2)
    BY <1>5, <1>6
  <1> QED
    BY <1>7, <1>8, <1>9, Cat

LEMMA VexWrites ==
    ASSUME req \in ReqType, call \in Calls
    PROVE  Bytes(VexPrefix, 4)
  <1>1. Rxb \in 0..7 /\ req.rexr \in 0..1 /\ call.form.map \in 0..7
    BY RegisterBitsRange, CallFields, FormFields DEF ReqType
  <1>2. /\ \hC5 \in 0..255 /\ \hC4 \in 0..255 /\ \h78 \in 0..255
        /\ 128 * (1 - req.rexr) + \h78 \in 0..255 /\ 32 * (7 - Rxb) + call.form.map \in 0..255
    BY <1>1
  <1>3. Bytes(<<\hC5, 128 * (1 - req.rexr) + \h78>>, 2)
    BY <1>2, TwoBytes, Zenon
  <1>4. Bytes(<<\hC4, 32 * (7 - Rxb) + call.form.map, \h78>>, 3)
    BY <1>2, ThreeBytes, Zenon
  <1> QED
    BY <1>3, <1>4, Fewer DEF VexPrefix

LEMMA EvexWrites ==
    ASSUME req \in ReqType, call \in Calls
    PROVE  Bytes(EvexPrefix, 4)
  <1>1. /\ Rxb \in 0..7 /\ req.rexr4 \in 0..1 /\ req.rexb4 \in 0..1 /\ req.rexx4 \in 0..1
        /\ req.evexvv \in 0..1 /\ call.form.map \in 0..7
    BY RegisterBitsRange, CallFields, FormFields DEF ReqType
  <1>2. 32 * (7 - Rxb) + 16 * (1 - req.rexr4) + 8 * req.rexb4 + call.form.map \in 0..255
    BY <1>1
  <1>3. \h62 \in 0..255 /\ \h78 + 4 * (1 - req.rexx4) \in 0..255 /\ 8 * (1 - req.evexvv) \in 0..255
    BY <1>1
  <1> QED
    BY <1>2, <1>3, FourBytes, Zenon DEF EvexPrefix

LEMMA DisplacementWrites ==
    ASSUME req \in ReqType, call \in Calls
    PROVE  Bytes(Displacement, 4)
  <1>1. call.disp \in Int /\ call.dispsz \in {0, 8, 16, 32} /\ req.use_displacement \in Int
    BY CallFields DEF ReqType
  <1>2. \A v \in Int, n \in {1, 2, 4} : Bytes(LittleEndian(v, n), 4)
    <2> SUFFICES ASSUME NEW v \in Int, NEW n \in {1, 2, 4}
                 PROVE  Bytes(LittleEndian(v, n), 4)
      OBVIOUS
    <2>1. LittleEndian(v, n) \in Seq(Byte256) /\ Len(LittleEndian(v, n)) = n
      BY BytesOf
    <2> QED
      BY <2>1 DEF Bytes
  <1>3. Bytes(<<>>, 4) /\ Bytes(<<0>>, 4) /\ Bytes(<<0, 0, 0, 0>>, 4)
    BY DEF Bytes, Byte256
  <1>4. CASE call.dispsz = 0
    BY <1>3, <1>4 DEF Displacement
  <1>5. CASE call.dispsz # 0
    <2>1. call.dispsz \div 8 \in {1, 2, 4}
      BY <1>1, <1>5
    <2> QED
      BY <1>1, <1>2, <1>5, <2>1 DEF Displacement
  <1> QED
    BY <1>4, <1>5

-----------------------------------------------------------------------------
LEMMA CheckKeepsInv == ASSUME EncoderInv, CheckArguments PROVE EncoderInv'
  <1>1. call' = call /\ req' = req /\ stage' \in {"operand", "aborted"}
    BY DEF CheckArguments
  <1>2. Bytes(emitted', 1)
    <2>1. call.seg # NoReg => call.seg \in 40..45
      BY CallFields DEF EncoderInv
    <2>2. call.seg # NoReg => SegPrefix(call.seg) \in 0..255
      BY <2>1 DEF SegPrefix
    <2>3. call.seg # NoReg => Bytes(<<SegPrefix(call.seg)>>, 1)
      BY <2>2, OneByte
    <2> QED
      BY <2>3, NoBytes DEF CheckArguments
  <1> QED
    BY <1>1, <1>2 DEF EncoderInv, SoFar, Twelve, Bytes

LEMMA SetKeepsInv == ASSUME EncoderInv, SetOperands PROVE EncoderInv'
  <1>1. call' = call /\ emitted' = emitted /\ stage = "operand" /\ stage' \in {"prefix", "aborted"}
    BY DEF SetOperands
  <1>2. req' \in ReqType
    <2>1. CASE OperandError(call)
      BY <2>1 DEF SetOperands, EncoderInv
    <2>2. CASE ~OperandError(call)
      <3>1. req' = MemoryOperand(call, ChooseScaledDisp(call, WithRegister(call, req)))
        BY <2>2 DEF SetOperands
      <3>2. call \in Calls /\ req \in ReqType
        BY DEF EncoderInv
      <3> QED
        BY <2>2, <3>1, <3>2, RegisterKeeps, ScaledDispKeeps, OperandKeeps
    <2> QED
      BY <2>1, <2>2
  <1> QED
    BY <1>1, <1>2 DEF EncoderInv, SoFar, Twelve

LEMMA PrefixKeepsInv == ASSUME EncoderInv, EmitPrefix PROVE EncoderInv'
  <1>1. call' = call /\ req' = req /\ stage = "prefix" /\ stage' = "opcode"
    BY DEF EmitPrefix
  <1>2. call \in Calls /\ req \in ReqType /\ Bytes(emitted, 1)
    BY <1>1 DEF EncoderInv, SoFar, Twelve, Bytes
  <1>3. Bytes(emitted', 5)
    <2>1. call.form.space \in {Legacy, Vex, Evex}
      BY <1>2, CallFields, FormFields
    <2>2. CASE call.form.space = Legacy
      <3>1. emitted' = emitted \o LegacyPrefix
        BY <2>2 DEF EmitPrefix, Legacy, Vex, Evex
      <3> QED
        BY <1>2, <2>2, <3>1, LegacyWrites, Cat
    <2>3. CASE call.form.space = Vex
      <3>1. emitted' = emitted \o VexPrefix
        BY <2>3 DEF EmitPrefix, Legacy, Vex, Evex
      <3> QED
        BY <1>2, <3>1, VexWrites, Cat
    <2>4. CASE call.form.space = Evex
      <3>1. emitted' = emitted \o EvexPrefix
        BY <2>4 DEF EmitPrefix, Legacy, Vex, Evex
      <3> QED
        BY <1>2, <3>1, EvexWrites, Cat
    <2> QED
      BY <2>1, <2>2, <2>3, <2>4
  <1> QED
    BY <1>1, <1>3 DEF EncoderInv, SoFar, Twelve, Bytes

LEMMA OpcodeKeepsInv == ASSUME EncoderInv, EmitOpcode PROVE EncoderInv'
  <1>1. call' = call /\ req' = req /\ stage = "opcode" /\ stage' = "disp"
    BY DEF EmitOpcode
  <1>2. call \in Calls /\ req \in ReqType /\ Bytes(emitted, 5)
    BY <1>1 DEF EncoderInv, SoFar, Twelve, Bytes
  <1> DEFINE modrm == 64 * req.mod + 8 * req.reg + req.rm
             sib == 64 * req.sibscale + 8 * req.sibindex + req.sibbase
  <1>3. modrm \in 0..255
    <2>1. req.mod \in 0..2 /\ req.reg \in 0..7 /\ req.rm \in 0..7
      BY <1>2 DEF ReqType
    <2> QED
      BY <2>1
  <1>4. sib \in 0..255
    <2>1. req.sibscale \in 0..3 /\ req.sibindex \in 0..7 /\ req.sibbase \in 0..7
      BY <1>2 DEF ReqType
    <2> QED
      BY <2>1
  <1>5. emitted' = (emitted \o <<call.form.opcode, modrm>>) \o IF req.has_sib THEN <<sib>> ELSE <<>>
    BY DEF EmitOpcode
  <1> HIDE DEF modrm, sib
  <1>6. call.form.opcode \in 0..255
    BY <1>2, CallFields, FormFields
  <1>7. Bytes(<<call.form.opcode, modrm>>, 2)
    BY <1>3, <1>6, TwoBytes
  <1>8. Bytes(IF req.has_sib THEN <<sib>> ELSE <<>>, 1)
    BY <1>4, OneByte, NoBytes
  <1>9. Bytes(emitted \o <<call.form.opcode, modrm>>, 7)
    BY <1>2, <1>7, Cat
  <1>10. Bytes(emitted', 8)
    BY <1>5, <1>8, <1>9, Cat
  <1> QED
    BY <1>1, <1>10 DEF EncoderInv, SoFar, Twelve, Bytes

LEMMA DispKeepsInv == ASSUME EncoderInv, EmitDisp PROVE EncoderInv'
  <1>1. call' = call /\ req' = req /\ stage = "disp" /\ stage' = "emitted"
    BY DEF EmitDisp
  <1>2. call \in Calls /\ req \in ReqType /\ Bytes(emitted, 8)
    BY <1>1 DEF EncoderInv, SoFar, Twelve, Bytes
  <1>3. Bytes(emitted', 12)
    BY <1>2, DisplacementWrites, Cat DEF EmitDisp
  <1> QED
    BY <1>1, <1>3 DEF EncoderInv, SoFar, Twelve, Bytes

LEMMA InitEncoder == InitMemop => EncoderInv
  <1> SUFFICES ASSUME InitMemop PROVE EncoderInv
    OBVIOUS
  <1>1. stage = "client" /\ call \in Calls /\ req = NoReq /\ emitted = <<>>
    BY DEF InitMemop, InitEnc2
  <1>2. NoReq \in ReqType
    BY DEF NoReq, ReqType
  <1> QED
    BY <1>1, <1>2 DEF EncoderInv, SoFar, Twelve

LEMMA EncoderStep == EncoderInv /\ [NextMemop]_allvars => EncoderInv'
  <1> SUFFICES ASSUME EncoderInv, [NextMemop]_allvars
               PROVE  EncoderInv'
    OBVIOUS
  <1>1. CASE Encode
    BY <1>1, CheckKeepsInv, SetKeepsInv, PrefixKeepsInv, OpcodeKeepsInv, DispKeepsInv
       DEF Encode, NextEnc2
  <1>2. ASSUME UNCHANGED enc2vars  PROVE EncoderInv'
    BY <1>2 DEF enc2vars, EncoderInv, SoFar, Twelve
  <1>3. CASE StartDecode
    BY <1>2, <1>3 DEF StartDecode
  <1>4. CASE Ild
    BY <1>2, <1>4 DEF Ild
  <1>5. CASE Capture
    BY <1>2, <1>5 DEF Capture
  <1>6. CASE Agen
    BY <1>2, <1>6 DEF Agen
  <1>7. CASE UNCHANGED allvars
    BY <1>2, <1>7 DEF allvars
  <1> QED
    BY <1>1, <1>3, <1>4, <1>5, <1>6, <1>7 DEF NextMemop

(* Whatever the form and the arguments, also those that are not checked,   *)
(* emit writes whole bytes, and twelve of them at most: a client's buffer  *)
(* of XED_MAX_INSTRUCTION_BYTES is enough.                                 *)
THEOREM EmitsTwelveBytes == SpecMemop => []Twelve
  <1>1. EncoderInv => Twelve
    BY DEF EncoderInv
  <1> QED
    BY <1>1, InitEncoder, EncoderStep, PTL DEF SpecMemop

-----------------------------------------------------------------------------
(* Until xed_agen returns nothing has failed and nothing has been stored.  *)
AgenInv ==
    /\ agen # "returned" => ~problem /\ returned = "NONE" /\ out_address = {}
    /\ NoAddressOfAFailure

LEMMA InitAddress == InitMemop => AgenInv
  BY DEF InitMemop, InitAgen, AgenInv, NoAddressOfAFailure

LEMMA FailureKeepsInv ==
    ASSUME AgenInv, agen # "returned", CallbackFails
    PROVE  AgenInv'
  BY DEF AgenInv, NoAddressOfAFailure, CallbackFails, AgenReturn

LEMMA AddressStep == AgenInv /\ [NextMemop]_allvars => AgenInv'
  <1> SUFFICES ASSUME AgenInv, [NextMemop]_allvars
               PROVE  AgenInv'
    OBVIOUS
  <1>1. ASSUME UNCHANGED agenvars  PROVE AgenInv'
    BY <1>1 DEF agenvars, AgenInv, NoAddressOfAFailure
  <1>2. CASE AgenStart
    BY <1>2 DEF AgenStart, AgenReturn, AgenInv, NoAddressOfAFailure
  <1>3. CASE BaseValue
    BY <1>3, FailureKeepsInv DEF BaseValue, AgenInv, NoAddressOfAFailure
  <1>4. CASE SegmentValue
    BY <1>4, FailureKeepsInv DEF SegmentValue, AgenInv, NoAddressOfAFailure
  <1>5. CASE IndexValue
    BY <1>5, FailureKeepsInv DEF IndexValue, IndexFails, AgenInv, NoAddressOfAFailure
  <1>6. CASE Address
    BY <1>6 DEF Address, AgenReturn, AgenInv, NoAddressOfAFailure
  <1>7. CASE Agen
    BY <1>2, <1>3, <1>4, <1>5, <1>6, <1>7 DEF Agen, NextAgen
  <1>8. CASE Capture
    BY <1>8 DEF Capture, AgenInv, NoAddressOfAFailure
  <1>9. CASE Encode
    BY <1>1, <1>9 DEF Encode
  <1>10. CASE StartDecode
    BY <1>1, <1>10 DEF StartDecode
  <1>11. CASE Ild
    BY <1>1, <1>11 DEF Ild
  <1>12. CASE UNCHANGED allvars
    BY <1>1, <1>12 DEF allvars
  <1> QED
    BY <1>7, <1>8, <1>9, <1>10, <1>11, <1>12 DEF NextMemop

(* Whichever callbacks fail and whatever they return, no address is stored *)
(* after a failure, and an error is returned exactly when none is stored.  *)
THEOREM FailureStoresNothing == SpecMemop => []NoAddressOfAFailure
  <1>1. AgenInv => NoAddressOfAFailure
    BY DEF AgenInv
  <1> QED
    BY <1>1, InitAddress, AddressStep, PTL DEF SpecMemop

-----------------------------------------------------------------------------
(***************************************************************************)
(* What a call asks for: the arguments the encoder passes on, the          *)
(* displacement it scales and the register it sets.                        *)
(***************************************************************************)

(* a call that goes through and is not known to go wrong *)
GoesRight(c) ==
    /\ c \in Calls /\ PlainCall(c) /\ ~OperandError(c)
    /\ c.checked => ArgumentsOK(c)
    /\ ~EvexDispGoesWrong(c) /\ ~RegisterGoesWrong(c)

(* the request the setters make for a call *)
RequestOf(c) == MemoryOperand(c, ChooseScaledDisp(c, WithRegister(c, NoReq)))

(* the bytes of displacement of a call *)
DispLen(c) ==
    CASE c.dispsz # 0 -> c.dispsz \div 8
      [] c.dispsz = 0 /\ c.base = Rip -> 4
      [] c.dispsz = 0 /\ c.base # Rip /\ c.mode # Mode16 /\ NeedsZeroDisp(c) -> 1
      [] OTHER -> 0

LEMMA Arguments ==
    ASSUME NEW c, GoesRight(c)
    PROVE  /\ c \in Calls /\ c.form \in Forms /\ PlainForm(c.form)
           /\ c.mode \in {0, 1, 2}
           /\ c.base = Rip => c.mode = Mode64 /\ c.index = NoReg /\ c.dispsz \in {0, 32}
           /\ c.base # Rip =>
                 /\ c.base \in 0..31 /\ (c.mode # Mode64 => c.base < 8)
                 /\ c.index # NoReg => IndexOK(c) /\ (c.mode # Mode16 => c.scale \in {1, 2, 4, 8})
                 /\ c.mode # Mode64 => c.reg < 8
           /\ c.reg \in 0..31
           /\ c.disp \in Int /\ c.dispsz \in {0, 8, 16, 32}
           /\ c.dispsz = 16 => c.mode = Mode16
           /\ c.dispsz = 32 => c.mode # Mode16
           /\ InType(c.disp, c.dispsz)
  <1>1. /\ c \in Calls /\ PlainForm(c.form)
        /\ c.dispsz \in {0, 8, IF c.mode = Mode16 THEN 16 ELSE 32}
        /\ InType(c.disp, c.dispsz)
        /\ c.checked \/ ArgumentsOK(c) \/ RipRelative(c) \/ OperandError(c)
        /\ ~OperandError(c) /\ (c.checked => ArgumentsOK(c))
    BY Zenon DEF GoesRight, PlainCall
  <1>2. /\ c.mode \in {0, 1, 2} /\ c.form \in Forms
        /\ c.reg \in 0..31 /\ c.disp \in Int /\ c.dispsz \in {0, 8, 16, 32}
    BY <1>1, CallFields DEF Modes, Mode16, Mode32, Mode64
  <1>5. ArgumentsOK(c) \/ RipRelative(c)
    BY <1>1, Zenon
  <1>6. ArgumentsOK(c) =>
                 /\ c.base # Rip
                 /\ c.base \in 0..31 /\ (c.mode # Mode64 => c.base < 8)
                 /\ c.index # NoReg => IndexOK(c) /\ (c.mode # Mode16 => c.scale \in {1, 2, 4, 8})
                 /\ c.mode # Mode64 => c.reg < 8
    BY DEF ArgumentsOK, RegisterOK, Rip
  <1>7. RipRelative(c) => c.base = Rip /\ c.mode = Mode64 /\ c.index = NoReg /\ c.dispsz \in {0, 32}
    BY Zenon DEF RipRelative
  <1>8. /\ c.dispsz = 16 => c.mode = Mode16
        /\ c.dispsz = 32 => c.mode # Mode16
    BY <1>1
  <1>9. ASSUME c.base # Rip
        PROVE  /\ c.base \in 0..31 /\ (c.mode # Mode64 => c.base < 8)
               /\ c.index # NoReg => IndexOK(c) /\ (c.mode # Mode16 => c.scale \in {1, 2, 4, 8})
               /\ c.mode # Mode64 => c.reg < 8
    BY <1>5, <1>6, <1>7, <1>9, Zenon
  <1>10. ASSUME c.base = Rip  PROVE c.mode = Mode64 /\ c.index = NoReg /\ c.dispsz \in {0, 32}
    BY <1>5, <1>6, <1>7, <1>10, Zenon
  <1>11. /\ c \in Calls /\ c.form \in Forms /\ PlainForm(c.form)
         /\ c.mode \in {0, 1, 2}
         /\ c.reg \in 0..31 /\ c.disp \in Int /\ c.dispsz \in {0, 8, 16, 32}
    BY <1>1, <1>2, Zenon
  <1> QED
    BY <1>1, <1>11, <1>8, <1>9, <1>10, Zenon

LEMMA ScaledDispOf ==
    ASSUME NEW c, GoesRight(c), NEW r \in ReqType, r.has_disp = {}
    PROVE  LET s == ChooseScaledDisp(c, r)
               far == c.form.space = Evex /\ c.dispsz \in {16, 32}
           IN  /\ s.reg = r.reg /\ s.rm = r.rm /\ s.rexr = r.rexr /\ s.rexx = r.rexx
               /\ s.rexb = r.rexb /\ s.rexr4 = r.rexr4 /\ s.rexx4 = r.rexx4
               /\ s.rexb4 = r.rexb4 /\ s.evexvv = r.evexvv /\ s.has_sib = r.has_sib
               /\ s.sibbase = r.sibbase /\ s.sibindex = r.sibindex /\ s.sibscale = r.sibscale
               /\ far => s.has_disp = {c.dispsz} /\ s.use_displacement = c.disp
               /\ ~far => s.has_disp = {}
  <1>1. CASE c.form.space = Evex /\ c.dispsz \in {16, 32}
    <2>1. ~FitsScaled(c)
      BY <1>1 DEF GoesRight, EvexDispGoesWrong
    <2>2. ChooseScaledDisp(c, r) =
            [r EXCEPT !.mod = 2, !.has_disp = r.has_disp \cup {c.dispsz},
                !.use_displacement = c.disp]
      BY <1>1, <2>1, Zenon DEF ChooseScaledDisp
    <2>3. r.has_disp \cup {c.dispsz} = {c.dispsz}
      OBVIOUS
    <2> QED
      BY <1>1, <2>2, <2>3 DEF ReqType
  <1>2. CASE ~(c.form.space = Evex /\ c.dispsz \in {16, 32})
    <2>1. ChooseScaledDisp(c, r) = r
      BY <1>2, Zenon DEF ChooseScaledDisp
    <2> QED
      BY <1>2, <2>1, Zenon
  <1> QED
    BY <1>1, <1>2

RegOf(c) == ChooseScaledDisp(c, WithRegister(c, NoReq))

LEMMA RegisterOf ==
    ASSUME NEW c, GoesRight(c)
    PROVE  LET s == RegOf(c)
               far == c.form.space = Evex /\ c.dispsz \in {16, 32}
           IN  /\ s \in ReqType
               /\ s.reg = c.reg % 8 /\ s.rexr = Bit3(c.reg) /\ s.rexr4 = Bit4(c.reg)
               /\ s.rm = 0 /\ s.rexx = 0 /\ s.rexb = 0 /\ s.rexx4 = 0 /\ s.rexb4 = 0
               /\ s.evexvv = 0 /\ s.has_sib = FALSE
               /\ s.sibbase = 0 /\ s.sibindex = 0 /\ s.sibscale = 0
               /\ far => s.has_disp = {c.dispsz} /\ s.use_displacement = c.disp
               /\ ~far => s.has_disp = {}
  <1> DEFINE r == WithRegister(c, NoReq)
  <1>1. NoReq \in ReqType
    BY DEF NoReq, ReqType
  <1>2. r \in ReqType
    BY <1>1, RegisterKeeps DEF GoesRight
  <1>3. /\ r.reg = c.reg % 8 /\ r.rexr = Bit3(c.reg) /\ r.rexr4 = Bit4(c.reg)
        /\ r.rm = 0 /\ r.rexx = 0 /\ r.rexb = 0 /\ r.rexx4 = 0 /\ r.rexb4 = 0
        /\ r.evexvv = 0 /\ r.has_sib = FALSE
        /\ r.sibbase = 0 /\ r.sibindex = 0 /\ r.sibscale = 0 /\ r.has_disp = {}
    BY DEF WithRegister, NoReq
  <1>4. RegOf(c) \in ReqType
    BY <1>2, ScaledDispKeeps DEF GoesRight, RegOf
  <1> HIDE DEF r
  <1>5. RegOf(c) = ChooseScaledDisp(c, r)
    BY DEF RegOf, r
  <1> QED
    BY <1>2, <1>3, <1>4, <1>5, ScaledDispOf

-----------------------------------------------------------------------------
(***************************************************************************)
(* The request the setters make, and the displacement bytes a request      *)
(* emits.                                                                  *)
(***************************************************************************)

LEMMA RequestIs == ASSUME NEW c  PROVE RequestOf(c) = MemoryOperand(c, RegOf(c))
  BY DEF RequestOf, RegOf

(* what every request has *)
CommonFields(c, r) ==
    /\ r.reg = c.reg % 8 /\ r.rexr = Bit3(c.reg) /\ r.rexr4 = Bit4(c.reg)
    /\ c.form.space = Evex /\ c.dispsz \in {16, 32} =>
          r.use_displacement = c.disp /\ 8 \notin r.has_disp

Operand16(c, r) ==
    /\ r.mod = ModVal(c.dispsz) /\ r.rm = Rm16(c.base, c.index, c.dispsz)
    /\ r.rexx = 0 /\ r.rexb = 0 /\ r.rexx4 = 0 /\ r.rexb4 = 0 /\ r.evexvv = 0
    /\ r.has_sib = FALSE

OperandRip(c, r) ==
    /\ r.mod = 0 /\ r.rm = 5
    /\ r.rexx = 0 /\ r.rexb = 0 /\ r.rexx4 = 0 /\ r.rexb4 = 0 /\ r.evexvv = 0
    /\ r.has_sib = FALSE
    /\ c.dispsz = 0 => r.has_disp = {32}

OperandFlat(c, r) ==
    /\ r.mod = (IF NeedsZeroDisp(c) THEN 1 ELSE ModVal(c.dispsz))
    /\ r.has_sib = NeedsSib(c)
    /\ r.rm = (IF NeedsSib(c) THEN 4 ELSE c.base % 8)
    /\ NeedsSib(c) => r.sibbase = c.base % 8
    /\ r.rexb = Bit3(c.base) /\ r.rexb4 = Bit4(c.base)
    /\ c.index = NoReg => r.rexx = 0 /\ r.rexx4 = 0 /\ r.evexvv = 0
    /\ c.index = NoReg /\ NeedsSib(c) => r.sibindex = 4
    /\ c.index # NoReg => 
          /\ r.sibindex = c.index % 8 /\ r.rexx = Bit3(c.index)
          /\ 2^r.sibscale = c.scale
          /\ IF c.form.vsib THEN r.evexvv = Bit4(c.index) /\ r.rexx4 = 0
                            ELSE r.evexvv = 0 /\ r.rexx4 = Bit4(c.index)
    /\ c.dispsz = 0 => r.has_disp = IF NeedsZeroDisp(c) THEN {8} ELSE {}

LEMMA CommonOf == ASSUME NEW c, GoesRight(c)  PROVE CommonFields(c, RegOf(c))
  <1> DEFINE s == RegOf(c)
             far == c.form.space = Evex /\ c.dispsz \in {16, 32}
  <1>1. /\ s.reg = c.reg % 8 /\ s.rexr = Bit3(c.reg) /\ s.rexr4 = Bit4(c.reg)
        /\ far => s.has_disp = {c.dispsz} /\ s.use_displacement = c.disp
    BY RegisterOf, Zenon
  <1> HIDE DEF s
  <1>2. far => 8 \notin s.has_disp
    BY <1>1
  <1>3. CommonFields(c, s)
    BY <1>1, <1>2, Zenon DEF CommonFields
  <1> QED
    BY <1>3 DEF s

LEMMA Request16 ==
    ASSUME NEW c, GoesRight(c), c.mode = Mode16
    PROVE  CommonFields(c, RequestOf(c)) /\ Operand16(c, RequestOf(c))
  <1> DEFINE s == RegOf(c)
             m == [s EXCEPT !.mod = ModVal(c.dispsz)]
             r == [m EXCEPT !.rm = Rm16(c.base, c.index, c.dispsz)]
  <1>1. RequestOf(c) = r
    BY RequestIs, Zenon DEF MemoryOperand
  <1>2. s \in ReqType
    BY RegisterOf
  <1>3. CommonFields(c, s) /\ s.rexx = 0 /\ s.rexb = 0 /\ s.rexx4 = 0 /\ s.rexb4 = 0
        /\ s.evexvv = 0 /\ s.has_sib = FALSE
    BY RegisterOf, CommonOf, Zenon
  <1> HIDE DEF s
  <1>4. /\ r.mod = ModVal(c.dispsz) /\ r.rm = Rm16(c.base, c.index, c.dispsz)
        /\ r.rexx = s.rexx /\ r.rexb = s.rexb /\ r.rexx4 = s.rexx4 /\ r.rexb4 = s.rexb4
        /\ r.evexvv = s.evexvv /\ r.has_sib = s.has_sib /\ r.reg = s.reg /\ r.rexr = s.rexr
        /\ r.rexr4 = s.rexr4 /\ r.use_displacement = s.use_displacement /\ r.has_disp = s.has_disp
    BY <1>2 DEF ReqType
  <1> HIDE DEF r
  <1> QED
    BY <1>1, <1>3, <1>4, Zenon DEF CommonFields, Operand16

LEMMA RequestRip ==
    ASSUME NEW c, GoesRight(c), c.base = Rip
    PROVE  CommonFields(c, RequestOf(c)) /\ OperandRip(c, RequestOf(c))
  <1> DEFINE s == RegOf(c)
             m == [s EXCEPT !.mod = ModVal(c.dispsz)]
             extra == IF c.dispsz = 0 THEN {32} ELSE {}
             r == [m EXCEPT !.mod = 0, !.rm = 5, !.has_disp = m.has_disp \cup extra]
  <1>0. c.mode # Mode16 /\ c.dispsz \in {0, 32}
    BY Arguments DEF Mode16, Mode64
  <1>1. RequestOf(c) = r
    BY <1>0, RequestIs, Zenon DEF MemoryOperand
  <1>2. s \in ReqType
    BY RegisterOf
  <1>3. CommonFields(c, s) /\ s.rexx = 0 /\ s.rexb = 0 /\ s.rexx4 = 0 /\ s.rexb4 = 0
        /\ s.evexvv = 0 /\ s.has_sib = FALSE /\ (c.dispsz = 0 => s.has_disp = {})
    <2>1. c.dispsz = 0 => c.dispsz \notin {16, 32}
      OBVIOUS
    <2> QED
      BY <2>1, RegisterOf, CommonOf, Zenon
  <1> HIDE DEF s
  <1>4. /\ r.mod = 0 /\ r.rm = 5
        /\ r.rexx = s.rexx /\ r.rexb = s.rexb /\ r.rexx4 = s.rexx4 /\ r.rexb4 = s.rexb4
        /\ r.evexvv = s.evexvv /\ r.has_sib = s.has_sib /\ r.reg = s.reg /\ r.rexr = s.rexr
        /\ r.rexr4 = s.rexr4 /\ r.use_displacement = s.use_displacement
        /\ r.has_disp = s.has_disp \cup extra
    BY <1>2 DEF ReqType
  <1> HIDE DEF r
  <1>5. c.dispsz = 0 => r.has_disp = {32}
    BY <1>3, <1>4
  <1>6. c.dispsz \in {16, 32} => r.has_disp = s.has_disp
    BY <1>4
  <1> QED
    BY <1>1, <1>3, <1>4, <1>5, <1>6, Zenon DEF CommonFields, OperandRip

LEMMA BaseFields ==
    ASSUME NEW c, NEW s \in ReqType, c.base \in 0..31, s.has_sib = FALSE
    PROVE  LET r == WithBase(c, s)
           IN  /\ r.mod = s.mod /\ r.reg = s.reg /\ r.rexr = s.rexr /\ r.rexr4 = s.rexr4
               /\ r.rexx = s.rexx /\ r.rexx4 = s.rexx4 /\ r.evexvv = s.evexvv
               /\ r.has_disp = s.has_disp /\ r.use_displacement = s.use_displacement
               /\ r.has_sib = NeedsSib(c)
               /\ r.rm = (IF NeedsSib(c) THEN 4 ELSE c.base % 8)
               /\ NeedsSib(c) => r.sibbase = c.base % 8
               /\ r.rexb = Bit3(c.base) /\ r.rexb4 = Bit4(c.base)
  <1> DEFINE field == c.base % 8
             b == [s EXCEPT !.rexb = Bit3(c.base), !.rexb4 = Bit4(c.base)]
  <1>1. c.base # NoReg
    BY DEF NoReg
  <1>2. WithBase(c, s) = IF NeedsSib(c)
            THEN [b EXCEPT !.has_sib = TRUE, !.rm = 4, !.sibbase = field]
            ELSE [b EXCEPT !.rm = field]
    BY <1>1, Zenon DEF WithBase
  <1>3. NeedsSib(c) \in BOOLEAN
    BY Zenon DEF NeedsSib
  <1>4. CASE NeedsSib(c)
    <2>1. WithBase(c, s) = [b EXCEPT !.has_sib = TRUE, !.rm = 4, !.sibbase = field]
      BY <1>2, <1>4, Zenon
    <2>2. NeedsSib(c) = TRUE
      BY <1>4
    <2>3. [b EXCEPT !.has_sib = TRUE, !.rm = 4, !.sibbase = field].has_sib = TRUE
      BY DEF ReqType
    <2> QED
      BY <2>1, <2>2, <2>3 DEF ReqType
  <1>5. CASE ~NeedsSib(c)
    <2>1. WithBase(c, s) = [b EXCEPT !.rm = field]
      BY <1>2, <1>5, Zenon
    <2>2. NeedsSib(c) = FALSE
      BY <1>5, <1>3
    <2>3. [b EXCEPT !.rm = field].has_sib = FALSE
      BY DEF ReqType
    <2> QED
      BY <2>1, <2>2, <2>3, <1>5 DEF ReqType
  <1> QED
    BY <1>4, <1>5, Zenon

LEMMA IndexFields ==
    ASSUME NEW c, NEW s \in ReqType, c.index # NoReg => c.scale \in {1, 2, 4, 8}
    PROVE  LET r == WithIndex(c, s)
           IN  /\ r.mod = s.mod /\ r.reg = s.reg /\ r.rexr = s.rexr /\ r.rexr4 = s.rexr4
               /\ r.rexb = s.rexb /\ r.rexb4 = s.rexb4 /\ r.rm = s.rm
               /\ r.has_disp = s.has_disp /\ r.use_displacement = s.use_displacement
               /\ r.has_sib = s.has_sib /\ r.sibbase = s.sibbase
               /\ c.index = NoReg => 
                     /\ r.rexx = s.rexx /\ r.rexx4 = s.rexx4 /\ r.evexvv = s.evexvv
                     /\ s.has_sib => r.sibindex = 4
               /\ c.index # NoReg =>
                     /\ r.sibindex = c.index % 8 /\ r.rexx = Bit3(c.index)
                     /\ 2^r.sibscale = c.scale
                     /\ IF c.form.vsib THEN r.evexvv = Bit4(c.index) /\ r.rexx4 = s.rexx4
                                       ELSE r.evexvv = s.evexvv /\ r.rexx4 = Bit4(c.index)
  <1> DEFINE scale == CASE c.scale = 1 -> 0 [] c.scale = 2 -> 1
                        [] c.scale = 4 -> 2 [] OTHER -> 3
             i == [s EXCEPT !.sibindex = c.index % 8, !.rexx = Bit3(c.index), !.sibscale = scale]
             four == IF s.has_sib THEN 4 ELSE 0
  <1>1. WithIndex(c, s) =
            IF c.index = NoReg THEN [s EXCEPT !.sibindex = four]
            ELSE IF c.form.vsib THEN [i EXCEPT !.evexvv = Bit4(c.index)]
            ELSE [i EXCEPT !.rexx4 = Bit4(c.index)]
    BY Zenon DEF WithIndex
  <1>2. CASE c.index = NoReg
    <2>1. WithIndex(c, s) = [s EXCEPT !.sibindex = four]
      BY <1>1, <1>2, Zenon
    <2>2. s.has_sib => four = 4
      OBVIOUS
    <2> HIDE DEF four
    <2> QED
      BY <1>2, <2>1, <2>2 DEF ReqType
  <1>3. CASE c.index # NoReg
    <2>1. 2^scale = c.scale
      <3>1. c.scale \in {1, 2, 4, 8}
        BY <1>3
      <3>2. 2^0 = 1 /\ 2^1 = 2 /\ 2^2 = 4 /\ 2^3 = 8
        OBVIOUS
      <3> QED
        BY <3>1, <3>2
    <2> HIDE DEF scale
    <2>2. CASE c.form.vsib
      <3>1. WithIndex(c, s) = [i EXCEPT !.evexvv = Bit4(c.index)]
        BY <1>1, <1>3, <2>2, Zenon
      <3> QED
        BY <1>3, <2>1, <2>2, <3>1 DEF ReqType
    <2>3. CASE ~c.form.vsib
      <3>1. WithIndex(c, s) = [i EXCEPT !.rexx4 = Bit4(c.index)]
        BY <1>1, <1>3, <2>3, Zenon
      <3> QED
        BY <1>3, <2>1, <2>3, <3>1 DEF ReqType
    <2> QED
      BY <2>2, <2>3, Zenon
  <1> QED
    BY <1>2, <1>3, Zenon

LEMMA RequestFlat ==
    ASSUME NEW c, GoesRight(c), c.mode # Mode16, c.base # Rip
    PROVE  CommonFields(c, RequestOf(c)) /\ OperandFlat(c, RequestOf(c))
  <1> DEFINE s == RegOf(c)
             m == [s EXCEPT !.mod = ModVal(c.dispsz)]
             b == WithBase(c, m)
             i == WithIndex(c, b)
             extra == (IF NeedsZeroDisp(c) THEN {8} ELSE {})
                      \cup (IF c.form.vsib /\ c.dispsz # 0 THEN {c.dispsz} ELSE {})
             v == IF NeedsZeroDisp(c) THEN 1 ELSE i.mod
             r == [i EXCEPT !.mod = v, !.has_disp = i.has_disp \cup extra]
  <1>1. /\ c \in Calls /\ c.base \in 0..31 /\ (c.index # NoReg => c.scale \in {1, 2, 4, 8})
        /\ c.dispsz \in {0, 8, 16, 32}
    BY Arguments, Zenon
  <1>2. RequestOf(c) = r
    <2>1. RequestOf(c) = WithDispFlags(c, i)
      BY RequestIs, Zenon DEF MemoryOperand
    <2>2. r = [i EXCEPT !.mod = v, !.has_disp = (i.has_disp \cup (IF NeedsZeroDisp(c) THEN {8} ELSE {}))
                             \cup (IF c.form.vsib /\ c.dispsz # 0 THEN {c.dispsz} ELSE {})]
      <3>1. \A h, x, y : h \cup (x \cup y) = (h \cup x) \cup y
        OBVIOUS
      <3> QED
        BY <3>1, Zenon
    <2> QED
      BY <2>1, <2>2, Zenon DEF WithDispFlags
  <1>3. s \in ReqType
    BY RegisterOf
  <1>4. /\ CommonFields(c, s) /\ s.rexx = 0 /\ s.rexx4 = 0
        /\ s.evexvv = 0 /\ s.has_sib = FALSE /\ (c.dispsz = 0 => s.has_disp = {})
    <2>1. c.dispsz = 0 => c.dispsz \notin {16, 32}
      OBVIOUS
    <2> QED
      BY <2>1, RegisterOf, CommonOf, Zenon
  <1>5. ModVal(c.dispsz) \in 0..2
    BY DEF ModVal
  <1> HIDE DEF s
  <1>6. /\ m \in ReqType /\ m.mod = ModVal(c.dispsz) /\ m.reg = s.reg /\ m.rexr = s.rexr
        /\ m.rexr4 = s.rexr4 /\ m.rexx = s.rexx /\ m.rexx4 = s.rexx4 /\ m.evexvv = s.evexvv
        /\ m.has_disp = s.has_disp /\ m.use_displacement = s.use_displacement
        /\ m.has_sib = s.has_sib
    BY <1>3, <1>5 DEF ReqType
  <1> HIDE DEF m
  <1>7. m \in ReqType /\ m.has_sib = FALSE
    BY <1>4, <1>6, Zenon
  <1>8. /\ b.mod = m.mod /\ b.reg = m.reg /\ b.rexr = m.rexr /\ b.rexr4 = m.rexr4
        /\ b.rexx = m.rexx /\ b.rexx4 = m.rexx4 /\ b.evexvv = m.evexvv
        /\ b.has_disp = m.has_disp /\ b.use_displacement = m.use_displacement
        /\ b.has_sib = NeedsSib(c)
        /\ b.rm = (IF NeedsSib(c) THEN 4 ELSE c.base % 8)
        /\ NeedsSib(c) => b.sibbase = c.base % 8
        /\ b.rexb = Bit3(c.base) /\ b.rexb4 = Bit4(c.base)
    BY <1>1, <1>7, BaseFields, Zenon
  <1>9. b \in ReqType
    BY <1>1, <1>7, BaseKeeps
  <1> HIDE DEF b
  <1>10. /\ i.mod = b.mod /\ i.reg = b.reg /\ i.rexr = b.rexr /\ i.rexr4 = b.rexr4
         /\ i.rexb = b.rexb /\ i.rexb4 = b.rexb4 /\ i.rm = b.rm
         /\ i.has_disp = b.has_disp /\ i.use_displacement = b.use_displacement
         /\ i.has_sib = b.has_sib /\ i.sibbase = b.sibbase
         /\ c.index = NoReg => 
               /\ i.rexx = b.rexx /\ i.rexx4 = b.rexx4 /\ i.evexvv = b.evexvv
               /\ b.has_sib => i.sibindex = 4
         /\ c.index # NoReg =>
               /\ i.sibindex = c.index % 8 /\ i.rexx = Bit3(c.index)
               /\ 2^i.sibscale = c.scale
               /\ IF c.form.vsib THEN i.evexvv = Bit4(c.index) /\ i.rexx4 = b.rexx4
                                 ELSE i.evexvv = b.evexvv /\ i.rexx4 = Bit4(c.index)
    BY <1>1, <1>9, IndexFields, Zenon
  <1>11. i \in ReqType
    BY <1>1, <1>9, IndexKeeps
  <1> HIDE DEF i
  <1>12. /\ r.mod = v /\ r.has_disp = i.has_disp \cup extra
         /\ r.reg = i.reg /\ r.rexr = i.rexr /\ r.rexr4 = i.rexr4 /\ r.rexx = i.rexx
         /\ r.rexx4 = i.rexx4 /\ r.rexb = i.rexb /\ r.rexb4 = i.rexb4 /\ r.rm = i.rm
         /\ r.evexvv = i.evexvv /\ r.use_displacement = i.use_displacement
         /\ r.has_sib = i.has_sib /\ r.sibbase = i.sibbase /\ r.sibindex = i.sibindex
         /\ r.sibscale = i.sibscale
    BY <1>11 DEF ReqType
  <1>13. c.dispsz = 0 => r.has_disp = IF NeedsZeroDisp(c) THEN {8} ELSE {}
    <2> SUFFICES ASSUME c.dispsz = 0  PROVE r.has_disp = IF NeedsZeroDisp(c) THEN {8} ELSE {}
      OBVIOUS
    <2>1. i.has_disp = {}
      BY <1>4, <1>6, <1>8, <1>10
    <2>2. ~(c.form.vsib /\ c.dispsz # 0)
      OBVIOUS
    <2>3. extra = (IF NeedsZeroDisp(c) THEN {8} ELSE {}) \cup {}
      BY <2>2, Zenon
    <2> QED
      BY <2>1, <2>3, <1>12
  <1>14. c.form.space = Evex /\ c.dispsz \in {16, 32} =>
            r.use_displacement = c.disp /\ 8 \notin r.has_disp
    <2> SUFFICES ASSUME c.form.space = Evex, c.dispsz \in {16, 32}
                 PROVE  r.use_displacement = c.disp /\ 8 \notin r.has_disp
      OBVIOUS
    <2>1. s.use_displacement = c.disp /\ 8 \notin s.has_disp
      BY <1>4 DEF CommonFields
    <2>2. ~NeedsZeroDisp(c)
      BY DEF NeedsZeroDisp
    <2>3. 8 \notin extra
      BY <2>2
    <2> HIDE DEF extra
    <2>4. r.has_disp = s.has_disp \cup extra /\ r.use_displacement = s.use_displacement
      BY <1>6, <1>8, <1>10, <1>12, Zenon
    <2> QED
      BY <2>1, <2>3, <2>4
  <1> HIDE DEF r, extra
  <1>15. CommonFields(c, r)
    BY <1>4, <1>6, <1>8, <1>10, <1>12, <1>14, Zenon DEF CommonFields
  <1>16. r.mod = (IF NeedsZeroDisp(c) THEN 1 ELSE ModVal(c.dispsz))
    BY <1>6, <1>8, <1>10, <1>12, Zenon
  <1> HIDE DEF v
  <1>17. OperandFlat(c, r)
    <2>1. r.has_sib = NeedsSib(c) /\ r.rm = (IF NeedsSib(c) THEN 4 ELSE c.base % 8)
          /\ (NeedsSib(c) => r.sibbase = c.base % 8)
          /\ r.rexb = Bit3(c.base) /\ r.rexb4 = Bit4(c.base)
      BY <1>8, <1>10, <1>12, Zenon
    <2>2. c.index = NoReg => r.rexx = 0 /\ r.rexx4 = 0 /\ r.evexvv = 0
      BY <1>4, <1>6, <1>8, <1>10, <1>12, Zenon
    <2>3. c.index = NoReg /\ NeedsSib(c) => r.sibindex = 4
      BY <1>8, <1>10, <1>12, Zenon
    <2>4. c.index # NoReg => 
          /\ r.sibindex = c.index % 8 /\ r.rexx = Bit3(c.index)
          /\ 2^r.sibscale = c.scale
          /\ IF c.form.vsib THEN r.evexvv = Bit4(c.index) /\ r.rexx4 = 0
                            ELSE r.evexvv = 0 /\ r.rexx4 = Bit4(c.index)
      BY <1>4, <1>6, <1>8, <1>10, <1>12, ZenonT(30)
    <2> QED
      BY <1>13, <1>16, <2>1, <2>2, <2>3, <2>4, Zenon DEF OperandFlat
  <1> QED
    BY <1>2, <1>15, <1>17, Zenon

-----------------------------------------------------------------------------
(* The displacement that is emitted. *)
LEMMA NoDisplacement == \A v : LittleEndian(v, 0) = <<>>
  BY DEF LittleEndian

LEMMA ZeroDisp == ASSUME NEW c, InType(c.disp, c.dispsz)  PROVE c.dispsz = 0 => c.disp = 0
  BY SMT DEF InType

LEMMA ZeroBytes == LittleEndian(0, 1) = <<0>> /\ LittleEndian(0, 4) = <<0, 0, 0, 0>>
  <1>1. \A w \in {1, 256, 65536, 16777216} : (0 \div w) % 256 = 0
    OBVIOUS
  <1>2. \A k \in 1..4 : <<1, 256, 65536, 16777216>>[k] \in {1, 256, 65536, 16777216}
    OBVIOUS
  <1>3. \A k \in 1..4 : (0 \div <<1, 256, 65536, 16777216>>[k]) % 256 = 0
    BY <1>1, <1>2
  <1>4. LittleEndian(0, 1) = [k \in 1..1 |-> 0]
    BY <1>3 DEF LittleEndian
  <1>5. LittleEndian(0, 4) = [k \in 1..4 |-> 0]
    BY <1>3 DEF LittleEndian
  <1> QED
    BY <1>4, <1>5

LEMMA DisplacementIs ==
    ASSUME GoesRight(call), req = RequestOf(call)
    PROVE  Displacement = LittleEndian(call.disp, DispLen(call))
  <1>1. /\ call.dispsz \in {0, 8, 16, 32} /\ call.mode \in {0, 1, 2}
        /\ call.dispsz = 0 => call.disp = 0
        /\ call.base = Rip => call.mode = Mode64
    BY Arguments, ZeroDisp, Zenon
  <1>2. /\ CommonFields(call, req)
        /\ call.base = Rip => OperandRip(call, req)
        /\ call.base # Rip /\ call.mode # Mode16 => OperandFlat(call, req)
    BY Request16, RequestRip, RequestFlat, Zenon
  <1>3. CASE call.dispsz # 0
    <2>1. DispLen(call) = call.dispsz \div 8
      BY <1>3, Zenon DEF DispLen
    <2>2. CASE call.form.space # Evex \/ call.dispsz = 8
      BY <1>3, <2>1, <2>2, Zenon DEF Displacement
    <2>3. CASE ~(call.form.space # Evex \/ call.dispsz = 8)
      <3>1. call.dispsz \in {16, 32}
        BY <1>1, <1>3, <2>3
      <3>2. req.use_displacement = call.disp /\ 8 \notin req.has_disp
        BY <1>2, <2>3, <3>1, Zenon DEF CommonFields
      <3> QED
        BY <1>3, <2>1, <2>3, <3>2, Zenon DEF Displacement
    <2> QED
      BY <2>2, <2>3
  <1>4. CASE call.dispsz = 0
    <2>1. call.disp = 0
      BY <1>1, <1>4
    <2>2. CASE call.mode = Mode16
      <3>1. call.base # Rip
        BY <1>1, <2>2 DEF Mode16, Mode64
      <3>2. DispLen(call) = 0
        BY <1>4, <2>2, <3>1, Zenon DEF DispLen
      <3>3. Displacement = <<>>
        BY <1>4, <2>2, Zenon DEF Displacement
      <3> QED
        BY <3>2, <3>3, NoDisplacement
    <2>3. CASE call.base = Rip
      <3>1. call.mode # Mode16
        BY <1>1, <2>3 DEF Mode16, Mode64
      <3>2. req.has_disp = {32}
        BY <1>2, <1>4, <2>3, Zenon DEF OperandRip
      <3>3. 8 \notin req.has_disp /\ 32 \in req.has_disp
        BY <3>2
      <3>4. Displacement = <<0, 0, 0, 0>>
        BY <1>4, <3>1, <3>3, Zenon DEF Displacement
      <3>5. DispLen(call) = 4
        BY <1>4, <2>3 DEF DispLen
      <3> QED
        BY <2>1, <3>4, <3>5, ZeroBytes
    <2>4. CASE call.mode # Mode16 /\ call.base # Rip
      <3>1. req.has_disp = IF NeedsZeroDisp(call) THEN {8} ELSE {}
        BY <1>2, <1>4, <2>4, Zenon DEF OperandFlat
      <3>2. CASE NeedsZeroDisp(call)
        <4>1. 8 \in req.has_disp
          BY <3>1, <3>2
        <4>2. Displacement = <<0>>
          BY <1>4, <2>4, <4>1, Zenon DEF Displacement
        <4>3. DispLen(call) = 1
          BY <1>4, <2>4, <3>2 DEF DispLen
        <4> QED
          BY <2>1, <4>2, <4>3, ZeroBytes
      <3>3. CASE ~NeedsZeroDisp(call)
        <4>1. 8 \notin req.has_disp /\ 32 \notin req.has_disp
          BY <3>1, <3>3
        <4>2. Displacement = <<>>
          BY <1>4, <2>4, <4>1, Zenon DEF Displacement
        <4>3. DispLen(call) = 0
          BY <1>4, <2>4, <3>3 DEF DispLen
        <4> QED
          BY <4>2, <4>3, NoDisplacement
      <3> QED
        BY <3>2, <3>3
    <2> QED
      BY <2>2, <2>3, <2>4
  <1> QED
    BY <1>3, <1>4

-----------------------------------------------------------------------------
(***************************************************************************)
(* EmitInv is inductive: the bytes emitted at each stage are the parts of  *)
(* the request written so far.                                             *)
(***************************************************************************)

(* the parts of what is emitted *)
SegBytes == IF call.seg # NoReg THEN <<SegPrefix(call.seg)>> ELSE <<>>
PrefixBytes == CASE call.form.space = Legacy -> LegacyPrefix
                 [] call.form.space = Vex -> VexPrefix
                 [] call.form.space = Evex -> EvexPrefix
ModrmOut == 64 * req.mod + 8 * req.reg + req.rm
SibOut == 64 * req.sibscale + 8 * req.sibindex + req.sibbase
OpcodeBytes == <<call.form.opcode, ModrmOut>>
SibBytes == IF req.has_sib THEN <<SibOut>> ELSE <<>>

EmitInv ==
    /\ stage \in {"client", "operand", "prefix", "opcode", "disp", "emitted", "aborted"}
    /\ stage \in {"client", "operand"} => req = NoReq
    /\ stage = "client" => emitted = <<>>
    /\ stage \in {"operand", "prefix", "opcode", "disp", "emitted"} =>
          (call.checked => ArgumentsOK(call))
    /\ stage \in {"prefix", "opcode", "disp", "emitted"} =>
          ~OperandError(call) /\ req = RequestOf(call)
    /\ stage \in {"operand", "prefix"} => emitted = SegBytes
    /\ stage = "opcode" => emitted = SegBytes \o PrefixBytes
    /\ stage = "disp" => emitted = SegBytes \o PrefixBytes \o OpcodeBytes \o SibBytes
    /\ stage = "emitted" => emitted = SegBytes \o PrefixBytes \o OpcodeBytes \o SibBytes \o
        Displacement

LEMMA InitEmit == InitMemop => EmitInv
  <1> SUFFICES ASSUME InitMemop PROVE EmitInv
    OBVIOUS
  <1>1. stage = "client" /\ req = NoReq /\ emitted = <<>>
    BY DEF InitMemop, InitEnc2
  <1> QED
    BY <1>1 DEF EmitInv

LEMMA EmitStep == EmitInv /\ [NextMemop]_allvars => EmitInv'
  <1> SUFFICES ASSUME EmitInv, [NextMemop]_allvars  PROVE EmitInv'
    OBVIOUS
  <1>1. ASSUME UNCHANGED enc2vars  PROVE EmitInv'
    <2>1. stage' = stage /\ call' = call /\ req' = req /\ emitted' = emitted
      BY <1>1 DEF enc2vars
    <2>2. SegBytes' = SegBytes /\ PrefixBytes' = PrefixBytes /\ OpcodeBytes' = OpcodeBytes /\
          SibBytes' = SibBytes
          /\ Displacement' = Displacement
      BY <2>1, Zenon DEF SegBytes, PrefixBytes, LegacyPrefix, VexPrefix, EvexPrefix, Rxb, Rxb4,
         Rex, Rex2Prefix, OpcodeBytes, SibBytes, ModrmOut, SibOut, Displacement
    <2>3. (call'.checked => ArgumentsOK(call')) <=> (call.checked => ArgumentsOK(call))
      BY <2>1, Zenon
    <2>4. (OperandError(call') <=> OperandError(call)) /\ RequestOf(call') = RequestOf(call)
      BY <2>1, Zenon
    <2> QED
      BY <2>1, <2>2, <2>3, <2>4 DEF EmitInv
  <1>2. CASE CheckArguments
    <2>1. stage = "client" /\ req = NoReq /\ req' = req /\ call' = call
      BY <1>2 DEF CheckArguments, EmitInv
    <2>2. emitted' = SegBytes /\ SegBytes' = SegBytes
      BY <1>2, <2>1, Zenon DEF CheckArguments, SegBytes
    <2>3. CASE call.checked /\ ~ArgumentsOK(call)
      <3>1. stage' = "aborted"
        BY <1>2, <2>3 DEF CheckArguments
      <3> QED
        BY <3>1 DEF EmitInv
    <2>4. CASE ~(call.checked /\ ~ArgumentsOK(call))
      <3>1. stage' = "operand"
        BY <1>2, <2>4 DEF CheckArguments
      <3>2. call'.checked => ArgumentsOK(call')
        BY <2>1, <2>4, Zenon
      <3> QED
        BY <2>1, <2>2, <3>1, <3>2 DEF EmitInv
    <2> QED
      BY <2>3, <2>4
  <1>3. CASE SetOperands
    <2>1. stage = "operand" /\ req = NoReq /\ emitted = SegBytes /\ emitted' = emitted /\
          call' = call
          /\ (call.checked => ArgumentsOK(call))
      BY <1>3 DEF SetOperands, EmitInv
    <2>2. SegBytes' = SegBytes
      BY <2>1, Zenon DEF SegBytes
    <2>3. CASE OperandError(call)
      <3>1. stage' = "aborted"
        BY <1>3, <2>3 DEF SetOperands
      <3> QED
        BY <3>1 DEF EmitInv
    <2>4. CASE ~OperandError(call)
      <3>1. stage' = "prefix" /\ req' = RequestOf(call)
        BY <1>3, <2>1, <2>4, Zenon DEF SetOperands, RequestOf
      <3>2. (call'.checked => ArgumentsOK(call')) /\ ~OperandError(call') /\ req' = RequestOf(call')
        BY <2>1, <2>4, <3>1, Zenon
      <3> QED
        BY <2>1, <2>2, <3>1, <3>2 DEF EmitInv
    <2> QED
      BY <2>3, <2>4
  <1>4. CASE EmitPrefix
    <2>1. stage = "prefix" /\ emitted = SegBytes /\ call' = call /\ req' = req /\ stage' = "opcode"
          /\ (call.checked => ArgumentsOK(call)) /\ ~OperandError(call) /\ req = RequestOf(call)
      BY <1>4 DEF EmitPrefix, EmitInv
    <2>2. SegBytes' = SegBytes /\ PrefixBytes' = PrefixBytes
      BY <2>1, ZenonT(30) DEF SegBytes, PrefixBytes, LegacyPrefix, VexPrefix, EvexPrefix, Rxb, Rxb4,
         Rex, Rex2Prefix
    <2>3. emitted' = SegBytes \o PrefixBytes
      BY <1>4, <2>1, Zenon DEF EmitPrefix, PrefixBytes
    <2>4. (call'.checked => ArgumentsOK(call')) /\ ~OperandError(call') /\ req' = RequestOf(call')
      BY <2>1, Zenon
    <2> QED
      BY <2>1, <2>2, <2>3, <2>4 DEF EmitInv
  <1>5. CASE EmitOpcode
    <2>1. stage = "opcode" /\ emitted = SegBytes \o PrefixBytes /\ call' = call /\ req' = req
          /\ stage' = "disp"
          /\ (call.checked => ArgumentsOK(call)) /\ ~OperandError(call) /\ req = RequestOf(call)
      BY <1>5 DEF EmitOpcode, EmitInv
    <2>2. SegBytes' = SegBytes /\ PrefixBytes' = PrefixBytes /\ OpcodeBytes' = OpcodeBytes /\
          SibBytes' = SibBytes
      BY <2>1, ZenonT(30) DEF SegBytes, PrefixBytes, LegacyPrefix, VexPrefix, EvexPrefix, Rxb, Rxb4,
         Rex, Rex2Prefix, OpcodeBytes, SibBytes, ModrmOut, SibOut
    <2>3. emitted' = SegBytes \o PrefixBytes \o OpcodeBytes \o SibBytes
      BY <1>5, <2>1, Zenon DEF EmitOpcode, OpcodeBytes, SibBytes, ModrmOut, SibOut
    <2>4. (call'.checked => ArgumentsOK(call')) /\ ~OperandError(call') /\ req' = RequestOf(call')
      BY <2>1, Zenon
    <2> QED
      BY <2>1, <2>2, <2>3, <2>4 DEF EmitInv
  <1>6. CASE EmitDisp
    <2>1. stage = "disp" /\ emitted = SegBytes \o PrefixBytes \o OpcodeBytes \o SibBytes /\
          call' = call /\ req' = req
          /\ stage' = "emitted"
          /\ (call.checked => ArgumentsOK(call)) /\ ~OperandError(call) /\ req = RequestOf(call)
      BY <1>6 DEF EmitDisp, EmitInv
    <2>2. SegBytes' = SegBytes /\ PrefixBytes' = PrefixBytes /\ OpcodeBytes' = OpcodeBytes /\
          SibBytes' = SibBytes
          /\ Displacement' = Displacement
      BY <2>1, ZenonT(30) DEF SegBytes, PrefixBytes, LegacyPrefix, VexPrefix, EvexPrefix, Rxb, Rxb4,
         Rex, Rex2Prefix, OpcodeBytes, SibBytes, ModrmOut, SibOut, Displacement
    <2>3. emitted' = SegBytes \o PrefixBytes \o OpcodeBytes \o SibBytes \o Displacement
      BY <1>6, <2>1, Zenon DEF EmitDisp
    <2>4. (call'.checked => ArgumentsOK(call')) /\ ~OperandError(call') /\ req' = RequestOf(call')
      BY <2>1, Zenon
    <2> QED
      BY <2>1, <2>2, <2>3, <2>4 DEF EmitInv
  <1>7. CASE UNCHANGED allvars
    BY <1>1, <1>7 DEF allvars
  <1>8. CASE StartDecode \/ Ild \/ Capture \/ Agen
    <2>1. UNCHANGED enc2vars
      BY <1>8 DEF StartDecode, Ild, Capture, Agen
    <2> QED
      BY <1>1, <2>1
  <1>9. CASE Encode
    BY <1>2, <1>3, <1>4, <1>5, <1>6, <1>9 DEF Encode, NextEnc2
  <1> QED
    BY <1>7, <1>8, <1>9 DEF NextMemop

-----------------------------------------------------------------------------
(***************************************************************************)
(* The finished encoding as a concatenation of parts, and the bits of a    *)
(* request.                                                                *)
(***************************************************************************)

(* a call that has been encoded, and the buffer it is decoded from *)
Encoded ==
    /\ EncoderInv /\ EmitInv /\ stage = "emitted" /\ GoesRight(call)
    /\ itext = Buffer

LEMMA EncodedIs ==
    ASSUME Encoded
    PROVE  /\ call \in Calls /\ GoesRight(call) /\ req \in ReqType /\ req = RequestOf(call)
           /\ emitted = SegBytes \o PrefixBytes \o OpcodeBytes \o SibBytes \o Displacement
           /\ emitted \in Seq(Byte256) /\ Len(emitted) \in Nat /\ Len(emitted) <= 12
           /\ CommonFields(call, req)
           /\ call.mode = Mode16 => Operand16(call, req)
           /\ call.base = Rip => OperandRip(call, req)
           /\ call.base # Rip /\ call.mode # Mode16 => OperandFlat(call, req)
  <1>1. /\ call \in Calls /\ GoesRight(call) /\ req \in ReqType
        /\ emitted \in Seq(Byte256) /\ Len(emitted) <= 12
    BY DEF Encoded, EncoderInv, Twelve
  <1>2. req = RequestOf(call)
        /\ emitted = SegBytes \o PrefixBytes \o OpcodeBytes \o SibBytes \o Displacement
    BY DEF Encoded, EmitInv
  <1>3. Len(emitted) \in Nat
    <2>1. \A s \in Seq(Byte256) : Len(s) \in Nat
      OBVIOUS
    <2> QED
      BY <1>1, <2>1, Zenon
  <1>4. CommonFields(call, RequestOf(call))
    BY <1>1, Request16, RequestRip, RequestFlat, Zenon
  <1> QED
    BY <1>1, <1>2, <1>3, <1>4, Request16, RequestRip, RequestFlat, Zenon

LEMMA BitsBelow ==
    ASSUME NEW n \in Nat
    PROVE  /\ n < 8 => Bit3(n) = 0 /\ Bit4(n) = 0
           /\ n < 16 => Bit4(n) = 0
           /\ n < 32 => n = 16 * Bit4(n) + 8 * Bit3(n) + (n % 8)
  <1>1. n < 8 => n \div 8 = 0 /\ n \div 16 = 0
    OBVIOUS
  <1>2. n < 16 => n \div 16 = 0
    OBVIOUS
  <1>3. n < 32 => n = 16 * ((n \div 16) % 2) + 8 * ((n \div 8) % 2) + (n % 8)
    OBVIOUS
  <1> QED
    BY <1>1, <1>2, <1>3 DEF Bit3, Bit4

(* the bits of registers that a prefix has no room for are not set *)
LEMMA RequestBits ==
    ASSUME Encoded
    PROVE  /\ req.rexr \in 0..1 /\ req.rexx \in 0..1 /\ req.rexb \in 0..1
           /\ req.rexr4 \in 0..1 /\ req.rexx4 \in 0..1 /\ req.rexb4 \in 0..1 /\ req.evexvv \in 0..1
           /\ call.mode # Mode64 =>
                 /\ req.rexr = 0 /\ req.rexx = 0 /\ req.rexb = 0
                 /\ req.rexr4 = 0 /\ req.rexx4 = 0 /\ req.rexb4 = 0 /\ req.evexvv = 0
           /\ call.form.space = Vex \/ (call.form.space = Legacy /\ ~call.form.rex2) =>
                 req.rexr4 = 0 /\ req.rexx4 = 0 /\ req.rexb4 = 0
           /\ call.form.space # Evex => req.evexvv = 0
  <1>1. /\ req.rexr \in 0..1 /\ req.rexx \in 0..1 /\ req.rexb \in 0..1
        /\ req.rexr4 \in 0..1 /\ req.rexx4 \in 0..1 /\ req.rexb4 \in 0..1 /\ req.evexvv \in 0..1
    BY EncodedIs DEF ReqType
  <1>2. GoesRight(call) /\ CommonFields(call, req) /\ call.form \in Forms
        /\ call.base \in Nat /\ call.index \in 0..32 /\ call.index \in Nat
        /\ call.reg \in 0..31 /\ PlainForm(call.form)
    <2>1. call \in Calls /\ GoesRight(call) /\ CommonFields(call, req)
      BY EncodedIs, Zenon
    <2>2. call.form \in Forms /\ PlainForm(call.form)
      BY <2>1, Arguments, Zenon
    <2>3. call.base \in 0..33 /\ call.index \in 0..32 /\ call.reg \in 0..31
      BY <2>1, CallFields, Zenon
    <2> QED
      BY <2>1, <2>2, <2>3
  <1>3. req.rexr = Bit3(call.reg) /\ req.rexr4 = Bit4(call.reg)
    BY <1>2, Zenon DEF CommonFields
  <1>4. \/ /\ req.rexx = 0 /\ req.rexb = 0 /\ req.rexx4 = 0 /\ req.rexb4 = 0 /\ req.evexvv = 0
        \/ call.base # Rip /\ OperandFlat(call, req)
    BY EncodedIs, Zenon DEF Operand16, OperandRip
  <1>5. call.mode # Mode64 => req.rexr = 0 /\ req.rexr4 = 0
    <2> SUFFICES ASSUME call.mode # Mode64 PROVE req.rexr = 0 /\ req.rexr4 = 0
      OBVIOUS
    <2>1. call.base # Rip
      BY <1>2, Arguments
    <2>2. call.reg < 8
      BY <1>2, <2>1, Arguments
    <2> QED
      BY <1>2, <1>3, <2>2, BitsBelow
  <1>6. call.form.space = Vex \/ (call.form.space = Legacy /\ ~call.form.rex2) => 
           call.base \notin 16..31 /\ call.reg \notin 16..31
           /\ (~call.form.vsib => call.index \notin 16..31)
    BY <1>2 DEF GoesRight, RegisterGoesWrong
  <1>7. call.form.space = Vex \/ (call.form.space = Legacy /\ ~call.form.rex2) => req.rexr4 = 0
    <2>1. call.reg \notin 16..31 => call.reg < 16
      BY <1>2
    <2> QED
      BY <1>2, <1>3, <1>6, <2>1, BitsBelow
  <1>8. CASE call.base # Rip /\ OperandFlat(call, req)
    <2>1. /\ call.base \in 0..31 /\ (call.mode # Mode64 => call.base < 8)
          /\ call.index # NoReg => IndexOK(call)
      BY <1>2, <1>8, Arguments, Zenon
    <2>2. /\ req.rexb = Bit3(call.base) /\ req.rexb4 = Bit4(call.base)
          /\ call.index = NoReg => req.rexx = 0 /\ req.rexx4 = 0 /\ req.evexvv = 0
          /\ call.index # NoReg => 
                /\ req.rexx = Bit3(call.index)
                /\ call.form.vsib => req.evexvv = Bit4(call.index) /\ req.rexx4 = 0
                /\ ~call.form.vsib => req.evexvv = 0 /\ req.rexx4 = Bit4(call.index)
      BY <1>8, Zenon DEF OperandFlat
    <2>3. call.mode # Mode64 => call.index = NoReg \/ call.index < 8
      <3>1. IndexOK(call) /\ call.mode # Mode64 => call.index < 8
        BY DEF IndexOK, RegisterOK, SI, DI
      <3> QED
        BY <2>1, <3>1
    <2>4. call.mode # Mode64 => req.rexb = 0 /\ req.rexb4 = 0
      BY <1>2, <2>1, <2>2, BitsBelow
    <2>5. call.mode # Mode64 => req.rexx = 0 /\ req.rexx4 = 0 /\ req.evexvv = 0
      <3>1. call.index < 8 => Bit3(call.index) = 0 /\ Bit4(call.index) = 0
        BY <1>2, BitsBelow
      <3> QED
        BY <2>2, <2>3, <3>1, Zenon
    <2>6. call.form.space = Vex \/ (call.form.space = Legacy /\ ~call.form.rex2) => req.rexb4 = 0
      <3>1. call.base \notin 16..31 => call.base < 16
        BY <2>1
      <3> QED
        BY <1>2, <1>6, <2>2, <3>1, BitsBelow
    <2>7. call.form.space = Vex \/ (call.form.space = Legacy /\ ~call.form.rex2) => req.rexx4 = 0
      <3>1. call.index \notin 16..31 /\ call.index # NoReg => call.index < 16
        BY <1>2 DEF NoReg
      <3>2. call.index < 16 => Bit4(call.index) = 0
        BY <1>2, BitsBelow
      <3> QED
        BY <1>6, <2>2, <3>1, <3>2, Zenon
    <2>8. call.form.space # Evex => req.evexvv = 0
      <3>1. call.form.space = Legacy => ~call.form.vsib
        BY <1>2, Zenon DEF PlainForm
      <3>2. call.form.space = Vex /\ call.form.vsib /\ IndexOK(call) => call.index < 16
        BY DEF IndexOK, RegisterOK
      <3>3. call.index < 16 => Bit4(call.index) = 0
        BY <1>2, BitsBelow
      <3>4. call.form.space \in {Legacy, Vex, Evex}
        BY <1>2, FormFields
      <3> QED
        BY <2>1, <2>2, <3>1, <3>2, <3>3, <3>4
    <2> QED
      BY <1>1, <1>5, <1>7, <2>4, <2>5, <2>6, <2>7, <2>8, Zenon
  <1> QED
    BY <1>1, <1>4, <1>5, <1>7, <1>8, Zenon

-----------------------------------------------------------------------------
(* Where the parts stand. *)
LEMMA Catenated ==
    ASSUME NEW s \in Seq(Byte256), NEW t \in Seq(Byte256)
    PROVE  /\ s \o t \in Seq(Byte256) /\ Len(s \o t) = Len(s) + Len(t)
           /\ \A i \in 1..Len(s) : (s \o t)[i] = s[i]
           /\ \A i \in 1..Len(t) : (s \o t)[Len(s) + i] = t[i]
  OBVIOUS

Parts(s, a, b, c, d, e) ==
    /\ Len(s) = Len(a) + Len(b) + Len(c) + Len(d) + Len(e)
    /\ \A i \in 1..Len(a) : s[i] = a[i]
    /\ \A i \in 1..Len(b) : s[Len(a) + i] = b[i]
    /\ \A i \in 1..Len(c) : s[Len(a) + Len(b) + i] = c[i]
    /\ \A i \in 1..Len(d) : s[Len(a) + Len(b) + Len(c) + i] = d[i]
    /\ \A i \in 1..Len(e) : s[Len(a) + Len(b) + Len(c) + Len(d) + i] = e[i]

LEMMA FiveParts ==
    ASSUME NEW a \in Seq(Byte256), NEW b \in Seq(Byte256), NEW c \in Seq(Byte256),
           NEW d \in Seq(Byte256), NEW e \in Seq(Byte256)
    PROVE  Parts(a \o b \o c \o d \o e, a, b, c, d, e)
  <1> DEFINE ab == a \o b
             abc == ab \o c
             abcd == abc \o d
             all == abcd \o e
             na == Len(a)
             nb == Len(b)
             nc == Len(c)
             nd == Len(d)
             ne == Len(e)
  <1>0. na \in Nat /\ nb \in Nat /\ nc \in Nat /\ nd \in Nat /\ ne \in Nat
    OBVIOUS
  <1>1. /\ ab \in Seq(Byte256) /\ Len(ab) = na + nb
        /\ \A i \in 1..na : ab[i] = a[i]
        /\ \A i \in 1..nb : ab[na + i] = b[i]
    BY Catenated
  <1> HIDE DEF ab
  <1>2. /\ abc \in Seq(Byte256) /\ Len(abc) = Len(ab) + nc
        /\ \A i \in 1..Len(ab) : abc[i] = ab[i]
        /\ \A i \in 1..nc : abc[Len(ab) + i] = c[i]
    BY <1>1, Catenated
  <1> HIDE DEF abc
  <1>3. /\ abcd \in Seq(Byte256) /\ Len(abcd) = Len(abc) + nd
        /\ \A i \in 1..Len(abc) : abcd[i] = abc[i]
        /\ \A i \in 1..nd : abcd[Len(abc) + i] = d[i]
    BY <1>2, Catenated
  <1> HIDE DEF abcd
  <1>4. /\ all \in Seq(Byte256) /\ Len(all) = Len(abcd) + ne
        /\ \A i \in 1..Len(abcd) : all[i] = abcd[i]
        /\ \A i \in 1..ne : all[Len(abcd) + i] = e[i]
    BY <1>3, Catenated
  <1> HIDE DEF all
  <1>5. all = a \o b \o c \o d \o e
    BY DEF all, abcd, abc, ab
  <1> HIDE DEF na, nb, nc, nd, ne
  <1>6. Len(ab) = na + nb /\ Len(abc) = na + nb + nc /\ Len(abcd) = na + nb + nc + nd
        /\ Len(all) = na + nb + nc + nd + ne
    BY <1>1, <1>2, <1>3, <1>4
  <1>7. \A i \in 1..na : all[i] = a[i]
    <2> TAKE i \in 1..na
    <2>1. i \in 1..Len(ab) /\ i \in 1..Len(abc) /\ i \in 1..Len(abcd)
      BY <1>0, <1>6
    <2> QED
      BY <2>1, <1>1, <1>2, <1>3, <1>4
  <1>8. \A i \in 1..nb : all[na + i] = b[i]
    <2> TAKE i \in 1..nb
    <2>1. na + i \in 1..Len(ab) /\ na + i \in 1..Len(abc) /\ na + i \in 1..Len(abcd)
      BY <1>0, <1>6
    <2> QED
      BY <2>1, <1>1, <1>2, <1>3, <1>4
  <1>9. \A i \in 1..nc : all[na + nb + i] = c[i]
    <2> TAKE i \in 1..nc
    <2>1. na + nb + i \in 1..Len(abc) /\ na + nb + i \in 1..Len(abcd)
      BY <1>0, <1>6
    <2> QED
      BY <2>1, <1>2, <1>3, <1>4, <1>6
  <1>10. \A i \in 1..nd : all[na + nb + nc + i] = d[i]
    <2> TAKE i \in 1..nd
    <2>1. na + nb + nc + i \in 1..Len(abcd)
      BY <1>0, <1>6
    <2> QED
      BY <2>1, <1>3, <1>4, <1>6
  <1>11. \A i \in 1..ne : all[na + nb + nc + nd + i] = e[i]
    BY <1>4, <1>6
  <1> QED
    BY <1>4, <1>5, <1>6, <1>7, <1>8, <1>9, <1>10, <1>11 DEF na, nb, nc, nd, ne, Parts

-----------------------------------------------------------------------------
(***************************************************************************)
(* The length of every part and where it starts.                           *)
(***************************************************************************)

Op == Len(SegBytes) + Len(PrefixBytes)
SibLen == IF req.has_sib THEN 1 ELSE 0
DispAt == Op + 2 + SibLen

LEMMA DispLenRange ==
    ASSUME NEW c \in Calls
    PROVE  DispLen(c) \in {0, 1, 2, 4}
  <1>1. c.dispsz \in {0, 8, 16, 32}
    BY CallFields
  <1>2. 8 \div 8 = 1 /\ 16 \div 8 = 2 /\ 32 \div 8 = 4
    OBVIOUS
  <1>3. c.dispsz # 0 => DispLen(c) = c.dispsz \div 8
    BY Zenon DEF DispLen
  <1>4. c.dispsz = 0 => DispLen(c) \in {0, 1, 4}
    BY DEF DispLen
  <1> QED
    BY <1>1, <1>2, <1>3, <1>4

LEMMA SegPart ==
    ASSUME call \in Calls
    PROVE  /\ SegBytes \in Seq(Byte256)
           /\ call.seg = NoReg => SegBytes = <<>> /\ Len(SegBytes) = 0
           /\ call.seg # NoReg => Len(SegBytes) = 1 /\ SegBytes[1] = SegPrefix(call.seg)
  <1>1. call.seg # NoReg => call.seg \in 40..45
    BY CallFields
  <1>2. CASE call.seg = NoReg
    <2>1. SegBytes = <<>>
      BY <1>2 DEF SegBytes
    <2> QED
      BY <1>2, <2>1
  <1>3. CASE call.seg # NoReg
    <2>1. SegPrefix(call.seg) \in 0..255
      BY <1>1, <1>3 DEF SegPrefix
    <2>2. SegBytes = <<SegPrefix(call.seg)>>
      BY <1>3 DEF SegBytes
    <2> QED
      BY <1>3, <2>1, <2>2 DEF Byte256
  <1> QED
    BY <1>2, <1>3

LEMMA PrefixPart ==
    ASSUME call \in Calls, req \in ReqType
    PROVE  PrefixBytes \in Seq(Byte256) /\ Len(PrefixBytes) \in Nat /\ Len(PrefixBytes) <= 4
  <1>1. call.form.space \in {Legacy, Vex, Evex} /\ Legacy # Vex /\ Legacy # Evex /\ Vex # Evex
    BY CallFields, FormFields DEF Legacy, Vex, Evex
  <1>2. PrefixBytes \in {LegacyPrefix, VexPrefix, EvexPrefix}
    BY <1>1 DEF PrefixBytes
  <1>3. CASE call.form.space = Legacy
    <2>1. PrefixBytes = LegacyPrefix
      BY <1>1, <1>3, Zenon DEF PrefixBytes
    <2>2. Bytes(PrefixBytes, 4)
      BY <1>3, <2>1, LegacyWrites
    <2> QED
      BY <2>2 DEF Bytes
  <1>4. CASE call.form.space = Vex
    <2>1. PrefixBytes = VexPrefix
      BY <1>1, <1>4 DEF PrefixBytes
    <2>2. Bytes(PrefixBytes, 4)
      BY <2>1, VexWrites
    <2> QED
      BY <2>2 DEF Bytes
  <1>5. CASE call.form.space = Evex
    <2>1. PrefixBytes = EvexPrefix
      BY <1>1, <1>5 DEF PrefixBytes
    <2>2. Bytes(PrefixBytes, 4)
      BY <2>1, EvexWrites
    <2> QED
      BY <2>2 DEF Bytes
  <1> QED
    BY <1>1, <1>3, <1>4, <1>5

LEMMA OpcodePart ==
    ASSUME call \in Calls, req \in ReqType
    PROVE  /\ ModrmOut \in 0..255 /\ SibOut \in 0..255
           /\ OpcodeBytes \in Seq(Byte256) /\ Len(OpcodeBytes) = 2
           /\ OpcodeBytes[1] = call.form.opcode /\ OpcodeBytes[2] = ModrmOut
           /\ SibBytes \in Seq(Byte256) /\ Len(SibBytes) = SibLen
           /\ req.has_sib => SibBytes[1] = SibOut
  <1>1. /\ req.mod \in 0..2 /\ req.reg \in 0..7 /\ req.rm \in 0..7
        /\ req.sibscale \in 0..3 /\ req.sibindex \in 0..7 /\ req.sibbase \in 0..7
    BY DEF ReqType
  <1>2. ModrmOut \in 0..255 /\ SibOut \in 0..255
    BY <1>1 DEF ModrmOut, SibOut
  <1>3. call.form.opcode \in 0..255
    BY CallFields, FormFields
  <1>4. /\ OpcodeBytes \in Seq(Byte256) /\ Len(OpcodeBytes) = 2
        /\ OpcodeBytes[1] = call.form.opcode /\ OpcodeBytes[2] = ModrmOut
    BY <1>2, <1>3 DEF OpcodeBytes, Byte256
  <1>5. CASE req.has_sib
    <2>1. SibBytes = <<SibOut>> /\ SibLen = 1
      BY <1>5 DEF SibBytes, SibLen
    <2> QED
      BY <1>2, <1>4, <2>1 DEF Byte256
  <1>6. CASE ~req.has_sib
    <2>1. SibBytes = <<>> /\ SibLen = 0
      BY <1>6 DEF SibBytes, SibLen
    <2> QED
      BY <1>2, <1>4, <1>6, <2>1
  <1> QED
    BY <1>5, <1>6

LEMMA DispPart ==
    ASSUME Encoded
    PROVE  /\ Displacement \in Seq(Byte256) /\ Len(Displacement) = DispLen(call)
           /\ Displacement = LittleEndian(call.disp, DispLen(call))
  <1>1. Displacement = LittleEndian(call.disp, DispLen(call))
    BY EncodedIs, DisplacementIs
  <1>2. DispLen(call) \in {0, 1, 2, 4} /\ call.disp \in Int
    BY EncodedIs, CallFields, DispLenRange
  <1>3. CASE DispLen(call) = 0
    <2>1. Displacement = <<>>
      BY <1>1, <1>3, NoDisplacement, Zenon
    <2>2. <<>> \in Seq(Byte256) /\ Len(<<>>) = 0
      OBVIOUS
    <2> QED
      BY <1>1, <1>3, <2>1, <2>2, Zenon
  <1>4. CASE DispLen(call) \in {1, 2, 4}
    BY <1>1, <1>2, <1>4, BytesOf
  <1> QED
    BY <1>2, <1>3, <1>4

LEMMA BufferIs ==
    ASSUME Encoded
    PROVE  /\ itext \in Seq(Byte256) /\ Len(itext) = 15
           /\ \A i \in Nat : i < Len(emitted) => Byte(i) = emitted[i + 1]
  <1> DEFINE zeros == [i \in 1..(MaxInstructionBytes - Len(emitted)) |-> 0]
  <1>1. emitted \in Seq(Byte256) /\ Len(emitted) \in Nat /\ Len(emitted) <= 12
    BY EncodedIs
  <1>2. MaxInstructionBytes = 15
    BY MemopAssumption
  <1>3. zeros \in Seq(Byte256) /\ Len(zeros) = 15 - Len(emitted)
    BY <1>1, <1>2 DEF Byte256
  <1>4. itext = emitted \o zeros
    BY DEF Encoded, Buffer
  <1> HIDE DEF zeros
  <1>5. itext \in Seq(Byte256) /\ Len(itext) = Len(emitted) + Len(zeros)
        /\ \A i \in 1..Len(emitted) : itext[i] = emitted[i]
    BY <1>1, <1>3, <1>4, Catenated
  <1>6. Len(itext) = 15
    BY <1>1, <1>3, <1>5
  <1>7. ASSUME NEW i \in Nat, i < Len(emitted)  PROVE Byte(i) = emitted[i + 1]
    <2>1. i < Len(itext) /\ i + 1 \in 1..Len(emitted)
      BY <1>1, <1>6, <1>7
    <2> QED
      BY <1>5, <2>1 DEF Byte
  <1> QED
    BY <1>5, <1>6, <1>7

LEMMA Layout ==
    ASSUME Encoded
    PROVE  /\ Len(SegBytes) \in 0..1 /\ Len(PrefixBytes) \in Nat /\ Len(PrefixBytes) <= 4
           /\ Op \in Nat /\ Op <= 5 /\ SibLen \in 0..1 /\ DispLen(call) \in {0, 1, 2, 4}
           /\ Len(emitted) = DispAt + DispLen(call)
           /\ call.seg # NoReg => Byte(0) = SegPrefix(call.seg)
           /\ \A i \in 1..Len(PrefixBytes) : Byte(Len(SegBytes) + i - 1) = PrefixBytes[i]
           /\ Byte(Op) = call.form.opcode /\ Byte(Op + 1) = ModrmOut
           /\ req.has_sib => Byte(Op + 2) = SibOut
           /\ \A i \in 1..DispLen(call) :
                 Byte(DispAt + i - 1) = LittleEndian(call.disp, DispLen(call))[i]
  <1> DEFINE a == SegBytes
             b == PrefixBytes
             c == OpcodeBytes
             d == SibBytes
             e == Displacement
             na == Len(SegBytes)
             nb == Len(PrefixBytes)
             ne == DispLen(call)
  <1>1. call \in Calls /\ req \in ReqType /\ emitted = a \o b \o c \o d \o e
    BY EncodedIs
  <1>2. a \in Seq(Byte256) /\ b \in Seq(Byte256) /\ c \in Seq(Byte256) /\ d \in Seq(Byte256)
        /\ e \in Seq(Byte256)
    BY <1>1, SegPart, PrefixPart, OpcodePart, DispPart
  <1>3. Len(c) = 2 /\ Len(d) = SibLen /\ Len(e) = ne
    BY <1>1, OpcodePart, DispPart
  <1>4. na \in 0..1 /\ nb \in Nat /\ nb <= 4 /\ ne \in {0, 1, 2, 4} /\ SibLen \in 0..1
    <2>1. na = 0 \/ na = 1
      BY <1>1, SegPart
    <2>2. nb \in Nat /\ nb <= 4 /\ ne \in {0, 1, 2, 4}
      BY <1>1, PrefixPart, DispLenRange
    <2>3. SibLen \in 0..1
      BY DEF SibLen
    <2> HIDE DEF na, nb, ne
    <2> QED
      BY <2>1, <2>2, <2>3
  <1>5. Op = na + nb /\ Op \in Nat /\ Op <= 5
    <2>1. Op = na + nb
      BY DEF Op
    <2> HIDE DEF na, nb
    <2> QED
      BY <1>4, <2>1
  <1>6. /\ Len(emitted) = na + nb + 2 + SibLen + ne
        /\ \A i \in 1..na : emitted[i] = a[i]
        /\ \A i \in 1..nb : emitted[na + i] = b[i]
        /\ \A i \in 1..2 : emitted[na + nb + i] = c[i]
        /\ \A i \in 1..SibLen : emitted[na + nb + 2 + i] = d[i]
        /\ \A i \in 1..ne : emitted[na + nb + 2 + SibLen + i] = e[i]
    <2> HIDE DEF a, b, c, d, e, na, nb, ne
    <2>1. /\ Len(emitted) = Len(a) + Len(b) + Len(c) + Len(d) + Len(e)
          /\ \A i \in 1..Len(a) : emitted[i] = a[i]
          /\ \A i \in 1..Len(b) : emitted[Len(a) + i] = b[i]
          /\ \A i \in 1..Len(c) : emitted[Len(a) + Len(b) + i] = c[i]
          /\ \A i \in 1..Len(d) : emitted[Len(a) + Len(b) + Len(c) + i] = d[i]
          /\ \A i \in 1..Len(e) : emitted[Len(a) + Len(b) + Len(c) + Len(d) + i] = e[i]
      <3>1. Parts(emitted, a, b, c, d, e)
        BY <1>1, <1>2, FiveParts, Zenon
      <3> QED
        BY <3>1, Zenon DEF Parts
    <2>2. Len(a) = na /\ Len(b) = nb
      BY DEF a, b, na, nb
    <2> QED
      BY <1>1, <1>3, <2>1, <2>2
  <1> HIDE DEF na, nb, ne
  <1>7. \A i \in Nat : i < Len(emitted) => Byte(i) = emitted[i + 1]
    BY BufferIs
  <1>8. Len(emitted) = DispAt + ne
    BY <1>5, <1>6 DEF DispAt
  <1>9. call.seg # NoReg => Byte(0) = SegPrefix(call.seg)
    <2> SUFFICES ASSUME call.seg # NoReg PROVE Byte(0) = SegPrefix(call.seg)
      OBVIOUS
    <2>1. na = 1 /\ a[1] = SegPrefix(call.seg)
      BY <1>1, SegPart DEF na
    <2> HIDE DEF a
    <2>2. emitted[1] = a[1] /\ 0 < Len(emitted)
      BY <1>4, <1>6, <2>1
    <2>3. Byte(0) = emitted[0 + 1]
      BY <1>7, <2>2
    <2> QED
      BY <2>1, <2>2, <2>3
  <1> HIDE DEF a, b, c, d, e
  <1>10. \A i \in 1..nb : Byte(na + i - 1) = b[i]
    <2> TAKE i \in 1..nb
    <2>1. na + i - 1 \in Nat /\ na + i - 1 < Len(emitted) /\ (na + i - 1) + 1 = na + i
      BY <1>4, <1>6
    <2>2. Byte(na + i - 1) = emitted[na + i]
      BY <1>7, <2>1
    <2> QED
      BY <1>6, <2>2
  <1>11. Byte(Op) = call.form.opcode /\ Byte(Op + 1) = ModrmOut
    <2>1. Op \in Nat /\ Op + 1 \in Nat /\ Op + 1 < Len(emitted) /\ Op < Len(emitted) /\
          (Op + 1) + 1 = na + nb + 2
          /\ Op + 1 = na + nb + 1
      BY <1>4, <1>5, <1>6
    <2>2. Byte(Op) = emitted[na + nb + 1] /\ Byte(Op + 1) = emitted[na + nb + 2]
      BY <1>7, <2>1
    <2>3. emitted[na + nb + 1] = c[1] /\ emitted[na + nb + 2] = c[2]
      BY <1>6
    <2>4. c[1] = call.form.opcode /\ c[2] = ModrmOut
      BY <1>1, OpcodePart DEF c
    <2> QED
      BY <2>2, <2>3, <2>4
  <1>12. req.has_sib => Byte(Op + 2) = SibOut
    <2> SUFFICES ASSUME req.has_sib PROVE Byte(Op + 2) = SibOut
      OBVIOUS
    <2>1. SibLen = 1 /\ d[1] = SibOut
      BY <1>1, OpcodePart DEF SibLen, d
    <2>2. Op + 2 \in Nat /\ Op + 2 < Len(emitted) /\ (Op + 2) + 1 = na + nb + 2 + 1
      BY <1>4, <1>5, <1>6, <2>1
    <2>3. Byte(Op + 2) = emitted[na + nb + 2 + 1]
      BY <1>7, <2>2
    <2>4. emitted[na + nb + 2 + 1] = d[1]
      BY <1>6, <2>1
    <2> QED
      BY <2>1, <2>3, <2>4
  <1>13. \A i \in 1..ne : Byte(DispAt + i - 1) = LittleEndian(call.disp, ne)[i]
    <2> TAKE i \in 1..ne
    <2>1. DispAt + i - 1 \in Nat /\ DispAt + i - 1 < Len(emitted)
          /\ (DispAt + i - 1) + 1 = na + nb + 2 + SibLen + i
      BY <1>4, <1>5, <1>6, <1>8 DEF DispAt
    <2>2. Byte(DispAt + i - 1) = emitted[na + nb + 2 + SibLen + i]
      BY <1>7, <2>1
    <2>3. e = LittleEndian(call.disp, ne)
      BY DispPart DEF e, ne
    <2> QED
      BY <1>6, <2>2, <2>3
  <1> QED
    BY <1>4, <1>5, <1>8, <1>9, <1>10, <1>11, <1>12, <1>13 DEF na, nb, ne, b

-----------------------------------------------------------------------------
(***************************************************************************)
(* Each form's prefix and opcode as the bytes a scanner will meet.         *)
(***************************************************************************)

(* the prefixes the length decoder tells apart *)
Wide == call.form.space = Legacy /\ call.form.rex2 /\ Rxb4 # 0
RexOut == call.form.space = Legacy /\ ~Wide /\ Rxb # 0
TwoByteVex == call.form.map = 1 /\ (call.mode = Mode64 => req.rexx = 0 /\ req.rexb = 0)
Pre == Len(SegBytes) + (IF RexOut THEN 1 ELSE 0)

LEMMA RxbRange ==
    ASSUME Encoded
    PROVE  /\ Rxb \in 0..7 /\ Rxb4 \in 0..7
           /\ call.mode # Mode64 => Rxb = 0 /\ Rxb4 = 0
           /\ Wide \/ RexOut => call.mode = Mode64
           /\ call.form.space = Legacy /\ ~call.form.rex2 => Rxb4 = 0
  <1>1. Rxb \in 0..7 /\ Rxb4 \in 0..7
    BY RequestBits DEF Rxb, Rxb4
  <1>2. call.mode # Mode64 => Rxb = 0 /\ Rxb4 = 0
    BY RequestBits DEF Rxb, Rxb4
  <1>3. call.form.space = Legacy /\ ~call.form.rex2 => Rxb4 = 0
    BY RequestBits DEF Rxb4
  <1>4. Wide \/ RexOut => call.mode = Mode64
    BY <1>2, Zenon DEF Wide, RexOut
  <1> QED
    BY <1>1, <1>2, <1>3, <1>4

LEMMA FormIs ==
    ASSUME Encoded
    PROVE  /\ call.form \in Forms /\ PlainForm(call.form)
           /\ call.form.space \in {Legacy, Vex, Evex} /\ call.form.map \in 0..7
           /\ call.form.opcode \in 0..255
           /\ call.form.space = Legacy =>
                 /\ call.form.map \in 0..2 /\ (call.form.rex2 => call.form.map <= 1)
                 /\ call.form.map = 0 => call.form.opcode \notin PrefixOpcodes
                 /\ call.form.map = 1 => EscapeMap(call.form.opcode) = 1
           /\ call.form.space = Vex => call.form.map \in {1, 2, 5}
           /\ call.form.space = Evex => call.form.map \in {1, 2, 4, 5, 6, 7}
  <1> DEFINE f == call.form
  <1>1. f \in Forms /\ PlainForm(f)
    BY EncodedIs, Arguments, Zenon
  <1>2. f.space \in {Legacy, Vex, Evex} /\ f.map \in 0..7 /\ f.opcode \in 0..255
        /\ (f.space = Legacy => f.map <= 3)
    BY <1>1, FormFields
  <1>3. LET info == MapInfo(f.space, f.map)
        IN  info.modrm # No /\ (info.imm = 0 \/ info.imm = ImmVar)
    BY <1>1, Zenon DEF PlainForm
  <1>4. /\ f.space = Legacy => (f.rex2 => f.map <= 1)
        /\ f.space = Legacy /\ f.map = 0 => f.opcode \notin PrefixOpcodes
        /\ f.space = Legacy /\ f.map = 1 => EscapeMap(f.opcode) = 1
    BY <1>1, Zenon DEF PlainForm
  <1> HIDE DEF f
  <1>5. f.space = Legacy => f.map \in 0..2
    <2>1. MapInfo(Legacy, 3) = Info(Yes, No, 1)
      BY DEF MapInfo, Legacy, Vex, Evex, Xop, Amd3DNow
    <2>2. MapInfo(Legacy, 3).imm = 1 /\ ImmVar = 7
      BY <2>1 DEF Info, ImmVar
    <2> QED
      BY <1>2, <1>3, <2>2
  <1>6. f.space = Vex => f.map \in {1, 2, 5}
    <2>1. \A m \in {0, 4, 6} : MapInfo(Vex, m).modrm = No
      BY DEF MapInfo, Legacy, Vex, Evex, Xop, Amd3DNow, NoInfo, Info, No
    <2>2. MapInfo(Vex, 3).imm = 1 /\ MapInfo(Vex, 7).imm = 4 /\ ImmVar = 7
      BY DEF MapInfo, Legacy, Vex, Evex, Xop, Amd3DNow, NoInfo, Info, ImmVar
    <2> QED
      BY <1>2, <1>3, <2>1, <2>2
  <1>7. f.space = Evex => f.map \in {1, 2, 4, 5, 6, 7}
    <2>1. MapInfo(Evex, 0).modrm = No
      BY DEF MapInfo, Legacy, Vex, Evex, Xop, Amd3DNow, NoInfo, Info, No
    <2>2. MapInfo(Evex, 3).imm = 1 /\ ImmVar = 7
      BY DEF MapInfo, Legacy, Vex, Evex, Xop, Amd3DNow, NoInfo, Info, ImmVar
    <2> QED
      BY <1>2, <1>3, <2>1, <2>2
  <1> QED
    BY <1>1, <1>2, <1>4, <1>5, <1>6, <1>7 DEF f

LEMMA LegacyParts ==
    ASSUME Encoded, call.form.space = Legacy
    PROVE  LET front == IF Wide THEN Rex2Prefix ELSE IF RexOut THEN Rex ELSE <<>>
               back == IF Wide \/ call.form.map = 0 THEN <<>>
                       ELSE IF call.form.map = 1 THEN <<\h0F>> ELSE <<\h0F, \h38>>
           IN  PrefixBytes = front \o back
  <1> DEFINE front == IF Wide THEN Rex2Prefix ELSE IF RexOut THEN Rex ELSE <<>>
             back == IF Wide \/ call.form.map = 0 THEN <<>>
                     ELSE IF call.form.map = 1 THEN <<\h0F>> ELSE <<\h0F, \h38>>
             wide == call.form.rex2 /\ Rxb4 # 0
             prefix == IF wide /\ call.form.map <= 1 THEN Rex2Prefix
                       ELSE IF Rxb # 0 THEN Rex ELSE <<>>
             escape == CASE call.form.map = 0 -> <<>>
                    [] call.form.map = 1 -> IF wide THEN <<>> ELSE <<\h0F>>
                    [] call.form.map = 2 -> <<\h0F, \h38>>
                    [] call.form.map = 3 -> <<\h0F, \h3A>>
  <1>1. PrefixBytes = (IF call.mode = Mode64 THEN prefix ELSE <<>>) \o escape
    <2>1. PrefixBytes = LegacyPrefix
      <3>1. Vex # Legacy /\ Evex # Legacy
        BY DEF Legacy, Vex, Evex
      <3> QED
        BY <3>1, Zenon DEF PrefixBytes
    <2> QED
      BY <2>1, Zenon DEF LegacyPrefix
  <1>2. Wide <=> wide
    BY Zenon DEF Wide
  <1>3. RexOut <=> ~wide /\ Rxb # 0
    BY <1>2, Zenon DEF RexOut
  <1>4. (IF call.mode = Mode64 THEN prefix ELSE <<>>) = front
    <2>1. wide => call.form.map <= 1
      BY FormIs, Zenon
    <2>2. call.mode # Mode64 => ~wide /\ Rxb = 0
      BY RxbRange, Zenon
    <2> QED
      BY <1>2, <1>3, <2>1, <2>2, Zenon
  <1>5. escape = back
    <2>1. wide => call.form.map <= 1
      BY FormIs, Zenon
    <2>2. call.form.map = 0 \/ call.form.map = 1 \/ call.form.map = 2
      BY FormIs
    <2>3. CASE call.form.map = 0
      <3>1. escape = <<>>
        BY <2>3
      <3> QED
        BY <2>3, <3>1, Zenon
    <2>4. CASE call.form.map = 1
      <3>1. escape = (IF wide THEN <<>> ELSE <<\h0F>>)
        BY <2>4
      <3>2. call.form.map # 0
        BY <2>4
      <3> QED
        BY <1>2, <2>4, <3>1, <3>2, Zenon
    <2>5. CASE call.form.map = 2
      <3>1. escape = <<\h0F, \h38>>
        BY <2>5
      <3>2. call.form.map # 0 /\ call.form.map # 1 /\ ~(call.form.map <= 1)
        BY <2>5
      <3> QED
        BY <1>2, <2>1, <3>1, <3>2, Zenon
    <2> QED
      BY <2>2, <2>3, <2>4, <2>5
  <1> QED
    BY <1>1, <1>4, <1>5, Zenon

LEMMA LegacyLayout ==
    ASSUME Encoded, call.form.space = Legacy
    PROVE  /\ RexOut => Byte(Len(SegBytes)) = 64 + Rxb
           /\ ~Wide /\ call.form.map = 0 => Op = Pre
           /\ ~Wide /\ call.form.map = 1 => Op = Pre + 1 /\ Byte(Pre) = \h0F
           /\ ~Wide /\ call.form.map = 2 => Op = Pre + 2 /\ Byte(Pre) = \h0F /\ Byte(Pre + 1) = \h38
           /\ Wide => /\ Op = Pre + 2 /\ Byte(Pre) = \hD5 /\ call.form.map \in 0..1
                      /\ Byte(Pre + 1) = 128 * call.form.map + 16 * Rxb4 + Rxb
  <1> DEFINE map == call.form.map
             front == IF Wide THEN Rex2Prefix ELSE IF RexOut THEN Rex ELSE <<>>
             back == IF Wide \/ map = 0 THEN <<>> ELSE IF map = 1 THEN <<\h0F>> ELSE <<\h0F, \h38>>
             ns == Len(SegBytes)
             nf == IF Wide THEN 2 ELSE IF RexOut THEN 1 ELSE 0
             nb == IF Wide \/ map = 0 THEN 0 ELSE IF map = 1 THEN 1 ELSE 2
             payload == 128 * map + 16 * Rxb4 + Rxb
  <1>1. Rxb \in 0..7 /\ Rxb4 \in 0..7 /\ map \in 0..2 /\ (Wide => map \in 0..1)
    <2>1. Rxb \in 0..7 /\ Rxb4 \in 0..7 /\ map \in 0..2 /\ (Wide => map <= 1)
      BY RxbRange, FormIs DEF Wide
    <2> QED
      BY <2>1
  <1>2. front \in Seq(Byte256) /\ Len(front) = nf
        /\ (Wide => front[1] = \hD5 /\ front[2] = payload)
        /\ (~Wide /\ RexOut => front[1] = 64 + Rxb)
    <2>1. CASE Wide
      <3>1. payload \in 0..255 /\ \hD5 \in 0..255
        BY <1>1, <2>1
      <3>2. front = <<\hD5, payload>> /\ nf = 2
        BY <2>1 DEF Rex2Prefix
      <3> HIDE DEF payload, front, nf
      <3> QED
        BY <2>1, <3>1, <3>2 DEF Byte256
    <2>2. CASE ~Wide /\ RexOut
      <3>1. front = <<64 + Rxb>> /\ nf = 1 /\ 64 + Rxb \in 0..255
        BY <1>1, <2>2 DEF Rex
      <3> HIDE DEF front, nf
      <3> QED
        BY <2>2, <3>1 DEF Byte256
    <2>3. CASE ~Wide /\ ~RexOut
      <3>1. front = <<>> /\ nf = 0
        BY <2>3, Zenon
      <3> HIDE DEF front, nf
      <3> QED
        BY <2>3, <3>1
    <2> QED
      BY <2>1, <2>2, <2>3
  <1>3. back \in Seq(Byte256) /\ Len(back) = nb
        /\ (~Wide /\ map \in 1..2 => back[1] = \h0F) /\ (~Wide /\ map = 2 => back[2] = \h38)
    <2>1. CASE Wide \/ map = 0
      <3>1. back = <<>> /\ nb = 0
        BY <2>1
      <3> HIDE DEF back, nb
      <3> QED
        BY <2>1, <3>1
    <2>2. CASE ~Wide /\ map = 1
      <3>1. back = <<\h0F>> /\ nb = 1
        BY <2>2
      <3> HIDE DEF back, nb
      <3> QED
        BY <2>2, <3>1 DEF Byte256
    <2>3. CASE ~Wide /\ map = 2
      <3>1. back = <<\h0F, \h38>> /\ nb = 2
        BY <2>3
      <3> HIDE DEF back, nb
      <3> QED
        BY <2>3, <3>1 DEF Byte256
    <2> QED
      BY <1>1, <2>1, <2>2, <2>3
  <1>4. PrefixBytes = front \o back
    BY LegacyParts, Zenon
  <1> HIDE DEF front, back, payload
  <1>5. /\ Len(PrefixBytes) = Len(front) + Len(back)
        /\ \A i \in 1..Len(front) : PrefixBytes[i] = front[i]
        /\ \A i \in 1..Len(back) : PrefixBytes[Len(front) + i] = back[i]
    <2> DEFINE both == front \o back
    <2>1. /\ Len(both) = Len(front) + Len(back)
          /\ \A i \in 1..Len(front) : both[i] = front[i]
          /\ \A i \in 1..Len(back) : both[Len(front) + i] = back[i]
      <3>1. front \in Seq(Byte256) /\ back \in Seq(Byte256)
        BY <1>2, <1>3, Zenon
      <3> QED
        BY <3>1, Catenated, Zenon
    <2> QED
      BY <1>4, <2>1, Zenon
  <1>6. /\ ns \in 0..1 /\ Op = ns + Len(PrefixBytes)
        /\ \A i \in 1..Len(PrefixBytes) : Byte(ns + i - 1) = PrefixBytes[i]
    BY Layout, Zenon DEF Op
  <1>7. Pre = ns + (IF RexOut THEN 1 ELSE 0)
    BY DEF Pre
  <1> HIDE DEF ns, map
  <1>8. CASE Wide
    <2>1. ~RexOut
      BY <1>8 DEF RexOut
    <2>2. Len(front) = 2 /\ Len(back) = 0 /\ Len(PrefixBytes) = 2 /\ Op = ns + 2 /\ Pre = ns
      BY <1>2, <1>3, <1>5, <1>6, <1>7, <1>8, <2>1
    <2>3. PrefixBytes[1] = \hD5 /\ PrefixBytes[2] = payload
      BY <1>2, <1>5, <1>8, <2>2
    <2>4. Byte(ns + 1 - 1) = PrefixBytes[1] /\ Byte(ns + 2 - 1) = PrefixBytes[2]
      BY <1>6, <2>2
    <2>5. ns + 1 - 1 = ns /\ ns + 2 - 1 = ns + 1
      BY <1>6
    <2> QED
      BY <1>1, <1>8, <2>1, <2>2, <2>3, <2>4, <2>5 DEF payload, map
  <1>9. CASE ~Wide
    <2>1. Len(front) = (IF RexOut THEN 1 ELSE 0) /\ Pre = ns + Len(front)
      BY <1>2, <1>7, <1>9
    <2>2. Op = Pre + Len(back)
      BY <1>5, <1>6, <1>2, <1>3, <2>1
    <2>3. RexOut => Byte(ns) = 64 + Rxb
      <3> SUFFICES ASSUME RexOut  PROVE Byte(ns) = 64 + Rxb
        OBVIOUS
      <3>1. PrefixBytes[1] = 64 + Rxb /\ 1 \in 1..Len(PrefixBytes)
        BY <1>2, <1>3, <1>5, <1>9, <2>1
      <3>2. Byte(ns + 1 - 1) = PrefixBytes[1]
        BY <1>6, <3>1
      <3>3. ns + 1 - 1 = ns
        BY <1>6
      <3> QED
        BY <3>1, <3>2, <3>3
    <2>4. \A i \in 1..Len(back) : Byte(Pre + i - 1) = back[i]
      <3> TAKE i \in 1..Len(back)
      <3>1. Len(front) + i \in 1..Len(PrefixBytes) /\ Pre + i - 1 = ns + (Len(front) + i) - 1
        BY <1>2, <1>3, <1>5, <1>6, <2>1
      <3>2. Byte(ns + (Len(front) + i) - 1) = PrefixBytes[Len(front) + i]
        BY <1>6, <3>1
      <3> QED
        BY <1>5, <3>1, <3>2
    <2>5. Pre + 1 - 1 = Pre /\ Pre + 2 - 1 = Pre + 1 /\ Pre \in Nat
      BY <1>6, <2>1
    <2>6. CASE map = 0
      BY <1>3, <1>9, <2>2, <2>3, <2>5, <2>6 DEF map, ns
    <2>7. CASE map = 1
      <3>1. Len(back) = 1 /\ Byte(Pre + 1 - 1) = back[1]
        BY <1>3, <1>9, <2>4, <2>7
      <3> QED
        BY <1>3, <1>9, <2>2, <2>3, <2>5, <2>7, <3>1 DEF map, ns
    <2>8. CASE map = 2
      <3>1. Len(back) = 2 /\ Byte(Pre + 1 - 1) = back[1] /\ Byte(Pre + 2 - 1) = back[2]
        BY <1>3, <1>9, <2>4, <2>8
      <3> QED
        BY <1>3, <1>9, <2>2, <2>3, <2>5, <2>8, <3>1 DEF map, ns
    <2> QED
      BY <1>1, <2>6, <2>7, <2>8
  <1> QED
    BY <1>8, <1>9

LEMMA VectorLayout ==
    ASSUME Encoded
    PROVE  /\ call.form.space # Legacy => Pre = Len(SegBytes)
           /\ call.form.space = Vex /\ TwoByteVex =>
                 Op = Pre + 2 /\ Byte(Pre) = \hC5 /\ Byte(Pre + 1) = 128 * (1 - req.rexr) + \h78
           /\ call.form.space = Vex /\ ~TwoByteVex =>
                 /\ Op = Pre + 3 /\ Byte(Pre) = \hC4
                 /\ Byte(Pre + 1) = 32 * (7 - Rxb) + call.form.map /\ Byte(Pre + 2) = \h78
           /\ call.form.space = Evex =>
                 /\ Op = Pre + 4 /\ Byte(Pre) = \h62
                 /\ Byte(Pre + 1) = 32 * (7 - Rxb) + 16 * (1 - req.rexr4) + 8 * req.rexb4 + call.form.map
                 /\ Byte(Pre + 2) = \h78 + 4 * (1 - req.rexx4)
                 /\ Byte(Pre + 3) = 8 * (1 - req.evexvv)
  <1> DEFINE ns == Len(SegBytes)
             b == PrefixBytes
  <1>1. ns \in 0..1 /\ Op = ns + Len(b) /\ \A i \in 1..Len(b) : Byte(ns + i - 1) = b[i]
    BY Layout, Zenon DEF Op
  <1>2. call.form.space # Legacy => Pre = ns
    <2>1. call.form.space # Legacy => ~RexOut
      BY DEF RexOut
    <2> QED
      BY <1>1, <2>1 DEF Pre
  <1>3. ns + 1 - 1 = ns /\ ns + 2 - 1 = ns + 1 /\ ns + 3 - 1 = ns + 2 /\ ns + 4 - 1 = ns + 3
    BY <1>1
  <1>4. Vex # Legacy /\ Evex # Legacy /\ Vex # Evex
    BY DEF Legacy, Vex, Evex
  <1>5. CASE call.form.space = Vex /\ TwoByteVex
    <2>1. b = <<\hC5, 128 * (1 - req.rexr) + \h78>>
      <3>1. b = VexPrefix
        BY <1>4, <1>5, Zenon DEF PrefixBytes
      <3> QED
        BY <1>5, <3>1, Zenon DEF VexPrefix, TwoByteVex
    <2> HIDE DEF b, ns
    <2>2. Len(b) = 2 /\ b[1] = \hC5 /\ b[2] = 128 * (1 - req.rexr) + \h78
      BY <2>1
    <2>3. Byte(ns + 1 - 1) = b[1] /\ Byte(ns + 2 - 1) = b[2]
      BY <1>1, <2>2
    <2>4. Op = ns + 2
      BY <1>1, <2>2
    <2>5. Pre = ns
      BY <1>2, <1>4, <1>5, Zenon
    <2> QED
      BY <1>3, <1>4, <1>5, <2>2, <2>3, <2>4, <2>5 DEF ns
  <1>6. CASE call.form.space = Vex /\ ~TwoByteVex
    <2>1. b = <<\hC4, 32 * (7 - Rxb) + call.form.map, \h78>>
      <3>1. b = VexPrefix
        BY <1>4, <1>6, Zenon DEF PrefixBytes
      <3> QED
        BY <1>6, <3>1, Zenon DEF VexPrefix, TwoByteVex
    <2> HIDE DEF b, ns
    <2>2. Len(b) = 3 /\ b[1] = \hC4 /\ b[2] = 32 * (7 - Rxb) + call.form.map /\ b[3] = \h78
      BY <2>1
    <2>3. Byte(ns + 1 - 1) = b[1] /\ Byte(ns + 2 - 1) = b[2] /\ Byte(ns + 3 - 1) = b[3]
      BY <1>1, <2>2
    <2>4. Op = ns + 3
      BY <1>1, <2>2
    <2>5. Pre = ns
      BY <1>2, <1>4, <1>6, Zenon
    <2> QED
      BY <1>3, <1>4, <1>6, <2>2, <2>3, <2>4, <2>5 DEF ns
  <1>7. CASE call.form.space = Evex
    <2>1. b = <<\h62, 32 * (7 - Rxb) + 16 * (1 - req.rexr4) + 8 * req.rexb4 + call.form.map,
                \h78 + 4 * (1 - req.rexx4), 8 * (1 - req.evexvv)>>
      <3>1. b = EvexPrefix
        BY <1>4, <1>7, Zenon DEF PrefixBytes
      <3> QED
        BY <3>1, Zenon DEF EvexPrefix
    <2> HIDE DEF b, ns
    <2>2. /\ Len(b) = 4 /\ b[1] = \h62
          /\ b[2] = 32 * (7 - Rxb) + 16 * (1 - req.rexr4) + 8 * req.rexb4 + call.form.map
          /\ b[3] = \h78 + 4 * (1 - req.rexx4) /\ b[4] = 8 * (1 - req.evexvv)
      BY <2>1
    <2>3. Byte(ns + 1 - 1) = b[1] /\ Byte(ns + 2 - 1) = b[2] /\ Byte(ns + 3 - 1) = b[3]
          /\ Byte(ns + 4 - 1) = b[4]
      BY <1>1, <2>2
    <2>4. Op = ns + 4
      BY <1>1, <2>2
    <2> QED
      BY <1>2, <1>3, <1>4, <1>7, <2>2, <2>3, <2>4, ZenonT(30) DEF ns
  <1> QED
    BY <1>2, <1>4, <1>5, <1>6, <1>7, Zenon DEF ns

-----------------------------------------------------------------------------
(***************************************************************************)
(* The decoder asked for the bytes; the prefix scanner stops where the     *)
(* prefixes end.                                                           *)
(***************************************************************************)

(* a decode of what was emitted, on a chip that has everything *)
Offered ==
    /\ Encoded /\ max_bytes = MaxInstructionBytes
    /\ cfg \in Config /\ cfg.mode = call.mode
    /\ cfg.no_vex = 0 /\ cfg.no_evex = 0 /\ cfg.no_apx = 0

LEMMA AskedIs ==
    ASSUME Offered
    PROVE  /\ Encoded /\ Asked.max_bytes = 15 /\ Asked.cfg = cfg
           /\ \A i : ByteOf(Asked, i) = Byte(i)
           /\ In64(cfg) <=> call.mode = Mode64
           /\ HasApx(cfg) <=> call.mode = Mode64
           /\ HasAvx512(cfg) /\ cfg.no_vex # 1 /\ cfg.mode = call.mode
           /\ call.mode \in {0, 1, 2}
           /\ Pre \in 0..2 /\ Op \in Nat /\ Pre <= Op /\ Op <= 5
           /\ Len(emitted) <= 12 /\ Len(emitted) = DispAt + DispLen(call)
           /\ DispAt = Op + 2 + SibLen /\ SibLen \in 0..1 /\ DispLen(call) \in {0, 1, 2, 4}
  <1>1. Encoded /\ Asked.max_bytes = 15 /\ Asked.cfg = cfg
    BY MemopAssumption, ScanFields DEF Offered
  <1>2. \A i : ByteOf(Asked, i) = Byte(i)
    BY ScanFields DEF ByteOf, Byte
  <1>3. (In64(cfg) <=> call.mode = Mode64) /\ (HasApx(cfg) <=> call.mode = Mode64)
        /\ HasAvx512(cfg) /\ cfg.no_vex # 1 /\ cfg.mode = call.mode
    BY DEF Offered, In64, HasApx, HasAvx512
  <1>4. call.mode \in {0, 1, 2}
    BY <1>1, EncodedIs, Arguments, Zenon
  <1>5. /\ Op \in Nat /\ Op <= 5 /\ Len(SegBytes) \in 0..1
        /\ Len(emitted) = DispAt + DispLen(call) /\ SibLen \in 0..1 /\
            DispLen(call) \in {0, 1, 2, 4}
    BY <1>1, Layout, Zenon
  <1>6. Pre \in 0..2
    <2> DEFINE ns == Len(SegBytes)
    <2>1. ns \in 0..1 /\ Pre = ns + (IF RexOut THEN 1 ELSE 0)
      BY <1>5 DEF Pre
    <2> HIDE DEF ns
    <2> QED
      BY <2>1
  <1>7. Pre <= Op
    <2>1. call.form.space \in {Legacy, Vex, Evex} /\
          (call.form.space = Legacy => call.form.map \in 0..2)
      BY <1>1, FormIs, Zenon
    <2>2. CASE call.form.space = Legacy
      <3>1. Op = Pre \/ Op = Pre + 1 \/ Op = Pre + 2
        BY <1>1, <2>1, <2>2, LegacyLayout
      <3> QED
        BY <1>6, <3>1
    <2>3. CASE call.form.space = Vex \/ call.form.space = Evex
      <3>1. Op = Pre + 2 \/ Op = Pre + 3 \/ Op = Pre + 4
        BY <1>1, <2>3, VectorLayout, Zenon
      <3> QED
        BY <1>6, <3>1
    <2> QED
      BY <2>1, <2>2, <2>3
  <1>8. Len(emitted) <= 12
    BY <1>1, EncodedIs, Zenon
  <1>9. DispAt = Op + 2 + SibLen
    BY DEF DispAt
  <1> QED
    BY <1>1, <1>2, <1>3, <1>4, <1>5, <1>6, <1>7, <1>8, <1>9

-----------------------------------------------------------------------------
(* What each scanner finds. *)
SegKeptOf ==
    IF call.seg = NoReg \/ (call.mode = Mode64 /\ call.seg \notin {44, 45})
        THEN 0 ELSE SegPrefix(call.seg)

NoLegacyPrefix(p) == p.asz = 0 /\ p.prefix66 = 0 /\ p.f2 = 0 /\ p.f3 = 0

PfxSoFar(p, n) ==
    /\ n <= Pre /\ p.nprefixes = n /\ NoLegacyPrefix(p) /\ p.rex = 0 /\ p.seg_ovd = 0
    /\ p.rexbyte = IF RexOut /\ n = Pre THEN 64 + Rxb ELSE 0
    /\ p.ild_seg = IF n = 0 THEN 0 ELSE SegKeptOf

PfxDone(p) ==
    /\ p.nprefixes = Pre /\ NoLegacyPrefix(p)
    /\ p.rexbyte = IF RexOut THEN 64 + Rxb ELSE 0
    /\ p.rex = IF RexOut THEN 1 ELSE 0
    /\ p.seg_ovd = IF SegKeptOf = 0 THEN 0 ELSE SegOvd(SegKeptOf)

NoVector(k) ==
    k.vexvalid = Legacy /\ k.rex2 = 0 /\ k.llrc = 0 /\ k.amd3dnow = FALSE /\ k.rexx4 = 0

FormKnown(k) ==
    /\ k.vexvalid = call.form.space /\ k.map = call.form.map /\ k.opcode = call.form.opcode
    /\ k.info = MapInfo(call.form.space, call.form.map)
    /\ k.rex2 = (IF Wide THEN 1 ELSE 0) /\ k.llrc = 0 /\ k.amd3dnow = FALSE

FormRead(k) ==
    /\ FormKnown(k) /\ k.rexx4 = 0
    /\ call.form.space = Evex => k.ubit = 1 - req.rexx4

MrmRead(m) == m.mod = req.mod /\ m.reg = req.reg /\ m.rm = req.rm /\ m.has_sib = req.has_sib

Clean(s) == s.error = "NONE" /\ s.out_of_bytes = FALSE /\ s.imd.imm_width = 0 /\
    s.imd.imm1_bytes = 0

AtPrefix(s) == s.pc = "prefix" /\ PfxSoFar(s.pfx, s.length) /\ NoVector(s.enc)
AtVex(s) == s.pc = "vex" /\ s.length = Pre /\ PfxDone(s.pfx) /\ NoVector(s.enc)
AtEvex(s) ==
    /\ s.pc = "evex" /\ PfxDone(s.pfx)
    /\ IF call.form.space = Vex THEN s.length = Op + 1 /\ FormRead(s.enc)
                                ELSE s.length = Pre /\ NoVector(s.enc)
AtCatchInvalid(s) ==
    /\ s.pc = "catch_invalid" /\ s.length = Op + 1 /\ PfxDone(s.pfx)
    /\ call.form.space # Legacy /\ FormRead(s.enc)
AtRex2(s) ==
    /\ s.pc = "rex2" /\ s.length = Pre /\ PfxDone(s.pfx) /\ NoVector(s.enc)
    /\ call.form.space = Legacy
AtOpcode(s) ==
    /\ s.pc = "opcode" /\ s.length = Pre /\ PfxDone(s.pfx) /\ NoVector(s.enc)
    /\ call.form.space = Legacy /\ ~Wide
AtModrm(s) ==
    /\ s.pc = "modrm" /\ s.length = Op + 1 /\ PfxDone(s.pfx) /\ FormRead(s.enc)
AtSib(s) ==
    /\ s.pc = "sib" /\ s.length = Op + 2 /\ PfxDone(s.pfx) /\ FormRead(s.enc)
    /\ MrmRead(s.mrm) /\ s.imd.disp_width = HasDispRegular(call.mode, req.mod, req.rm)
OperandRead(s) ==
    /\ PfxDone(s.pfx) /\ FormKnown(s.enc) /\ MrmRead(s.mrm)
    /\ req.has_sib => s.mrm.pos_sib = Op + 2
    /\ s.imd.disp_width = DispLen(call)
AtDisp(s) == s.pc = "disp" /\ s.length = DispAt /\ OperandRead(s) /\ FormRead(s.enc)
AllRead(s) ==
    /\ s.length = Len(emitted) /\ OperandRead(s)
    /\ DispLen(call) # 0 => s.imd.pos_disp = DispAt
AtImm(s) == s.pc = "imm" /\ AllRead(s) /\ FormRead(s.enc)
AtLateEvex(s) == s.pc = "late_evex" /\ AllRead(s) /\ FormRead(s.enc) /\ call.form.space = Evex
AtDone(s) == s.pc = "done" /\ AllRead(s) /\ (call.form.space = Evex => s.enc.rexx4 = req.rexx4)

ReadSoFar(s) ==
    /\ Clean(s)
    /\ \/ AtPrefix(s) \/ AtVex(s) \/ AtEvex(s) \/ AtCatchInvalid(s) \/ AtRex2(s) \/ AtOpcode(s)
       \/ AtModrm(s) \/ AtSib(s) \/ AtDisp(s) \/ AtImm(s) \/ AtLateEvex(s) \/ AtDone(s)

-----------------------------------------------------------------------------
LEMMA FirstByte ==
    ASSUME Encoded
    PROVE  Byte(Pre) \notin LegacyPrefixes \cup RexPrefixes
  <1>1. CASE call.form.space = Legacy /\ ~Wide /\ call.form.map = 0
    <2>1. Op = Pre /\ Byte(Op) = call.form.opcode
      BY <1>1, LegacyLayout, Layout, Zenon
    <2>2. call.form.opcode \notin PrefixOpcodes
      BY <1>1, FormIs, Zenon
    <2> QED
      BY <2>1, <2>2 DEF PrefixOpcodes
  <1>2. CASE ~(call.form.space = Legacy /\ ~Wide /\ call.form.map = 0)
    <2>1. call.form.space \in {Legacy, Vex, Evex} /\
          (call.form.space = Legacy => call.form.map \in 0..2)
      BY FormIs, Zenon
    <2>2. call.form.space = Legacy => Byte(Pre) \in {\h0F, \hD5}
      BY <1>2, <2>1, LegacyLayout
    <2>3. call.form.space = Vex => Byte(Pre) \in {\hC4, \hC5}
      BY VectorLayout
    <2>4. call.form.space = Evex => Byte(Pre) = \h62
      BY VectorLayout
    <2>5. Byte(Pre) \in {\h0F, \hD5, \hC4, \hC5, \h62}
      BY <2>1, <2>2, <2>3, <2>4
    <2> QED
      BY <2>5 DEF LegacyPrefixes, SegPrefixes, RexPrefixes
  <1> QED
    BY <1>1, <1>2

LEMMA EarlyByte ==
    ASSUME Encoded, NEW n \in Nat, n < Pre
    PROVE  \/ /\ n = 0 /\ call.seg \in 40..45 /\ Len(SegBytes) = 1
              /\ Byte(n) = SegPrefix(call.seg) /\ Byte(n) \in SegPrefixes
           \/ /\ n = Len(SegBytes) /\ n + 1 = Pre /\ RexOut /\ Byte(n) = 64 + Rxb
              /\ Byte(n) \in RexPrefixes /\ call.mode = Mode64
  <1>1. Len(SegBytes) \in 0..1 /\ Pre = Len(SegBytes) + (IF RexOut THEN 1 ELSE 0)
    BY Layout DEF Pre
  <1>2. CASE n < Len(SegBytes)
    <2>1. n = 0 /\ Len(SegBytes) = 1
      <3> DEFINE ns == Len(SegBytes)
      <3>1. ns \in 0..1 /\ n < ns
        BY <1>1, <1>2
      <3> HIDE DEF ns
      <3>2. n = 0 /\ ns = 1
        BY <3>1
      <3> QED
        BY <3>2 DEF ns
    <2>2. call \in Calls
      BY EncodedIs
    <2>3. call.seg # NoReg
      BY <2>1, <2>2, SegPart
    <2>4. call.seg \in 40..45
      BY <2>2, <2>3, CallFields
    <2>5. Byte(0) = SegPrefix(call.seg)
      BY <2>3, Layout, Zenon
    <2>6. SegPrefix(call.seg) \in SegPrefixes
      BY <2>4 DEF SegPrefix, SegPrefixes
    <2> QED
      BY <2>1, <2>4, <2>5, <2>6
  <1>3. CASE ~(n < Len(SegBytes))
    <2>1. RexOut /\ n = Len(SegBytes) /\ n + 1 = Pre
      BY <1>1, <1>3
    <2>2. call.form.space = Legacy /\ call.mode = Mode64 /\ Rxb \in 0..7
      BY <2>1, RxbRange DEF RexOut
    <2>3. Byte(n) = 64 + Rxb
      BY <2>1, <2>2, LegacyLayout, Zenon
    <2>4. Byte(n) \in RexPrefixes
      BY <2>2, <2>3 DEF RexPrefixes
    <2> QED
      BY <2>1, <2>2, <2>3, <2>4, Zenon
  <1> QED
    BY <1>2, <1>3

LEMMA PrefixStep ==
    ASSUME Offered, NEW s \in ScanType, Clean(s), AtPrefix(s)
    PROVE  LET t == Step(Asked, s) IN Clean(t) /\ (AtPrefix(t) \/ AtVex(t))
  <1> DEFINE n == s.length
             b == Byte(n)
             p == s.pfx
             t == Step(Asked, s)
             p1 == PfxCounted(cfg, p, b)
             p2 == PfxDerived(cfg, p)
             k2 == EncDerived(p, s.enc)
  <1>1. t = AfterPrefixScanner(Asked, s)
    BY DEF Step, AtPrefix
  <1>2. /\ Encoded /\ Asked.max_bytes = 15 /\ Asked.cfg = cfg /\ ByteOf(Asked, n) = b
        /\ In64(cfg) <=> call.mode = Mode64
        /\ Pre \in 0..2
    BY AskedIs, Zenon
  <1>3. n \in Nat /\ n <= Pre /\ p \in PfxType /\ s.enc \in EncType /\ s.imd \in ImdType /\
        PfxSoFar(p, n) /\ NoVector(s.enc)
    BY DEF AtPrefix, PfxSoFar, ScanType, Pos
  <1>4. CASE n < Pre
    <2>1. IsPrefixIn(cfg, b) /\ b \in SegPrefixes \cup RexPrefixes
      BY <1>2, <1>3, <1>4, EarlyByte DEF IsPrefixIn, LegacyPrefixes
    <2>2. t = With(Goes(s, "prefix", n + 1, n + 1), p1, s.enc, s.mrm, s.imd)
      BY <1>1, <1>2, <1>3, <1>4, <2>1 DEF AfterPrefixScanner
    <2>3. /\ t.pc = "prefix" /\ t.length = n + 1 /\ t.pfx = p1 /\ t.enc = s.enc /\ t.imd = s.imd
          /\ t.error = s.error /\ t.out_of_bytes = s.out_of_bytes
      BY <2>2 DEF With, Goes, State
    <2>4. PfxSoFar(p1, n + 1)
      <3>1. /\ p.nprefixes = n /\ p.asz = 0 /\ p.prefix66 = 0 /\ p.f2 = 0 /\ p.f3 = 0 /\ p.rex = 0
            /\ p.seg_ovd = 0 /\ p.ild_seg = (IF n = 0 THEN 0 ELSE SegKeptOf)
        BY <1>3 DEF PfxSoFar, NoLegacyPrefix
      <3>2. CASE n = 0 /\ call.seg \in 40..45 /\ Len(SegBytes) = 1 /\ b = SegPrefix(call.seg) /\
            b \in SegPrefixes
        <4>1. b \notin {\h66, \h67, \hF0, \hF2, \hF3} /\ b \notin RexPrefixes
          <5> HIDE DEF b
          <5> QED
            BY <3>2 DEF SegPrefixes, RexPrefixes
        <4>2. PfxAfter(cfg, p, b) = [p EXCEPT !.hint = HintAfter(cfg, p, b),
              !.ild_seg = SegAfter(cfg, p, b)]
          BY <3>2, <4>1 DEF PfxAfter
        <4>3. SegAfter(cfg, p, b) = SegKeptOf
          <5>1. p.ild_seg = 0 /\ call.seg # NoReg
            BY <3>1, <3>2 DEF NoReg
          <5>2. b \in {\h64, \h65} <=> call.seg \in {44, 45}
            BY <3>2 DEF SegPrefix
          <5> QED
            BY <1>2, <3>2, <5>1, <5>2, Zenon DEF SegAfter, SegKeptOf
        <4>4. /\ p1.nprefixes = n + 1 /\ p1.asz = p.asz /\ p1.prefix66 = p.prefix66 /\ p1.f2 = p.f2
              /\ p1.f3 = p.f3 /\ p1.rex = p.rex /\ p1.seg_ovd = p.seg_ovd /\ p1.ild_seg = SegKeptOf
              /\ p1.rexbyte = 0
          BY <1>3, <3>1, <4>1, <4>2, <4>3 DEF PfxCounted, PfxType
        <4>5. RexOut => n + 1 # Pre
          BY <3>2 DEF Pre
        <4>6. n + 1 <= Pre /\ n + 1 # 0
          BY <1>2, <1>3, <1>4
        <4> HIDE DEF p1
        <4> QED
          BY <3>1, <4>4, <4>5, <4>6, Zenon DEF PfxSoFar, NoLegacyPrefix
      <3>3. CASE n = Len(SegBytes) /\ n + 1 = Pre /\ RexOut /\ b = 64 + Rxb /\
            b \in RexPrefixes /\ call.mode = Mode64
        <4>1. b \notin SegPrefixes /\ b \notin {\h66, \h67, \hF0, \hF2, \hF3}
          <5> HIDE DEF b
          <5>1. b \in RexPrefixes
            BY <3>3
          <5> QED
            BY ONLY <5>1 DEF SegPrefixes, RexPrefixes
        <4>2. PfxAfter(cfg, p, b) = [p EXCEPT !.nrexes = p.nrexes + 1]
          BY <4>1 DEF PfxAfter
        <4>3. /\ p1.nprefixes = n + 1 /\ p1.asz = p.asz /\ p1.prefix66 = p.prefix66 /\ p1.f2 = p.f2
              /\ p1.f3 = p.f3 /\ p1.rex = p.rex /\ p1.seg_ovd = p.seg_ovd /\ p1.ild_seg = p.ild_seg
              /\ p1.rexbyte = b
          BY <1>3, <3>1, <3>3, <4>2 DEF PfxCounted, PfxType
        <4>4. n = 0 => SegKeptOf = 0
          <5> SUFFICES ASSUME n = 0  PROVE SegKeptOf = 0
            OBVIOUS
          <5>1. call.seg = NoReg
            BY <1>2, <3>3, EncodedIs, SegPart
          <5> QED
            BY <5>1 DEF SegKeptOf
        <4>5. n + 1 <= Pre /\ n + 1 # 0
          BY <1>2, <1>3, <1>4
        <4> HIDE DEF p1
        <4> QED
          BY <3>1, <3>3, <4>3, <4>4, <4>5, Zenon DEF PfxSoFar, NoLegacyPrefix
      <3> QED
        BY <1>2, <1>3, <1>4, <3>2, <3>3, EarlyByte
    <2> HIDE DEF t
    <2>5. Clean(t)
      BY <2>3 DEF Clean
    <2>6. AtPrefix(t)
      BY <1>3, <2>3, <2>4 DEF AtPrefix
    <2> QED
      BY <2>5, <2>6 DEF t
  <1>5. CASE n = Pre
    <2>1. ~IsPrefixIn(cfg, b)
      BY <1>2, <1>5, FirstByte DEF IsPrefixIn
    <2>2. t = Goes(With(s, p2, k2, s.mrm, s.imd), "vex", n, n + 1)
      BY <1>1, <1>2, <1>3, <1>5, <2>1 DEF AfterPrefixScanner
    <2>3. /\ t.pc = "vex" /\ t.length = n /\ t.pfx = p2 /\ t.enc = k2 /\ t.imd = s.imd
          /\ t.error = s.error /\ t.out_of_bytes = s.out_of_bytes
      BY <2>2 DEF With, Goes, State
    <2>4. k2.vexvalid = s.enc.vexvalid /\ k2.rex2 = s.enc.rex2 /\ k2.llrc = s.enc.llrc
          /\ k2.amd3dnow = s.enc.amd3dnow /\ k2.rexx4 = s.enc.rexx4
      BY <1>3 DEF EncDerived, EncType
    <2>5. PfxDone(p2)
      <3>1. /\ p.nprefixes = n /\ p.asz = 0 /\ p.prefix66 = 0 /\ p.f2 = 0 /\ p.f3 = 0 /\ p.rex = 0
            /\ p.seg_ovd = 0 /\ p.ild_seg = (IF n = 0 THEN 0 ELSE SegKeptOf)
            /\ p.rexbyte = (IF RexOut THEN 64 + Rxb ELSE 0)
        BY <1>3, <1>5 DEF PfxSoFar, NoLegacyPrefix
      <3>2. /\ p2.nprefixes = p.nprefixes /\ p2.asz = p.asz /\ p2.prefix66 = p.prefix66 /\
               p2.f2 = p.f2
            /\ p2.f3 = p.f3 /\ p2.rexbyte = p.rexbyte
            /\ p2.rex = (IF p.rexbyte # 0 THEN 1 ELSE p.rex)
            /\ p2.seg_ovd = (IF p.ild_seg # 0 THEN SegOvd(p.ild_seg) ELSE p.seg_ovd)
        BY <1>3 DEF PfxDerived, PfxType
      <3>3. RexOut => 64 + Rxb # 0
        BY <1>2, RxbRange
      <3>4. n = 0 => SegKeptOf = 0
        <4> SUFFICES ASSUME n = 0  PROVE SegKeptOf = 0
          OBVIOUS
        <4>1. Len(SegBytes) = 0
          BY <1>2, <1>5, Layout DEF Pre
        <4>2. call.seg = NoReg
          BY <1>2, <4>1, EncodedIs, SegPart
        <4> QED
          BY <4>2 DEF SegKeptOf
      <3>5. p2.rex = (IF RexOut THEN 1 ELSE 0)
        BY <3>1, <3>2, <3>3
      <3>6. p2.seg_ovd = IF SegKeptOf = 0 THEN 0 ELSE SegOvd(SegKeptOf)
        BY <3>1, <3>2, <3>4
      <3> HIDE DEF p2
      <3> QED
        BY <1>5, <3>1, <3>2, <3>5, <3>6, Zenon DEF PfxDone, NoLegacyPrefix
    <2> HIDE DEF t, k2
    <2>6. Clean(t)
      BY <2>3 DEF Clean
    <2>7. AtVex(t)
      BY <1>3, <1>5, <2>3, <2>4, <2>5 DEF AtVex, NoVector
    <2> QED
      BY <2>6, <2>7 DEF t
  <1> QED
    BY <1>2, <1>3, <1>4, <1>5

-----------------------------------------------------------------------------
(***************************************************************************)
(* The bits a scanner takes back from VEX, EVEX, REX and REX2 bytes; the   *)
(* VEX scanner.                                                            *)
(***************************************************************************)

(* the bits of the bytes of a prefix *)
LEMMA VexBytes ==
    ASSUME NEW m \in 0..7, NEW r \in 0..1, NEW x \in 0..1, NEW b \in 0..1
    PROVE  LET rxb == 4 * r + 2 * x + b
               two == 128 * (1 - r) + \h78
               three == 32 * (7 - rxb) + m
           IN  /\ Bits(two, 7, 1) = 1 - r /\ (r = 0 => Bits(two, 6, 2) = 3)
               /\ Bits(three, 0, 5) = m /\ Bits(three, 7, 1) = 1 - r /\ Bits(three, 6, 1) = 1 - x
               /\ Bits(three, 5, 1) = 1 - b /\ (rxb = 0 => Bits(three, 6, 2) = 3)
  <1>1. (r = 0 \/ r = 1) /\ (x = 0 \/ x = 1) /\ (b = 0 \/ b = 1)
    OBVIOUS
  <1>2. 2^0 = 1 /\ 2^1 = 2 /\ 2^2 = 4 /\ 2^5 = 32 /\ 2^6 = 64 /\ 2^7 = 128
    OBVIOUS
  <1> QED
    BY <1>1, <1>2 DEF Bits

EvexBitsAre(p1, p2, p3, m, r, x, b, r4, b4, x4, v4) ==
    /\ Bits(p1, 0, 3) = m /\ (b4 = 0 => Bits(p1, 0, 4) = m)
    /\ Bits(p1, 7, 1) = 1 - r /\ Bits(p1, 6, 1) = 1 - x /\ Bits(p1, 5, 1) = 1 - b
    /\ Bits(p1, 4, 1) = 1 - r4 /\ Bits(p1, 3, 1) = b4
    /\ (4 * r + 2 * x + b = 0 => Bits(p1, 6, 2) = 3)
    /\ Bits(p2, 0, 2) = 0 /\ Bits(p2, 2, 1) = 1 - x4
    /\ Bits(p3, 0, 3) = 0 /\ Bits(p3, 3, 1) = 1 - v4 /\ Bits(p3, 4, 1) = 0
    /\ Bits(p3, 5, 2) = 0 /\ Bits(p3, 7, 1) = 0

LEMMA EvexBytes ==
    ASSUME NEW m \in 0..7, NEW r \in 0..1, NEW x \in 0..1, NEW b \in 0..1,
           NEW r4 \in 0..1, NEW b4 \in 0..1, NEW x4 \in 0..1, NEW v4 \in 0..1,
           NEW p1, p1 = 32 * (7 - (4 * r + 2 * x + b)) + 16 * (1 - r4) + 8 * b4 + m,
           NEW p2, p2 = \h78 + 4 * (1 - x4), NEW p3, p3 = 8 * (1 - v4)
    PROVE  EvexBitsAre(p1, p2, p3, m, r, x, b, r4, b4, x4, v4)
  <1>1. /\ (r = 0 \/ r = 1) /\ (x = 0 \/ x = 1) /\ (b = 0 \/ b = 1)
        /\ (r4 = 0 \/ r4 = 1) /\ (b4 = 0 \/ b4 = 1) /\ (x4 = 0 \/ x4 = 1) /\ (v4 = 0 \/ v4 = 1)
    OBVIOUS
  <1>2. 2^0 = 1 /\ 2^1 = 2 /\ 2^2 = 4 /\ 2^3 = 8 /\ 2^4 = 16 /\ 2^5 = 32 /\ 2^6 = 64 /\ 2^7 = 128
    OBVIOUS
  <1> DEFINE rxb == 4 * r + 2 * x + b
  <1>3. rxb \in 0..7 /\ 7 - rxb = 4 * (1 - r) + 2 * (1 - x) + (1 - b)
    BY <1>1
  <1>4. p1 \div 1 = p1 /\ p1 % 8 = m /\ (b4 = 0 => p1 % 16 = m)
    BY <1>1
  <1>5. (p1 \div 128) % 2 = 1 - r /\ (p1 \div 64) % 2 = 1 - x /\ (p1 \div 32) % 2 = 1 - b
    BY <1>1
  <1>6. (p1 \div 16) % 2 = 1 - r4 /\ (p1 \div 8) % 2 = b4 /\ (rxb = 0 => (p1 \div 64) % 4 = 3)
    BY <1>1
  <1>7. (p2 \div 1) % 4 = 0 /\ (p2 \div 4) % 2 = 1 - x4
    BY <1>1
  <1>8. (p3 \div 1) % 8 = 0 /\ (p3 \div 8) % 2 = 1 - v4 /\ (p3 \div 16) % 2 = 0
        /\ (p3 \div 32) % 4 = 0 /\ (p3 \div 128) % 2 = 0
    BY <1>1
  <1>9. /\ Bits(p1, 0, 3) = m /\ (b4 = 0 => Bits(p1, 0, 4) = m)
        /\ Bits(p1, 7, 1) = 1 - r /\ Bits(p1, 6, 1) = 1 - x /\ Bits(p1, 5, 1) = 1 - b
        /\ Bits(p1, 4, 1) = 1 - r4 /\ Bits(p1, 3, 1) = b4 /\ (rxb = 0 => Bits(p1, 6, 2) = 3)
    BY <1>2, <1>4, <1>5, <1>6 DEF Bits
  <1>10. Bits(p2, 0, 2) = 0 /\ Bits(p2, 2, 1) = 1 - x4
    BY <1>2, <1>7 DEF Bits
  <1>11. /\ Bits(p3, 0, 3) = 0 /\ Bits(p3, 3, 1) = 1 - v4 /\ Bits(p3, 4, 1) = 0
         /\ Bits(p3, 5, 2) = 0 /\ Bits(p3, 7, 1) = 0
    BY <1>2, <1>8 DEF Bits
  <1> QED
    BY <1>9, <1>10, <1>11 DEF EvexBitsAre

LEMMA Rex2Bytes ==
    ASSUME NEW m \in 0..1, NEW r \in 0..1, NEW x \in 0..1, NEW b \in 0..1,
           NEW r4 \in 0..1, NEW x4 \in 0..1, NEW b4 \in 0..1
    PROVE  LET p == 128 * m + 16 * (4 * r4 + 2 * x4 + b4) + (4 * r + 2 * x + b)
           IN  /\ Bits(p, 7, 1) = m /\ Bits(p, 6, 1) = r4 /\ Bits(p, 5, 1) = x4 /\
                  Bits(p, 4, 1) = b4
               /\ Bits(p, 2, 1) = r /\ Bits(p, 1, 1) = x /\ Bits(p, 0, 1) = b
  <1>1. /\ (r = 0 \/ r = 1) /\ (x = 0 \/ x = 1) /\ (b = 0 \/ b = 1) /\ (m = 0 \/ m = 1)
        /\ (r4 = 0 \/ r4 = 1) /\ (b4 = 0 \/ b4 = 1) /\ (x4 = 0 \/ x4 = 1)
    OBVIOUS
  <1>2. 2^0 = 1 /\ 2^1 = 2 /\ 2^2 = 4 /\ 2^4 = 16 /\ 2^5 = 32 /\ 2^6 = 64 /\ 2^7 = 128
    OBVIOUS
  <1> DEFINE p == 128 * m + 16 * (4 * r4 + 2 * x4 + b4) + (4 * r + 2 * x + b)
  <1>3. (p \div 128) % 2 = m /\ (p \div 64) % 2 = r4 /\ (p \div 32) % 2 = x4 /\ (p \div 16) % 2 = b4
    BY <1>1
  <1>4. (p \div 4) % 2 = r /\ (p \div 2) % 2 = x /\ (p \div 1) % 2 = b
    BY <1>1
  <1> HIDE DEF p
  <1> QED
    BY <1>2, <1>3, <1>4 DEF Bits, p

LEMMA RexBytes ==
    ASSUME NEW r \in 0..1, NEW x \in 0..1, NEW b \in 0..1, NEW base \in {0, 64}
    PROVE  LET p == base + (4 * r + 2 * x + b)
           IN  Bits(p, 2, 1) = r /\ Bits(p, 1, 1) = x /\ Bits(p, 0, 1) = b
  <1>1. (r = 0 \/ r = 1) /\ (x = 0 \/ x = 1) /\ (b = 0 \/ b = 1) /\ (base = 0 \/ base = 64)
    OBVIOUS
  <1>2. 2^0 = 1 /\ 2^1 = 2 /\ 2^2 = 4
    OBVIOUS
  <1> QED
    BY <1>1, <1>2 DEF Bits

-----------------------------------------------------------------------------
LEMMA VexNotThere ==
    ASSUME Encoded, call.form.space # Vex
    PROVE  Byte(Pre) \notin {\hC4, \hC5, \h8F}
  <1>1. call.form.space \in {Legacy, Vex, Evex} /\
        (call.form.space = Legacy => call.form.map \in 0..2)
    BY FormIs, Zenon
  <1>2. CASE call.form.space = Legacy /\ ~Wide /\ call.form.map = 0
    <2>1. Op = Pre /\ Byte(Op) = call.form.opcode
      BY <1>2, LegacyLayout, Layout, Zenon
    <2>2. call.form.opcode \notin PrefixOpcodes
      BY <1>2, FormIs, Zenon
    <2> QED
      BY <2>1, <2>2 DEF PrefixOpcodes, LesOpcodes
  <1>3. CASE call.form.space = Legacy /\ ~(~Wide /\ call.form.map = 0)
    <2>1. Byte(Pre) \in {\h0F, \hD5}
      BY <1>1, <1>3, LegacyLayout
    <2> QED
      BY <2>1
  <1>4. CASE call.form.space = Evex
    <2>1. Byte(Pre) = \h62
      BY <1>4, VectorLayout
    <2> QED
      BY <2>1
  <1> QED
    BY <1>1, <1>2, <1>3, <1>4

(* what an opcode put into the operands makes of them *)
LEMMA WithOpcodeReads ==
    ASSUME Offered, NEW k \in EncType,
           k.vexvalid = call.form.space, k.map = call.form.map,
           k.rex2 = (IF Wide THEN 1 ELSE 0), k.llrc = 0, k.amd3dnow = FALSE,
           k.rexx4 = 0, call.form.space = Evex => k.ubit = 1 - req.rexx4
    PROVE  FormRead(WithOpcodeOf(Asked, k, Op))
  <1> DEFINE e == WithOpcodeOf(Asked, k, Op)
  <1>1. Byte(Op) = call.form.opcode /\ ByteOf(Asked, Op) = Byte(Op)
    BY AskedIs, Layout, Zenon
  <1>2. /\ e.vexvalid = k.vexvalid /\ e.map = k.map /\ e.rex2 = k.rex2 /\ e.llrc = k.llrc
        /\ e.amd3dnow = k.amd3dnow /\ e.ubit = k.ubit /\ e.rexx4 = k.rexx4
        /\ e.opcode = ByteOf(Asked, Op) /\ e.info = MapInfo(k.vexvalid, k.map)
    BY DEF WithOpcodeOf, EncType
  <1> HIDE DEF e
  <1>3. FormRead(e)
    BY <1>1, <1>2, Zenon DEF FormRead, FormKnown
  <1> QED
    BY <1>3 DEF e

LEMMA MemoryByte ==
    ASSUME Offered, NEW i, Bits(Byte(i), 6, 2) = 3 \/ call.mode = Mode64
    PROVE  ~MemoryModrm(Asked, i)
  <1>1. Asked.cfg = cfg /\ ByteOf(Asked, i) = Byte(i) /\ (In64(cfg) <=> call.mode = Mode64)
    BY AskedIs, Zenon
  <1> QED
    BY <1>1, Zenon DEF MemoryModrm

LEMMA VexStep ==
    ASSUME Offered, NEW s \in ScanType, Clean(s), AtVex(s)
    PROVE  LET t == Step(Asked, s) IN Clean(t) /\ AtEvex(t)
  <1> DEFINE n == s.length
             b == Byte(n)
             t == Step(Asked, s)
  <1>1. t = AfterVexScanner(Asked, s)
    BY DEF Step, AtVex
  <1>2. /\ Encoded /\ Asked.max_bytes = 15 /\ Asked.cfg = cfg /\ (\A i : ByteOf(Asked, i) = Byte(i))
        /\ In64(cfg) <=> call.mode = Mode64
        /\ cfg.no_vex # 1
    BY AskedIs, Zenon
  <1>3. n = Pre /\ Pre \in 0..2 /\ Op \in Nat /\ Op <= 5 /\ PfxDone(s.pfx) /\ NoVector(s.enc) /\
        s.enc \in EncType
        /\ s.imd \in ImdType
    BY AskedIs DEF AtVex, ScanType
  <1>4. CASE call.form.space # Vex
    <2>1. b \notin {\hC4, \hC5, \h8F}
      BY <1>2, <1>3, <1>4, VexNotThere
    <2>2. t = Goes(s, "evex", n, n + 1)
      BY <1>1, <1>2, <2>1 DEF AfterVexScanner
    <2>3. /\ t.pc = "evex" /\ t.length = n /\ t.pfx = s.pfx /\ t.enc = s.enc /\ t.imd = s.imd
          /\ t.error = s.error /\ t.out_of_bytes = s.out_of_bytes
      BY <2>2 DEF Goes, State
    <2> HIDE DEF t
    <2>4. Clean(t) /\ AtEvex(t)
      BY <1>3, <1>4, <2>3 DEF Clean, AtEvex
    <2> QED
      BY <2>4 DEF t
  <1>5. CASE call.form.space = Vex
    <2>1. /\ call.form.map \in {1, 2, 5} /\ call.form.map \in 0..7
          /\ req.rexr \in 0..1 /\ req.rexx \in 0..1 /\ req.rexb \in 0..1
          /\ call.mode # Mode64 => req.rexr = 0 /\ Rxb = 0
          /\ Rxb = 4 * req.rexr + 2 * req.rexx + req.rexb
      <3>1. call.form.map \in {1, 2, 5} /\ call.form.map \in 0..7
        BY <1>2, <1>5, FormIs, Zenon
      <3>2. req.rexr \in 0..1 /\ req.rexx \in 0..1 /\ req.rexb \in 0..1
            /\ (call.mode # Mode64 => req.rexr = 0 /\ Rxb = 0)
        BY <1>2, RequestBits, RxbRange, Zenon
      <3> QED
        BY <3>1, <3>2, Zenon DEF Rxb
    <2>2. ~Wide
      BY <1>5 DEF Wide, Legacy, Vex
    <2>3. CASE TwoByteVex
      <3> DEFINE k == [s.enc EXCEPT !.vexvalid = Vex, !.map = 1]
                 e == WithOpcodeOf(Asked, k, n + 2)
      <3>1. Op = n + 2 /\ b = \hC5 /\ Byte(n + 1) = 128 * (1 - req.rexr) + \h78
        BY <1>2, <1>3, <1>5, <2>3, VectorLayout
      <3>2. ~MemoryModrm(Asked, n + 1)
        <4>1. req.rexr = 0 => Bits(128 * (1 - req.rexr) + \h78, 6, 2) = 3
          BY <2>1, VexBytes
        <4>2. Bits(Byte(n + 1), 6, 2) = 3 \/ call.mode = Mode64
          BY <2>1, <3>1, <4>1, Zenon
        <4> QED
          BY <4>2, MemoryByte, Zenon
      <3>3. t = WithEnc(Goes(s, "evex", n + 3, n + 3), e)
        BY <1>1, <1>2, <1>3, <3>1, <3>2 DEF AfterVexScanner
      <3>4. /\ t.pc = "evex" /\ t.length = n + 3 /\ t.pfx = s.pfx /\ t.enc = e /\ t.imd = s.imd
            /\ t.error = s.error /\ t.out_of_bytes = s.out_of_bytes
        BY <3>3 DEF Goes, State, WithEnc, With
      <3>5. k \in EncType /\ k.vexvalid = Vex /\ k.map = 1 /\ k.rex2 = 0 /\ k.llrc = 0 /\
            k.amd3dnow = FALSE
            /\ k.rexx4 = 0
        <4>1. Vex \in Spaces /\ 1 \in MapIds
          BY DEF Spaces, MapIds
        <4>2. k \in EncType
          BY <1>3, <4>1 DEF EncType
        <4>3. k.vexvalid = Vex /\ k.map = 1 /\ k.rex2 = s.enc.rex2 /\ k.llrc = s.enc.llrc
              /\ k.amd3dnow = s.enc.amd3dnow /\ k.rexx4 = s.enc.rexx4
          BY <1>3 DEF EncType
        <4> HIDE DEF k
        <4> QED
          BY <1>3, <4>2, <4>3, Zenon DEF NoVector
      <3>6. call.form.map = 1 /\ Vex # Evex
        BY <2>3 DEF TwoByteVex, Vex, Evex
      <3>7. FormRead(e)
        <4> HIDE DEF k
        <4>1. e = WithOpcodeOf(Asked, k, Op)
          BY <3>1
        <4> HIDE DEF e
        <4> QED
          BY <1>5, <2>2, <3>5, <3>6, <4>1, WithOpcodeReads
      <3> HIDE DEF t, e
      <3>8. Clean(t)
        BY <3>4 DEF Clean
      <3>9. AtEvex(t)
        BY <1>3, <1>5, <3>1, <3>4, <3>7 DEF AtEvex
      <3> QED
        BY <3>8, <3>9 DEF t
    <2>4. CASE ~TwoByteVex
      <3> DEFINE k == VexEnc(VexFields(s.enc, Byte(n + 1), Byte(n + 2)))
                 e == WithOpcodeOf(Asked, k, n + 3)
      <3>1. Op = n + 3 /\ b = \hC4 /\ Byte(n + 1) = 32 * (7 - Rxb) + call.form.map /\
            Byte(n + 2) = \h78
        BY <1>2, <1>3, <1>5, <2>4, VectorLayout
      <3>2. /\ ~MemoryModrm(Asked, n + 1)
            /\ VexMap(Byte(n + 1)) = call.form.map
        <4>1. /\ Bits(32 * (7 - Rxb) + call.form.map, 0, 5) = call.form.map
              /\ Rxb = 0 => Bits(32 * (7 - Rxb) + call.form.map, 6, 2) = 3
          BY <2>1, VexBytes
        <4>2. Bits(Byte(n + 1), 6, 2) = 3 \/ call.mode = Mode64
          BY <2>1, <3>1, <4>1, Zenon
        <4>3. ~MemoryModrm(Asked, n + 1)
          BY <4>2, MemoryByte, Zenon
        <4> QED
          BY <3>1, <4>1, <4>3, Zenon DEF VexMap
      <3>3. ValidVexMap(VexMap(Byte(n + 1)))
        BY <2>1, <3>2 DEF ValidVexMap
      <3>4. t = WithEnc(Goes(s, "evex", n + 4, n + 4), e)
        BY <1>1, <1>2, <1>3, <3>1, <3>2, <3>3 DEF AfterVexScanner
      <3>5. /\ t.pc = "evex" /\ t.length = n + 4 /\ t.pfx = s.pfx /\ t.enc = e /\ t.imd = s.imd
            /\ t.error = s.error /\ t.out_of_bytes = s.out_of_bytes
        BY <3>4 DEF Goes, State, WithEnc, With
      <3>6. Bits(Byte(n + 2), 7, 1) \in Bit
        BY <3>1 DEF Bits, Bit
      <3>7. k \in EncType /\ k.vexvalid = Vex /\ k.map = call.form.map /\ k.rex2 = 0 /\ k.llrc = 0
            /\ k.amd3dnow = FALSE /\ k.rexx4 = 0
        <4>1. Vex \in Spaces /\ call.form.map \in MapIds
          BY <2>1 DEF Spaces, MapIds
        <4>2. k = [s.enc EXCEPT !.rexw = Bits(Byte(n + 2), 7, 1), !.map = call.form.map,
              !.vexvalid = Vex]
          BY <3>2 DEF VexEnc, VexFields
        <4> HIDE DEF k
        <4>3. k \in EncType
          BY <1>3, <3>6, <4>1, <4>2 DEF EncType
        <4>4. k.vexvalid = Vex /\ k.map = call.form.map /\ k.rex2 = s.enc.rex2 /\
              k.llrc = s.enc.llrc
              /\ k.amd3dnow = s.enc.amd3dnow /\ k.rexx4 = s.enc.rexx4
          BY <1>3, <4>2 DEF EncType
        <4> QED
          BY <1>3, <4>3, <4>4, Zenon DEF NoVector
      <3>8. Vex # Evex
        BY DEF Vex, Evex
      <3>9. FormRead(e)
        <4> HIDE DEF k
        <4>1. e = WithOpcodeOf(Asked, k, Op)
          BY <3>1
        <4> HIDE DEF e
        <4> QED
          BY <1>5, <2>2, <3>7, <3>8, <4>1, WithOpcodeReads
      <3> HIDE DEF t, e
      <3>10. Clean(t)
        BY <3>5 DEF Clean
      <3>11. AtEvex(t)
        BY <1>3, <1>5, <3>1, <3>5, <3>9 DEF AtEvex
      <3> QED
        BY <3>10, <3>11 DEF t
    <2> QED
      BY <2>3, <2>4
  <1> QED
    BY <1>4, <1>5

-----------------------------------------------------------------------------
(***************************************************************************)
(* The EVEX, REX2 and opcode scanners.                                     *)
(***************************************************************************)

LEMMA Not62 ==
    ASSUME Encoded, call.form.space = Legacy
    PROVE  /\ Byte(Pre) # \h62 /\ (~Wide => Byte(Pre) # \hD5)
           /\ ~Wide /\ call.form.map = 0 => Byte(Pre) # \h0F
  <1>1. call.form.map \in 0..2
    BY FormIs
  <1>2. CASE ~Wide /\ call.form.map = 0
    <2>1. Op = Pre /\ Byte(Op) = call.form.opcode
      BY <1>2, LegacyLayout, Layout, Zenon
    <2>2. call.form.opcode \notin PrefixOpcodes
      BY <1>2, FormIs, Zenon
    <2> QED
      BY <2>1, <2>2 DEF PrefixOpcodes, LesOpcodes
  <1>3. CASE ~(~Wide /\ call.form.map = 0)
    <2>1. Byte(Pre) \in {\h0F, \hD5} /\ (~Wide => Byte(Pre) = \h0F)
      BY <1>1, <1>3, LegacyLayout
    <2> QED
      BY <1>3, <2>1
  <1> QED
    BY <1>2, <1>3

LEMMA EvexRead ==
    ASSUME Offered, NEW s \in ScanType, Clean(s), AtEvex(s), call.form.space = Evex
    PROVE  LET t == Step(Asked, s) IN Clean(t) /\ AtCatchInvalid(t)
  <1> DEFINE n == s.length
             b == Byte(n)
             b1 == Byte(n + 1)
             b2 == Byte(n + 2)
             b3 == Byte(n + 3)
             map == call.form.map
             p == EvexPfx(s.pfx, b2)
             k == EvexEnc(s.enc, map, b2, b3)
             e == WithOpcodeOf(Asked, k, n + 4)
             t == Step(Asked, s)
  <1>1. t = AfterEvexScanner(Asked, s)
    BY DEF Step, AtEvex
  <1>2. /\ Encoded /\ Asked.max_bytes = 15 /\ Asked.cfg = cfg /\ (\A i : ByteOf(Asked, i) = Byte(i))
        /\ In64(cfg) <=> call.mode = Mode64
        /\ HasApx(cfg) <=> call.mode = Mode64
        /\ HasAvx512(cfg)
    BY AskedIs, Zenon
  <1>3. n = Pre /\ Pre \in 0..2 /\ Op \in Nat /\ Op <= 5 /\ PfxDone(s.pfx) /\ NoVector(s.enc)
        /\ s.enc \in EncType /\ s.imd \in ImdType /\ s.pfx \in PfxType
    BY AskedIs DEF AtEvex, ScanType, Vex, Evex
  <1>4. /\ map \in {1, 2, 4, 5, 6, 7} /\ map \in 0..7
        /\ req.rexr \in 0..1 /\ req.rexx \in 0..1 /\ req.rexb \in 0..1
        /\ req.rexr4 \in 0..1 /\ req.rexx4 \in 0..1 /\ req.rexb4 \in 0..1 /\ req.evexvv \in 0..1
        /\ (call.mode # Mode64 => Rxb = 0 /\ req.rexb4 = 0 /\ req.evexvv = 0)
        /\ Rxb = 4 * req.rexr + 2 * req.rexx + req.rexb
    <2>1. map \in {1, 2, 4, 5, 6, 7} /\ map \in 0..7
      BY <1>2, FormIs, Zenon
    <2>2. /\ req.rexr \in 0..1 /\ req.rexx \in 0..1 /\ req.rexb \in 0..1
          /\ req.rexr4 \in 0..1 /\ req.rexx4 \in 0..1 /\ req.rexb4 \in 0..1 /\ req.evexvv \in 0..1
          /\ (call.mode # Mode64 => Rxb = 0 /\ req.rexb4 = 0 /\ req.evexvv = 0)
      BY <1>2, RequestBits, RxbRange, Zenon
    <2> QED
      BY <2>1, <2>2, Zenon DEF Rxb
  <1>5. /\ Op = n + 4 /\ b = \h62
        /\ b1 = 32 * (7 - Rxb) + 16 * (1 - req.rexr4) + 8 * req.rexb4 + map
        /\ b2 = \h78 + 4 * (1 - req.rexx4) /\ b3 = 8 * (1 - req.evexvv)
    BY <1>2, <1>3, VectorLayout
  <1>6. /\ Bits(b1, 0, 3) = map /\ (req.rexb4 = 0 => Bits(b1, 0, 4) = map)
        /\ (Rxb = 0 => Bits(b1, 6, 2) = 3)
        /\ Bits(b2, 0, 2) = 0 /\ Bits(b2, 2, 1) = 1 - req.rexx4
        /\ Bits(b3, 0, 3) = 0 /\ Bits(b3, 3, 1) = 1 - req.evexvv /\ Bits(b3, 4, 1) = 0
        /\ Bits(b3, 5, 2) = 0 /\ Bits(b3, 7, 1) = 0
    <2>1. b1 = 32 * (7 - (4 * req.rexr + 2 * req.rexx + req.rexb)) + 16 * (1 - req.rexr4) + 8 * req.rexb4 + map
      BY <1>4, <1>5, Zenon
    <2>2. EvexBitsAre(b1, b2, b3, map, req.rexr, req.rexx, req.rexb, req.rexr4, req.rexb4,
          req.rexx4, req.evexvv)
      <3>1. b2 = \h78 + 4 * (1 - req.rexx4) /\ b3 = 8 * (1 - req.evexvv)
        BY <1>5, Zenon
      <3> HIDE DEF b1, b2, b3, map
      <3> DEFINE r == req.rexr
                 x == req.rexx
                 b0 == req.rexb
                 r4 == req.rexr4
                 b4 == req.rexb4
                 x4 == req.rexx4
                 v4 == req.evexvv
      <3>2. /\ map \in 0..7 /\ r \in 0..1 /\ x \in 0..1 /\ b0 \in 0..1
            /\ r4 \in 0..1 /\ b4 \in 0..1 /\ x4 \in 0..1 /\ v4 \in 0..1
            /\ b1 = 32 * (7 - (4 * r + 2 * x + b0)) + 16 * (1 - r4) + 8 * b4 + map
            /\ b2 = \h78 + 4 * (1 - x4) /\ b3 = 8 * (1 - v4)
        BY <1>4, <2>1, <3>1, Zenon
      <3> HIDE DEF r, x, b0, r4, b4, x4, v4
      <3>3. EvexBitsAre(b1, b2, b3, map, r, x, b0, r4, b4, x4, v4)
        BY ONLY <3>2, EvexBytes
      <3> QED
        BY <3>3, Zenon DEF r, x, b0, r4, b4, x4, v4
    <2> QED
      BY <1>4, <2>2, Zenon DEF EvexBitsAre
  <1>7. ~MemoryModrm(Asked, n + 1)
    <2>1. Bits(b1, 6, 2) = 3 \/ call.mode = Mode64
      BY <1>4, <1>6, Zenon
    <2> QED
      BY <2>1, MemoryByte, Zenon
  <1>8. EvexMapOf(cfg, b1) = map
    BY <1>2, <1>4, <1>6 DEF EvexMapOf
  <1>9. ErrorOfPayload3(cfg, b3, "NONE") = "NONE"
    <2>1. Bits(b3, 7, 1) # 1
      BY <1>6
    <2>2. call.mode # Mode64 => Bits(b3, 3, 1) # 0
      BY <1>4, <1>6
    <2> QED
      BY <1>2, <2>1, <2>2, Zenon DEF ErrorOfPayload3
  <1>10. t = Says(With(Goes(s, "catch_invalid", n + 5, n + 5), p, e, s.mrm, s.imd), s.error)
    <2>1. s.error = "NONE"
      BY DEF Clean
    <2>2. map # 0 /\ ValidEvexMap(map) /\ ~(n + 1 >= 15) /\ ~(n + 4 >= 15)
      BY <1>3, <1>4 DEF ValidEvexMap
    <2>3. s.enc.vexvalid = Legacy
      BY <1>3 DEF NoVector
    <2>4. /\ HasAvx512(Asked.cfg) /\ ByteOf(Asked, n) = \h62 /\ ~(n + 1 >= Asked.max_bytes)
          /\ ~MemoryModrm(Asked, n + 1) /\ EvexMapOf(Asked.cfg, ByteOf(Asked, n + 1)) = map
          /\ ~(n + 4 >= Asked.max_bytes)
          /\ ByteOf(Asked, n + 2) = b2 /\ ByteOf(Asked, n + 3) = b3
      <3>1. HasAvx512(Asked.cfg) /\ EvexMapOf(Asked.cfg, b1) = map
        BY <1>2, <1>8, Zenon
      <3>2. ByteOf(Asked, n) = \h62 /\ ByteOf(Asked, n + 1) = b1 /\ ByteOf(Asked, n + 2) = b2 /\
            ByteOf(Asked, n + 3) = b3
        <4>1. \A i : ByteOf(Asked, i) = Byte(i)
          BY <1>2, Zenon
        <4>2. b = \h62
          BY <1>5, Zenon
        <4> QED
          BY <4>1, <4>2, Zenon
      <3>3. ~(n + 1 >= Asked.max_bytes) /\ ~(n + 4 >= Asked.max_bytes)
        BY <1>2, <2>2, Zenon
      <3> QED
        BY <1>7, <3>1, <3>2, <3>3, Zenon
    <2>5. ErrorOfPayload3(Asked.cfg, b3, s.error) = s.error
      BY <1>2, <1>9, <2>1, Zenon
    <2> HIDE DEF b2, b3, map, n
    <2>6. AfterEvexScanner(Asked, s)
          = Says(With(Goes(s, "catch_invalid", n + 5, n + 5), EvexPfx(s.pfx, b2),
                      WithOpcodeOf(Asked, EvexEnc(s.enc, map, b2, b3), n + 4), s.mrm, s.imd),
                 ErrorOfPayload3(Asked.cfg, b3, s.error))
      BY <2>2, <2>3, <2>4, Zenon DEF AfterEvexScanner, n
    <2> QED
      BY <1>1, <2>5, <2>6, Zenon
  <1>11. /\ t.pc = "catch_invalid" /\ t.length = n + 5 /\ t.pfx = p /\ t.enc = e /\ t.imd = s.imd
         /\ t.error = s.error /\ t.out_of_bytes = s.out_of_bytes
    BY <1>10 DEF Goes, State, With, Says
  <1>12. p = s.pfx
    <2>1. Bits(b2, 0, 2) # 1
      BY <1>6
    <2> HIDE DEF b2
    <2>2. p = [s.pfx EXCEPT !.osz = s.pfx.osz]
      BY <1>3, <2>1 DEF EvexPfx
    <2> QED
      BY <1>3, <2>2 DEF PfxType
  <1>13. k \in EncType /\ k.vexvalid = Evex /\ k.map = map /\ k.rex2 = 0 /\ k.llrc = 0
         /\ k.amd3dnow = FALSE /\ k.rexx4 = 0 /\ k.ubit = 1 - req.rexx4
    <2>1. Bits(b2, 7, 1) \in Bit /\ Bits(b2, 2, 1) \in Bit /\ Bits(b3, 5, 2) = 0 /\
          Bits(b3, 4, 1) = 0
      <3>1. Bits(b2, 7, 1) \in Bit
        BY <1>4, <1>5 DEF Bits, Bit
      <3>2. Bits(b2, 2, 1) \in Bit
        BY <1>4, <1>6 DEF Bit
      <3> QED
        BY <1>6, <3>1, <3>2
    <2>2. Evex \in Spaces /\ map \in MapIds
      BY <1>4 DEF Spaces, MapIds
    <2> HIDE DEF b2, b3, map
    <2>3. k = [s.enc EXCEPT !.vexvalid = Evex, !.map = map, !.rexw = Bits(b2, 7, 1),
          !.ubit = Bits(b2, 2, 1),
              !.llrc = 0, !.bcrc = 0]
      BY <2>1 DEF EvexEnc
    <2> HIDE DEF k
    <2>4. k \in EncType
      <3>1. 0 \in 0..3 /\ 0 \in Bit
        BY DEF Bit
      <3> QED
        BY <1>3, <2>1, <2>2, <2>3, <3>1 DEF EncType
    <2>5. k.vexvalid = Evex /\ k.map = map /\ k.rex2 = s.enc.rex2 /\ k.llrc = 0
          /\ k.amd3dnow = s.enc.amd3dnow /\ k.rexx4 = s.enc.rexx4 /\ k.ubit = Bits(b2, 2, 1)
      BY <1>3, <2>3 DEF EncType
    <2> QED
      BY <1>3, <1>6, <2>4, <2>5, Zenon DEF NoVector, b2
  <1>14. FormRead(e)
    <2>1. ~Wide
      BY DEF Wide, Legacy, Evex
    <2> HIDE DEF k
    <2>2. e = WithOpcodeOf(Asked, k, Op)
      BY <1>5
    <2> HIDE DEF e
    <2> QED
      BY <1>13, <2>1, <2>2, WithOpcodeReads
  <1> HIDE DEF t, e, p
  <1>15. Clean(t)
    BY <1>11 DEF Clean
  <1>16. AtCatchInvalid(t)
    BY <1>3, <1>5, <1>11, <1>12, <1>14 DEF AtCatchInvalid, Legacy, Evex
  <1> QED
    BY <1>15, <1>16 DEF t

LEMMA EvexStep ==
    ASSUME Offered, NEW s \in ScanType, Clean(s), AtEvex(s)
    PROVE  LET t == Step(Asked, s) IN Clean(t) /\ (AtCatchInvalid(t) \/ AtRex2(t))
  <1> DEFINE n == s.length
             t == Step(Asked, s)
  <1>1. t = AfterEvexScanner(Asked, s)
    BY DEF Step, AtEvex
  <1>2. /\ Encoded /\ Asked.max_bytes = 15 /\ Asked.cfg = cfg /\ (\A i : ByteOf(Asked, i) = Byte(i))
        /\ HasAvx512(cfg)
    BY AskedIs, Zenon
  <1>3. PfxDone(s.pfx) /\ s.pc = "evex" /\ call.form.space \in {Legacy, Vex, Evex}
        /\ Legacy # Vex /\ Legacy # Evex /\ Vex # Evex
    BY <1>2, FormIs DEF AtEvex, Legacy, Vex, Evex
  <1>4. CASE call.form.space = Vex
    <2>1. n = Op + 1 /\ FormRead(s.enc) /\ s.enc.vexvalid # Legacy
      BY <1>3, <1>4 DEF AtEvex, FormRead, FormKnown
    <2>2. t = Goes(s, "catch_invalid", n, 0)
      BY <1>1, <2>1, Zenon DEF AfterEvexScanner
    <2>3. /\ t.pc = "catch_invalid" /\ t.length = n /\ t.pfx = s.pfx /\ t.enc = s.enc /\
             t.imd = s.imd
          /\ t.error = s.error /\ t.out_of_bytes = s.out_of_bytes
      BY <2>2 DEF Goes, State
    <2> HIDE DEF t
    <2>4. Clean(t) /\ AtCatchInvalid(t)
      BY <1>3, <1>4, <2>1, <2>3 DEF Clean, AtCatchInvalid
    <2> QED
      BY <2>4 DEF t
  <1>5. CASE call.form.space = Evex
    BY <1>5, EvexRead
  <1>6. CASE call.form.space = Legacy
    <2>1. n = Pre /\ NoVector(s.enc) /\ s.enc.vexvalid = Legacy /\ ByteOf(Asked, n) # \h62
      BY <1>2, <1>3, <1>6, Not62 DEF AtEvex, NoVector
    <2>2. t = Goes(s, "rex2", n, n + 1)
      BY <1>1, <1>2, <2>1, Zenon DEF AfterEvexScanner
    <2>3. /\ t.pc = "rex2" /\ t.length = n /\ t.pfx = s.pfx /\ t.enc = s.enc /\ t.imd = s.imd
          /\ t.error = s.error /\ t.out_of_bytes = s.out_of_bytes
      BY <2>2 DEF Goes, State
    <2> HIDE DEF t
    <2>4. Clean(t) /\ AtRex2(t)
      BY <1>3, <1>6, <2>1, <2>3 DEF Clean, AtRex2
    <2> QED
      BY <2>4 DEF t
  <1> QED
    BY <1>3, <1>4, <1>5, <1>6

LEMMA CatchInvalidStep ==
    ASSUME Offered, NEW s \in ScanType, Clean(s), AtCatchInvalid(s)
    PROVE  LET t == Step(Asked, s) IN Clean(t) /\ AtModrm(t)
  <1> DEFINE t == Step(Asked, s)
  <1>1. t = AfterCatchInvalid(Asked, s)
    BY DEF Step, AtCatchInvalid
  <1>2. ~RexOut
    BY DEF AtCatchInvalid, RexOut
  <1>3. s.pfx.rex # 1 /\ s.pfx.prefix66 # 1 /\ s.pfx.f3 # 1 /\ s.pfx.f2 # 1
    BY <1>2 DEF AtCatchInvalid, PfxDone, NoLegacyPrefix
  <1>4. t = Says(Goes(s, "modrm", s.length, 0), s.error)
    <2>1. 1 \notin {s.pfx.prefix66, s.pfx.f3, s.pfx.f2}
      BY <1>3
    <2> QED
      BY <1>1, <1>3, <2>1, Zenon DEF AfterCatchInvalid
  <1>5. /\ t.pc = "modrm" /\ t.length = s.length /\ t.pfx = s.pfx /\ t.enc = s.enc /\ t.imd = s.imd
        /\ t.error = s.error /\ t.out_of_bytes = s.out_of_bytes
    BY <1>4 DEF Goes, State, Says
  <1> HIDE DEF t
  <1>6. Clean(t) /\ AtModrm(t)
    BY <1>5 DEF Clean, AtCatchInvalid, AtModrm
  <1> QED
    BY <1>6 DEF t

LEMMA Rex2Step ==
    ASSUME Offered, NEW s \in ScanType, Clean(s), AtRex2(s)
    PROVE  LET t == Step(Asked, s) IN Clean(t) /\ (AtOpcode(t) \/ AtModrm(t))
  <1> DEFINE n == s.length
             t == Step(Asked, s)
  <1>1. t = AfterRex2Scanner(Asked, s)
    BY DEF Step, AtRex2
  <1>2. /\ Encoded /\ Asked.max_bytes = 15 /\ Asked.cfg = cfg /\ (\A i : ByteOf(Asked, i) = Byte(i))
        /\ HasApx(cfg) <=> call.mode = Mode64
    BY AskedIs, Zenon
  <1>3. n = Pre /\ Pre \in 0..2 /\ PfxDone(s.pfx) /\ NoVector(s.enc) /\ s.pc = "rex2"
        /\ call.form.space = Legacy /\ s.enc \in EncType /\ s.imd \in ImdType
    BY AskedIs DEF AtRex2, ScanType
  <1>4. CASE ~Wide
    <2>1. ByteOf(Asked, n) # \hD5
      BY <1>2, <1>3, <1>4, Not62
    <2>2. t = Goes(s, "opcode", n, 0) \/ t = Goes(s, "opcode", n, n + 1)
      BY <1>1, <2>1, Zenon DEF AfterRex2Scanner
    <2>3. /\ t.pc = "opcode" /\ t.length = n /\ t.pfx = s.pfx /\ t.enc = s.enc /\ t.imd = s.imd
          /\ t.error = s.error /\ t.out_of_bytes = s.out_of_bytes
      BY <2>2 DEF Goes, State
    <2> HIDE DEF t
    <2>4. Clean(t) /\ AtOpcode(t)
      BY <1>3, <1>4, <2>3 DEF Clean, AtOpcode
    <2> QED
      BY <2>4 DEF t
  <1>5. CASE Wide
    <2> DEFINE b1 == Byte(n + 1)
               k == Rex2Enc(s.enc, b1)
               e == WithOpcodeOf(Asked, k, n + 2)
               map == call.form.map
    <2>1. /\ call.mode = Mode64 /\ Op = n + 2 /\ ByteOf(Asked, n) = \hD5 /\ map \in 0..1
          /\ b1 = 128 * map + 16 * Rxb4 + Rxb
      BY <1>2, <1>3, <1>5, LegacyLayout, RxbRange
    <2>2. /\ req.rexr \in 0..1 /\ req.rexx \in 0..1 /\ req.rexb \in 0..1
          /\ req.rexr4 \in 0..1 /\ req.rexx4 \in 0..1 /\ req.rexb4 \in 0..1
      BY <1>2, RequestBits, Zenon
    <2>3. Bits(b1, 7, 1) = map
      <3>1. b1 = 128 * map + 16 * (4 * req.rexr4 + 2 * req.rexx4 + req.rexb4)
                 + (4 * req.rexr + 2 * req.rexx + req.rexb)
        BY <2>1, Zenon DEF Rxb, Rxb4
      <3> QED
        BY <2>1, <2>2, <3>1, Rex2Bytes
    <2>4. s.pfx.rex # 1
      BY <1>3, <1>5 DEF PfxDone, RexOut
    <2>5. t = Says(WithEnc(Goes(s, "modrm", n + 3, n + 3), e), s.error)
      <3>1. ~(n + 1 >= 15) /\ n + 2 # 15
        BY <1>3
      <3>2. /\ HasApx(Asked.cfg) /\ ByteOf(Asked, n) = \hD5 /\ ~(n + 1 >= Asked.max_bytes)
            /\ n + 2 # Asked.max_bytes /\ ByteOf(Asked, n + 1) = b1
        BY <1>2, <2>1, <3>1, Zenon
      <3> HIDE DEF b1, n
      <3>3. AfterRex2Scanner(Asked, s) = Says(WithEnc(Goes(s, "modrm", n + 3, n + 3), e), s.error)
        BY <2>4, <3>2, Zenon DEF AfterRex2Scanner, n
      <3> QED
        BY <1>1, <3>3, Zenon
    <2>6. /\ t.pc = "modrm" /\ t.length = n + 3 /\ t.pfx = s.pfx /\ t.enc = e /\ t.imd = s.imd
          /\ t.error = s.error /\ t.out_of_bytes = s.out_of_bytes
      BY <2>5 DEF Goes, State, Says, With, WithEnc
    <2>7. k \in EncType /\ k.vexvalid = Legacy /\ k.map = map /\ k.rex2 = 1 /\ k.llrc = 0
          /\ k.amd3dnow = FALSE /\ k.rexx4 = 0
      <3>1. Bits(b1, 3, 1) \in Bit
        <4>1. b1 \in Byte256
          BY <1>2, <2>1, RxbRange DEF Byte256
        <4> QED
          BY <4>1, BitsRange
      <3>2. map \in MapIds
        BY <2>1 DEF MapIds
      <3>3. k = [s.enc EXCEPT !.rex2 = 1, !.map = map, !.rexw = Bits(b1, 3, 1)]
        BY <2>3 DEF Rex2Enc
      <3> HIDE DEF k, map, b1
      <3>4. k \in EncType
        BY <1>3, <3>1, <3>2, <3>3 DEF EncType, Bit
      <3>5. k.vexvalid = s.enc.vexvalid /\ k.map = map /\ k.rex2 = 1 /\ k.llrc = s.enc.llrc
            /\ k.amd3dnow = s.enc.amd3dnow /\ k.rexx4 = s.enc.rexx4
        BY <1>3, <3>3 DEF EncType
      <3> QED
        BY <1>3, <3>4, <3>5, Zenon DEF NoVector
    <2>8. FormRead(e)
      <3>1. Legacy # Evex
        BY DEF Legacy, Evex
      <3> HIDE DEF k
      <3>2. e = WithOpcodeOf(Asked, k, Op)
        BY <2>1
      <3> HIDE DEF e
      <3> QED
        BY <1>3, <1>5, <2>7, <3>1, <3>2, WithOpcodeReads
    <2> HIDE DEF t, e
    <2>9. Clean(t)
      BY <2>6 DEF Clean
    <2>10. AtModrm(t)
      BY <1>3, <2>1, <2>6, <2>8 DEF AtModrm
    <2> QED
      BY <2>9, <2>10 DEF t
  <1> QED
    BY <1>4, <1>5

LEMMA OpcodeStep ==
    ASSUME Offered, NEW s \in ScanType, Clean(s), AtOpcode(s)
    PROVE  LET t == Step(Asked, s) IN Clean(t) /\ AtModrm(t)
  <1> DEFINE n == s.length
             t == Step(Asked, s)
             map == call.form.map
  <1>1. t = AfterOpcodeScanner(Asked, s)
    BY DEF Step, AtOpcode
  <1>2. /\ Encoded /\ Asked.max_bytes = 15 /\ Asked.cfg = cfg /\ (\A i : ByteOf(Asked, i) = Byte(i))
    BY AskedIs, Zenon
  <1>3. n = Pre /\ Pre \in 0..2 /\ PfxDone(s.pfx) /\ NoVector(s.enc) /\ s.pc = "opcode"
        /\ call.form.space = Legacy /\ ~Wide /\ s.enc \in EncType /\ s.imd \in ImdType
    BY AskedIs DEF AtOpcode, ScanType
  <1>4. map \in 0..2 /\ Legacy # Evex
    BY <1>2, <1>3, FormIs DEF Legacy, Evex
  <1> DEFINE k == IF map = 0 THEN [s.enc EXCEPT !.map = 0] ELSE EscapedEnc(s.enc, map)
             e == WithOpcodeOf(Asked, k, Op)
  <1>5. Op = n + map
    BY <1>2, <1>3, <1>4, LegacyLayout
  <1>6. t = WithEnc(Goes(s, "modrm", Op + 1, Op + 1), e)
    <2>1. CASE map = 0
      <3>1. ByteOf(Asked, n) # \h0F /\ Op = n
        BY <1>2, <1>3, <1>5, <2>1, Not62
      <3> QED
        BY <1>1, <2>1, <3>1, Zenon DEF AfterOpcodeScanner
    <2>2. CASE map = 1
      <3>1. ByteOf(Asked, n) = \h0F /\ Op = n + 1 /\ n + 2 = Op + 1 /\ map # 0 /\ ~(n + 1 >= 15)
        BY <1>2, <1>3, <1>5, <2>2, LegacyLayout
      <3>2. EscapeMap(ByteOf(Asked, n + 1)) = 1
        BY <1>2, <1>3, <2>2, <3>1, Layout, FormIs, Zenon
      <3> QED
        BY <1>1, <1>2, <2>2, <3>1, <3>2, Zenon DEF AfterOpcodeScanner
    <2>3. CASE map = 2
      <3>1. ByteOf(Asked, n) = \h0F /\ Op = n + 2 /\ n + 3 = Op + 1 /\ map # 0 /\ ~(n + 1 >= 15)
            /\ n + 2 # 15
        BY <1>2, <1>3, <1>5, <2>3, LegacyLayout
      <3>2. EscapeMap(ByteOf(Asked, n + 1)) = 2 /\ 2 # 1 /\ 2 # Amd3DNow
        BY <1>2, <1>3, <2>3, LegacyLayout DEF EscapeMap, Amd3DNow
      <3> QED
        BY <1>1, <1>2, <2>3, <3>1, <3>2, Zenon DEF AfterOpcodeScanner
    <2> QED
      BY <1>4, <2>1, <2>2, <2>3
  <1>7. /\ t.pc = "modrm" /\ t.length = Op + 1 /\ t.pfx = s.pfx /\ t.enc = e /\ t.imd = s.imd
        /\ t.error = s.error /\ t.out_of_bytes = s.out_of_bytes
    BY <1>6 DEF Goes, State, With, WithEnc
  <1>8. k \in EncType /\ k.vexvalid = Legacy /\ k.map = map /\ k.rex2 = 0 /\ k.llrc = 0
        /\ k.amd3dnow = FALSE /\ k.rexx4 = 0
    <2>1. map \in MapIds /\ 0 \in MapIds /\ MapInfo(Legacy, map) \in InfoType
      <3>1. map \in MapIds /\ 0 \in MapIds /\ Legacy \in Spaces
        BY <1>4 DEF MapIds, Spaces
      <3> QED
        BY <3>1, MapInfoRange
    <2> HIDE DEF map
    <2>2. CASE map = 0
      <3>1. k = [s.enc EXCEPT !.map = 0]
        BY <2>2
      <3> HIDE DEF k
      <3>2. k \in EncType
        BY <1>3, <2>1, <3>1 DEF EncType
      <3>3. k.vexvalid = s.enc.vexvalid /\ k.map = map /\ k.rex2 = s.enc.rex2 /\ k.llrc = s.enc.llrc
            /\ k.amd3dnow = s.enc.amd3dnow /\ k.rexx4 = s.enc.rexx4
        BY <1>3, <2>2, <3>1 DEF EncType
      <3> QED
        BY <1>3, <3>2, <3>3, Zenon DEF NoVector
    <2>3. CASE map # 0
      <3>1. k = [s.enc EXCEPT !.map = map, !.info = MapInfo(Legacy, map)]
        BY <2>3 DEF EscapedEnc
      <3> HIDE DEF k
      <3>2. k \in EncType
        BY <1>3, <2>1, <3>1 DEF EncType
      <3>3. k.vexvalid = s.enc.vexvalid /\ k.map = map /\ k.rex2 = s.enc.rex2 /\ k.llrc = s.enc.llrc
            /\ k.amd3dnow = s.enc.amd3dnow /\ k.rexx4 = s.enc.rexx4
        BY <1>3, <3>1 DEF EncType
      <3> QED
        BY <1>3, <3>2, <3>3, Zenon DEF NoVector
    <2> QED
      BY <2>2, <2>3
  <1>9. FormRead(e)
    <2> HIDE DEF k
    <2> QED
      BY <1>3, <1>4, <1>8, WithOpcodeReads
  <1> HIDE DEF t, e
  <1>10. Clean(t)
    BY <1>7 DEF Clean
  <1>11. AtModrm(t)
    BY <1>3, <1>7, <1>9 DEF AtModrm
  <1> QED
    BY <1>10, <1>11 DEF t

-----------------------------------------------------------------------------
(***************************************************************************)
(* The ModRM, SIB, displacement and immediate scanners.                    *)
(***************************************************************************)

LEMMA ModrmBits ==
    ASSUME NEW a \in 0..3, NEW b \in 0..7, NEW c \in 0..7, NEW v, v = 64 * a + 8 * b + c
    PROVE  Bits(v, 6, 2) = a /\ Bits(v, 3, 3) = b /\ Bits(v, 0, 3) = c
  <1>1. 2^0 = 1 /\ 2^2 = 4 /\ 2^3 = 8 /\ 2^6 = 64
    OBVIOUS
  <1>2. a = 0 \/ a = 1 \/ a = 2 \/ a = 3
    OBVIOUS
  <1>3. (v \div 64) % 4 = a /\ (v \div 8) % 8 = b /\ (v \div 1) % 8 = c
    BY <1>2
  <1> QED
    BY <1>1, <1>3 DEF Bits

LEMMA RequestRange ==
    ASSUME Encoded
    PROVE  /\ req.mod \in 0..2 /\ req.reg \in 0..7 /\ req.rm \in 0..7 /\ req.has_sib \in BOOLEAN
           /\ req.sibscale \in 0..3 /\ req.sibindex \in 0..7 /\ req.sibbase \in 0..7
  BY EncodedIs DEF ReqType

LEMMA SibIs ==
    ASSUME Encoded
    PROVE  HasSib(call.mode, req.mod, req.rm) <=> req.has_sib
  <1>1. req.mod # 3
    BY RequestRange
  <1>2. CASE call.mode = Mode16
    <2>1. req.has_sib = FALSE
      BY <1>2, EncodedIs, Zenon DEF Operand16
    <2> QED
      BY <1>2, <2>1 DEF HasSib
  <1>3. CASE call.base = Rip
    <2>1. req.has_sib = FALSE /\ req.rm = 5
      BY <1>3, EncodedIs, Zenon DEF OperandRip
    <2> QED
      BY <2>1 DEF HasSib
  <1>4. CASE call.base # Rip /\ call.mode # Mode16
    <2>1. req.has_sib = NeedsSib(call) /\ req.rm = (IF NeedsSib(call) THEN 4 ELSE call.base % 8)
      BY <1>4, EncodedIs, Zenon DEF OperandFlat
    <2>2. NeedsSib(call) \in BOOLEAN /\ (~NeedsSib(call) => call.base % 8 # 4)
      BY DEF NeedsSib, SP
    <2> QED
      BY <1>1, <1>4, <2>1, <2>2 DEF HasSib
  <1> QED
    BY <1>2, <1>3, <1>4

LEMMA DispWidthIs ==
    ASSUME Encoded
    PROVE  /\ HasDispRegular(call.mode, req.mod, req.rm) = DispLen(call)
           /\ req.has_sib => ~(req.sibbase = 5 /\ req.mod = 0)
  <1>1. /\ call.dispsz \in {0, 8, 16, 32} /\ call.mode \in {0, 1, 2}
        /\ call.dispsz = 16 => call.mode = Mode16
        /\ call.dispsz = 32 => call.mode # Mode16
        /\ call.base # Rip => call.base \in 0..31
        /\ call.base = Rip => call.mode = Mode64 /\ call.dispsz \in {0, 32}
    BY EncodedIs, Arguments, Zenon
  <1>2. 8 \div 8 = 1 /\ 16 \div 8 = 2 /\ 32 \div 8 = 4
    OBVIOUS
  <1>3. Mode16 # Mode64
    BY DEF Mode16, Mode64
  <1>4. CASE call.mode = Mode16
    <2>1. req.mod = ModVal(call.dispsz) /\ req.rm = Rm16(call.base, call.index, call.dispsz)
          /\ req.has_sib = FALSE
      BY <1>4, EncodedIs, Zenon DEF Operand16
    <2>2. call.base \in 0..31 /\ call.base # Rip
      BY <1>1, <1>3, <1>4
    <2>3. CASE call.dispsz = 0
      <3>1. DispLen(call) = 0
        BY <1>4, <2>2, <2>3 DEF DispLen
      <3>2. req.mod = 0
        BY <2>1, <2>3 DEF ModVal
      <3>3. req.rm # 6
        <4>1. call.base # NoReg
          BY <2>2 DEF NoReg
        <4>2. {call.base, call.index} # {NoReg}
          BY <4>1
        <4> QED
          BY <2>1, <2>3, <4>2 DEF Rm16, NoRm
      <3> QED
        BY <1>4, <2>1, <3>1, <3>2, <3>3 DEF HasDispRegular
    <2>4. CASE call.dispsz = 8
      <3>1. DispLen(call) = 1 /\ req.mod = 1
        BY <1>2, <2>1, <2>4 DEF DispLen, ModVal
      <3> QED
        BY <1>4, <2>1, <3>1 DEF HasDispRegular
    <2>5. CASE call.dispsz = 16
      <3>1. DispLen(call) = 2 /\ req.mod = 2
        BY <1>2, <2>1, <2>5 DEF DispLen, ModVal
      <3> QED
        BY <1>4, <2>1, <3>1 DEF HasDispRegular
    <2> QED
      BY <1>1, <1>4, <2>3, <2>4, <2>5
  <1>5. CASE call.base = Rip
    <2>1. req.has_sib = FALSE /\ req.rm = 5 /\ req.mod = 0
      BY <1>5, EncodedIs, Zenon DEF OperandRip
    <2>2. DispLen(call) = 4
      <3>1. call.dispsz = 0 \/ call.dispsz = 32
        BY <1>1, <1>5
      <3> QED
        BY <1>2, <1>5, <3>1 DEF DispLen
    <2>3. call.mode # Mode16
      BY <1>1, <1>3, <1>5
    <2> QED
      BY <2>1, <2>2, <2>3 DEF HasDispRegular
  <1>6. CASE call.base # Rip /\ call.mode # Mode16
    <2>1. /\ req.mod = (IF NeedsZeroDisp(call) THEN 1 ELSE ModVal(call.dispsz))
          /\ req.rm = (IF NeedsSib(call) THEN 4 ELSE call.base % 8)
          /\ NeedsSib(call) => req.sibbase = call.base % 8
          /\ req.has_sib = NeedsSib(call)
      BY <1>6, EncodedIs, Zenon DEF OperandFlat
    <2>2. NeedsZeroDisp(call) <=> call.dispsz = 0 /\ call.base % 8 = 5
      BY <1>1, <1>6 DEF NeedsZeroDisp, Gprs, BP
    <2>3. CASE call.dispsz = 0 /\ call.base % 8 = 5
      <3>1. req.mod = 1 /\ NeedsZeroDisp(call)
        BY <2>1, <2>2, <2>3
      <3>2. DispLen(call) = 1
        BY <1>6, <2>3, <3>1 DEF DispLen
      <3> QED
        BY <1>6, <3>1, <3>2 DEF HasDispRegular
    <2>4. CASE call.dispsz = 0 /\ call.base % 8 # 5
      <3>1. req.mod = 0 /\ ~NeedsZeroDisp(call)
        BY <2>1, <2>2, <2>4 DEF ModVal
      <3>2. DispLen(call) = 0
        BY <1>6, <2>4, <3>1 DEF DispLen
      <3>3. req.rm # 5 /\ (req.has_sib => req.sibbase # 5)
        BY <2>1, <2>4
      <3> QED
        BY <1>6, <3>1, <3>2, <3>3 DEF HasDispRegular
    <2>5. CASE call.dispsz = 8
      <3>1. DispLen(call) = 1 /\ req.mod = 1
        BY <1>2, <2>1, <2>2, <2>5 DEF DispLen, ModVal
      <3> QED
        BY <1>6, <3>1 DEF HasDispRegular
    <2>6. CASE call.dispsz = 32
      <3>1. DispLen(call) = 4 /\ req.mod = 2
        BY <1>2, <2>1, <2>2, <2>6 DEF DispLen, ModVal
      <3> QED
        BY <1>6, <3>1 DEF HasDispRegular
    <2> QED
      BY <1>1, <1>6, <2>3, <2>4, <2>5, <2>6
  <1> QED
    BY <1>4, <1>5, <1>6

LEMMA ModrmStep ==
    ASSUME Offered, NEW s \in ScanType, Clean(s), AtModrm(s)
    PROVE  LET t == Step(Asked, s) IN Clean(t) /\ AtSib(t)
  <1> DEFINE n == s.length
             b == Byte(n)
             t == Step(Asked, s)
             f == call.form
             w == HasDispRegular(call.mode, req.mod, req.rm)
             m == ModrmRead(s.mrm, ModrmTrue, n, b, req.has_sib)
             d == DispIs(s.imd, w)
  <1>1. t = AfterModrmScanner(Asked, s)
    BY DEF Step, AtModrm
  <1>2. /\ Encoded /\ Asked.max_bytes = 15 /\ Asked.cfg = cfg /\ (\A i : ByteOf(Asked, i) = Byte(i))
        /\ cfg.mode = call.mode /\ Op \in Nat /\ Op <= 5
    BY AskedIs, Zenon
  <1>3. n = Op + 1 /\ PfxDone(s.pfx) /\ FormRead(s.enc)
        /\ s.mrm \in MrmType /\ s.imd \in ImdType
    BY DEF AtModrm, ScanType
  <1>4. ModrmOf(cfg, s.enc) = ModrmTrue
    <2> DEFINE info == MapInfo(f.space, f.map)
    <2>1. /\ info.modrm # No
          /\ info.modrm = Var => ModrmCode(f.space, f.map, f.opcode) = ModrmTrue
      BY <1>2, FormIs, Zenon DEF PlainForm
    <2>2. f.space \in Spaces /\ f.map \in MapIds
      BY <1>2, FormIs DEF Spaces, MapIds
    <2>3. info.modrm \in 0..2
      BY <2>2, MapInfoRange DEF InfoType
    <2>4. info.modrm = Yes \/ info.modrm = Var
      BY <2>1, <2>3 DEF No, Yes, Var
    <2>5. s.enc.info = info /\ s.enc.vexvalid = f.space /\ s.enc.map = f.map /\
          s.enc.opcode = f.opcode
      BY <1>3 DEF FormRead, FormKnown
    <2>6. ModrmTrue # ModrmUd0 /\ Yes # No /\ Yes # Var /\ Var # No
      BY DEF ModrmTrue, ModrmUd0, Yes, No, Var
    <2> HIDE DEF info, f
    <2> QED
      BY <2>1, <2>4, <2>5, <2>6, Zenon DEF ModrmOf
  <1>5. Bits(b, 6, 2) = req.mod /\ Bits(b, 3, 3) = req.reg /\ Bits(b, 0, 3) = req.rm
    <2>1. b = ModrmOut
      BY <1>2, <1>3, Layout, Zenon
    <2>2. req.mod \in 0..3 /\ req.reg \in 0..7 /\ req.rm \in 0..7
      BY <1>2, RequestRange
    <2> DEFINE x == req.mod
               y == req.reg
               z == req.rm
    <2>3. x \in 0..3 /\ y \in 0..7 /\ z \in 0..7
      BY <2>2
    <2>4. b = 64 * x + 8 * y + z
      BY <2>1, Zenon DEF ModrmOut
    <2> HIDE DEF b, x, y, z
    <2>5. Bits(b, 6, 2) = x /\ Bits(b, 3, 3) = y /\ Bits(b, 0, 3) = z
      BY ONLY <2>3, <2>4, ModrmBits
    <2> QED
      BY <2>5, Zenon DEF x, y, z
  <1>6. EaMode(Asked.cfg.mode, s.pfx.asz) = call.mode
    <2>1. s.pfx.asz = 0
      BY <1>3 DEF PfxDone, NoLegacyPrefix
    <2> QED
      BY <1>2, <2>1, Zenon DEF EaMode
  <1>7. t = Says(With(Goes(s, "sib", n + 1, n + 1), s.pfx, s.enc, m, d), s.error)
    <2>1. ModrmTrue # ModrmFalse /\ ModrmTrue # ModrmIgnoreMod
      BY DEF ModrmTrue, ModrmFalse, ModrmIgnoreMod
    <2>2. ~(n >= 15) /\ s.enc.llrc # 3
      BY <1>2, <1>3 DEF FormRead, FormKnown
    <2>3. ModrmOf(Asked.cfg, s.enc) = ModrmTrue /\ ByteOf(Asked, n) = b
      BY <1>2, <1>4, Zenon
    <2>4. (ModrmTrue # ModrmIgnoreMod /\ HasSib(call.mode, req.mod, req.rm)) = req.has_sib
      <3>1. HasSib(call.mode, req.mod, req.rm) <=> req.has_sib
        BY <1>2, SibIs, Zenon
      <3>2. HasSib(call.mode, req.mod, req.rm) \in BOOLEAN /\ req.has_sib \in BOOLEAN
        BY <1>2, RequestRange DEF HasSib
      <3> HIDE DEF t
      <3> QED
        BY <2>1, <3>1, <3>2
    <2> HIDE DEF b, n
    <2>5. AfterModrmScanner(Asked, s)
          = Says(With(Goes(s, "sib", n + 1, n + 1), s.pfx, s.enc,
                       ModrmRead(s.mrm, ModrmTrue, n, b, ModrmTrue # ModrmIgnoreMod /\
                           HasSib(call.mode, req.mod, req.rm)),
                       DispIs(s.imd, w)), s.error)
      BY <1>2, <1>5, <1>6, <2>1, <2>2, <2>3, Zenon DEF AfterModrmScanner, n
    <2> QED
      BY <1>1, <2>4, <2>5, Zenon
  <1>8. /\ t.pc = "sib" /\ t.length = n + 1 /\ t.pfx = s.pfx /\ t.enc = s.enc /\ t.mrm = m /\
           t.imd = d
        /\ t.error = s.error /\ t.out_of_bytes = s.out_of_bytes
    BY <1>7 DEF Goes, State, With, Says
  <1>9. MrmRead(m)
    <2>1. m.mod = Bits(b, 6, 2) /\ m.reg = Bits(b, 3, 3) /\ m.rm = Bits(b, 0, 3) /\
          m.has_sib = req.has_sib
      BY <1>3 DEF ModrmRead, MrmType
    <2> HIDE DEF m
    <2> QED
      BY <1>5, <2>1, Zenon DEF MrmRead
  <1>10. d.disp_width = w /\ d.imm_width = s.imd.imm_width /\ d.imm1_bytes = s.imd.imm1_bytes
    BY <1>3 DEF DispIs, ImdType
  <1> HIDE DEF t, m, d
  <1>11. Clean(t)
    BY <1>8, <1>10 DEF Clean
  <1>12. AtSib(t)
    BY <1>2, <1>3, <1>8, <1>9, <1>10 DEF AtSib
  <1> QED
    BY <1>11, <1>12 DEF t

LEMMA SibStep ==
    ASSUME Offered, NEW s \in ScanType, Clean(s), AtSib(s)
    PROVE  LET t == Step(Asked, s) IN Clean(t) /\ AtDisp(t)
  <1> DEFINE n == s.length
             t == Step(Asked, s)
  <1>1. t = AfterSibScanner(Asked, s)
    BY DEF Step, AtSib
  <1>2. /\ Encoded /\ Asked.max_bytes = 15 /\ (\A i : ByteOf(Asked, i) = Byte(i))
        /\ Op \in Nat /\ Op <= 5 /\ DispAt = Op + 2 + SibLen
    BY AskedIs, Zenon
  <1>3. n = Op + 2 /\ PfxDone(s.pfx) /\ FormRead(s.enc) /\ MrmRead(s.mrm)
        /\ s.mrm \in MrmType /\ s.imd \in ImdType
    BY DEF AtSib, ScanType
  <1>4. s.imd.disp_width = DispLen(call)
    BY <1>2, DispWidthIs DEF AtSib
  <1>5. CASE ~req.has_sib
    <2>1. ~s.mrm.has_sib /\ SibLen = 0 /\ DispAt = n
      BY <1>2, <1>3, <1>5 DEF MrmRead, SibLen
    <2>2. t = Goes(s, "disp", n, 0)
      BY <1>1, <2>1, Zenon DEF AfterSibScanner
    <2>3. /\ t.pc = "disp" /\ t.length = n /\ t.pfx = s.pfx /\ t.enc = s.enc /\ t.mrm = s.mrm
          /\ t.imd = s.imd /\ t.error = s.error /\ t.out_of_bytes = s.out_of_bytes
      BY <2>2 DEF Goes, State
    <2> HIDE DEF t
    <2>4. Clean(t) /\ AtDisp(t)
      BY <1>3, <1>4, <1>5, <2>1, <2>3 DEF Clean, AtDisp, OperandRead, FormRead
    <2> QED
      BY <2>4 DEF t
  <1>6. CASE req.has_sib
    <2> DEFINE m == [s.mrm EXCEPT !.pos_sib = n]
               d == DispIs(s.imd, s.imd.disp_width)
    <2>1. s.mrm.has_sib /\ SibLen = 1 /\ DispAt = n + 1 /\ ~(n >= 15) /\ s.mrm.mod = req.mod
      BY <1>2, <1>3, <1>6 DEF MrmRead, SibLen
    <2>2. Bits(ByteOf(Asked, n), 0, 3) = req.sibbase
      <3>1. ByteOf(Asked, n) = SibOut
        BY <1>2, <1>3, <1>6, Layout, Zenon
      <3>2. req.sibscale \in 0..3 /\ req.sibindex \in 0..7 /\ req.sibbase \in 0..7
        BY <1>2, RequestRange
      <3> DEFINE b == ByteOf(Asked, n)
                 x == req.sibscale
                 y == req.sibindex
                 z == req.sibbase
      <3>3. x \in 0..3 /\ y \in 0..7 /\ z \in 0..7
        BY <3>2
      <3>4. b = 64 * x + 8 * y + z
        BY <3>1, Zenon DEF SibOut
      <3> HIDE DEF b, x, y, z
      <3>5. Bits(b, 0, 3) = z
        BY ONLY <3>3, <3>4, ModrmBits
      <3> QED
        BY <3>5, Zenon DEF b, z
    <2>3. ~(req.sibbase = 5 /\ req.mod = 0)
      BY <1>2, <1>6, DispWidthIs
    <2>4. t = With(Goes(s, "disp", n + 1, n + 1), s.pfx, s.enc, m, d)
      <3>1. ~(n >= Asked.max_bytes)
        BY <1>2, <2>1, Zenon
      <3> HIDE DEF n
      <3>2. AfterSibScanner(Asked, s) = With(Goes(s, "disp", n + 1, n + 1), s.pfx, s.enc, m, d)
        BY <2>1, <2>2, <2>3, <3>1, Zenon DEF AfterSibScanner, n
      <3> QED
        BY <1>1, <3>2, Zenon
    <2>5. /\ t.pc = "disp" /\ t.length = n + 1 /\ t.pfx = s.pfx /\ t.enc = s.enc /\ t.mrm = m
          /\ t.imd = d /\ t.error = s.error /\ t.out_of_bytes = s.out_of_bytes
      BY <2>4 DEF Goes, State, With
    <2>6. m.mod = s.mrm.mod /\ m.reg = s.mrm.reg /\ m.rm = s.mrm.rm /\ m.has_sib = s.mrm.has_sib
          /\ m.pos_sib = n
      BY <1>3 DEF MrmType
    <2>7. d.disp_width = s.imd.disp_width /\ d.imm_width = s.imd.imm_width /\
          d.imm1_bytes = s.imd.imm1_bytes
      BY <1>3 DEF DispIs, ImdType
    <2> HIDE DEF t, m, d
    <2>8. Clean(t)
      BY <2>5, <2>7 DEF Clean
    <2>9. MrmRead(m)
      BY <1>3, <2>6 DEF MrmRead
    <2>10. AtDisp(t)
      BY <1>3, <1>4, <2>1, <2>5, <2>6, <2>7, <2>9 DEF AtDisp, OperandRead, FormRead
    <2> QED
      BY <2>8, <2>10 DEF t
  <1> QED
    BY <1>5, <1>6

LEMMA ContextIs ==
    ASSUME Offered, NEW s \in ScanType
    PROVE  ContextOf(cfg, s) \in Context
  <1>1. cfg.mode \in Modes /\ s.pfx \in PfxType /\ s.enc \in EncType /\ s.mrm \in MrmType
    BY DEF Offered, Config, ScanType
  <1>2. s.pfx.osz \in Bit /\ s.pfx.asz \in Bit /\ s.pfx.f2 \in Bit
    BY <1>1 DEF PfxType
  <1>3. s.enc.rexw \in Bit /\ s.enc.rex2 \in Bit
    BY <1>1 DEF EncType
  <1>4. s.mrm.reg \in 0..7
    BY <1>1 DEF MrmType
  <1> QED
    BY <1>1, <1>2, <1>3, <1>4 DEF ContextOf, Context

LEMMA DispStep ==
    ASSUME Offered, NEW s \in ScanType, Clean(s), AtDisp(s)
    PROVE  LET t == Step(Asked, s) IN Clean(t) /\ AtImm(t)
  <1> DEFINE n == s.length
             t == Step(Asked, s)
             w == DispLen(call)
             f == call.form
  <1>1. t = AfterDispScanner(Asked, s)
    BY DEF Step, AtDisp
  <1>2. /\ Encoded /\ Asked.max_bytes = 15 /\ Asked.cfg = cfg
        /\ DispAt = Op + 2 + SibLen /\ Op \in Nat /\ SibLen \in 0..1 /\ w \in {0, 1, 2, 4}
        /\ Len(emitted) = DispAt + w /\ Len(emitted) <= 12
    BY AskedIs, Zenon
  <1>3. n = DispAt /\ OperandRead(s) /\ s.imd.disp_width = w /\ FormRead(s.enc)
        /\ s.imd \in ImdType
    BY DEF AtDisp, OperandRead, ScanType
  <1>4. DispOf(Asked.cfg, s) = w
    <2> DEFINE cx == ContextOf(cfg, s)
    <2>1. cx \in Context
      BY ContextIs
    <2>2. MapInfo(f.space, f.map).disp = Var => DispWidth(f.space, f.map, f.opcode, cx) = Keep
      BY <1>2, <2>1, FormIs, Zenon DEF PlainForm
    <2>3. s.enc.info = MapInfo(f.space, f.map) /\ s.enc.vexvalid = f.space /\ s.enc.map = f.map
          /\ s.enc.opcode = f.opcode
      BY <1>3 DEF FormRead, FormKnown
    <2> HIDE DEF f, w, cx
    <2> QED
      BY <1>2, <1>3, <2>2, <2>3, Zenon DEF DispOf, cx
  <1>5. CASE w = 0
    <2> DEFINE d == DispIs(s.imd, 0)
    <2>1. t = WithImd(Goes(s, "imm", n, 0), d)
      BY <1>1, <1>4, <1>5, Zenon DEF AfterDispScanner
    <2>2. /\ t.pc = "imm" /\ t.length = n /\ t.pfx = s.pfx /\ t.enc = s.enc /\ t.mrm = s.mrm
          /\ t.imd = d /\ t.error = s.error /\ t.out_of_bytes = s.out_of_bytes
      BY <2>1 DEF Goes, State, With, WithImd
    <2>3. d.disp_width = 0 /\ d.imm_width = s.imd.imm_width /\ d.imm1_bytes = s.imd.imm1_bytes
      BY <1>3 DEF DispIs, ImdType
    <2>4. Len(emitted) = n
      BY <1>2, <1>3, <1>5
    <2> HIDE DEF t, d
    <2>5. Clean(t)
      BY <2>2, <2>3 DEF Clean
    <2>6. AtImm(t)
      BY <1>3, <1>5, <2>2, <2>3, <2>4 DEF AtImm, AllRead, OperandRead
    <2> QED
      BY <2>5, <2>6 DEF t
  <1>6. CASE w # 0
    <2> DEFINE d == DispFound(s.imd, w, n)
    <2>1. n + w <= 15 /\ Len(emitted) = n + w
      BY <1>2, <1>3
    <2>2. t = WithImd(Goes(s, "imm", n + w, n + w), d)
      <3>1. n + w <= Asked.max_bytes
        BY <1>2, <2>1, Zenon
      <3> HIDE DEF w
      <3> QED
        BY <1>1, <1>4, <1>6, <3>1, Zenon DEF AfterDispScanner
    <2>3. /\ t.pc = "imm" /\ t.length = n + w /\ t.pfx = s.pfx /\ t.enc = s.enc /\ t.mrm = s.mrm
          /\ t.imd = d /\ t.error = s.error /\ t.out_of_bytes = s.out_of_bytes
      BY <2>2 DEF Goes, State, With, WithImd
    <2>4. d.disp_width = w /\ d.imm_width = s.imd.imm_width /\ d.imm1_bytes = s.imd.imm1_bytes
          /\ d.pos_disp = n
      BY <1>3 DEF DispFound, ImdType
    <2> HIDE DEF t, d
    <2>5. Clean(t)
      BY <2>3, <2>4 DEF Clean
    <2>6. AtImm(t)
      BY <1>3, <2>1, <2>3, <2>4 DEF AtImm, AllRead, OperandRead
    <2> QED
      BY <2>5, <2>6 DEF t
  <1> QED
    BY <1>5, <1>6

LEMMA ImmStep ==
    ASSUME Offered, NEW s \in ScanType, Clean(s), AtImm(s)
    PROVE  LET t == Step(Asked, s) IN Clean(t) /\ (AtLateEvex(t) \/ AtDone(t))
  <1> DEFINE n == s.length
             t == Step(Asked, s)
             f == call.form
             d == ImmIs(s.imd, 0, 0)
             to == IF f.space = Evex THEN "late_evex" ELSE "done"
  <1>1. t = AfterImmScanner(Asked, s)
    BY DEF Step, AtImm
  <1>2. Encoded /\ Asked.cfg = cfg
    BY AskedIs, Zenon
  <1>3. AllRead(s) /\ FormRead(s.enc) /\ s.imd \in ImdType
        /\ s.imd.imm_width = 0 /\ s.imd.imm1_bytes = 0
    BY DEF AtImm, AllRead, OperandRead, ScanType, Clean
  <1>4. s.enc.info = MapInfo(f.space, f.map) /\ s.enc.vexvalid = f.space /\ s.enc.map = f.map
        /\ s.enc.opcode = f.opcode /\ s.enc.amd3dnow = FALSE
    BY <1>3 DEF FormRead, FormKnown
  <1>5. ImmOf(Asked.cfg, s) = [imm |-> 0, imm1 |-> 0]
    <2> DEFINE cx == ContextOf(cfg, s)
               info == MapInfo(f.space, f.map)
    <2>1. cx \in Context
      BY ContextIs
    <2>2. \/ info.imm = 0
          \/ info.imm = ImmVar /\ ImmWidth(f.space, f.map, f.opcode, cx) = [imm |-> 0, imm1 |-> 0]
      BY <1>2, <2>1, FormIs, Zenon DEF PlainForm
    <2>3. 0 # ImmVar
      BY DEF ImmVar
    <2> HIDE DEF f, cx, info
    <2>4. CASE info.imm = 0
      BY <1>2, <1>3, <1>4, <2>3, <2>4, Zenon DEF ImmOf, info
    <2>5. CASE info.imm = ImmVar /\ ImmWidth(f.space, f.map, f.opcode, cx) = [imm |-> 0, imm1 |-> 0]
      BY <1>2, <1>3, <1>4, <2>5, Zenon DEF ImmOf, info, cx
    <2> QED
      BY <2>2, <2>4, <2>5
  <1>6. ImmOf(Asked.cfg, s).imm = 0 /\ ImmOf(Asked.cfg, s).imm1 = 0
    BY <1>5
  <1>7. t = WithImd(Goes(s, to, n, 0), d)
    BY <1>1, <1>4, <1>6, Zenon DEF AfterImmScanner
  <1>8. /\ t.pc = to /\ t.length = n /\ t.pfx = s.pfx /\ t.enc = s.enc /\ t.mrm = s.mrm
        /\ t.imd = d /\ t.error = s.error /\ t.out_of_bytes = s.out_of_bytes
    BY <1>7 DEF Goes, State, With, WithImd
  <1>9. d.disp_width = s.imd.disp_width /\ d.imm_width = 0 /\ d.imm1_bytes = 0
        /\ d.pos_disp = s.imd.pos_disp
    BY <1>3 DEF ImmIs, ImdType
  <1> HIDE DEF t, d
  <1>10. Clean(t)
    BY <1>8, <1>9 DEF Clean
  <1>11. AllRead(t) /\ FormRead(t.enc)
    BY <1>3, <1>8, <1>9 DEF AllRead, OperandRead
  <1>12. AtLateEvex(t) \/ AtDone(t)
    BY <1>8, <1>11 DEF AtLateEvex, AtDone
  <1> QED
    BY <1>10, <1>12 DEF t

LEMMA LateEvexStep ==
    ASSUME Offered, NEW s \in ScanType, Clean(s), AtLateEvex(s)
    PROVE  LET t == Step(Asked, s) IN Clean(t) /\ AtDone(t)
  <1> DEFINE t == Step(Asked, s)
             e == IF call.mode = Mode64 THEN [s.enc EXCEPT !.ubit = 1,
                 !.rexx4 = 1 - s.enc.ubit] ELSE s.enc
  <1>1. t = AfterLateEvex(Asked, s)
    BY DEF Step, AtLateEvex
  <1>2. Encoded /\ Asked.cfg = cfg /\ (HasApx(cfg) <=> call.mode = Mode64)
    BY AskedIs, Zenon
  <1>3. AllRead(s) /\ FormRead(s.enc) /\ s.mrm.mod = req.mod /\ s.enc \in EncType
        /\ call.form.space = Evex /\ s.enc.ubit = 1 - req.rexx4
    BY DEF AtLateEvex, AllRead, OperandRead, MrmRead, ScanType, FormRead
  <1>4. s.mrm.mod # 3 /\ req.rexx4 \in 0..1 /\ (call.mode # Mode64 => req.rexx4 = 0)
    BY <1>2, <1>3, RequestRange, RequestBits
  <1>5. t = WithEnc(Goes(s, "done", s.length, 0), e)
    BY <1>1, <1>2, <1>4, Zenon DEF AfterLateEvex
  <1>6. /\ t.pc = "done" /\ t.length = s.length /\ t.pfx = s.pfx /\ t.enc = e /\ t.mrm = s.mrm
        /\ t.imd = s.imd /\ t.error = s.error /\ t.out_of_bytes = s.out_of_bytes
    BY <1>5 DEF Goes, State, With, WithEnc
  <1>7. e.rexx4 = req.rexx4
    <2>1. s.enc.rexx4 = 0
      BY <1>3 DEF FormRead
    <2>2. CASE call.mode = Mode64
      <3>1. e = [s.enc EXCEPT !.ubit = 1, !.rexx4 = 1 - s.enc.ubit]
        BY <2>2, Zenon
      <3>2. e.rexx4 = 1 - s.enc.ubit
        BY <1>3, <3>1 DEF EncType
      <3>3. 1 - s.enc.ubit = req.rexx4
        BY <1>3, <1>4
      <3> QED
        BY <3>2, <3>3, Zenon
    <2>3. CASE call.mode # Mode64
      BY <1>4, <2>1, <2>3
    <2> QED
      BY <2>2, <2>3
  <1>8. e.vexvalid = s.enc.vexvalid /\ e.map = s.enc.map /\ e.opcode = s.enc.opcode /\
        e.info = s.enc.info
        /\ e.rex2 = s.enc.rex2 /\ e.llrc = s.enc.llrc /\ e.amd3dnow = s.enc.amd3dnow
    BY <1>3 DEF EncType
  <1> HIDE DEF t, e
  <1>9. Clean(t)
    BY <1>6 DEF Clean
  <1>10. FormKnown(e)
    BY <1>3, <1>8, Zenon DEF FormRead, FormKnown
  <1>11. AtDone(t)
    BY <1>3, <1>6, <1>7, <1>10 DEF AtDone, AllRead, OperandRead
  <1> QED
    BY <1>9, <1>11 DEF t

-----------------------------------------------------------------------------
(***************************************************************************)
(* DecodeInv is inductive: every scanner finds what the encoder wrote.     *)
(***************************************************************************)

(* Every scanner finds its part of what was emitted. *)
LEMMA ReadOn ==
    ASSUME Offered, NEW s \in ScanType, ReadSoFar(s), s.pc # "done"
    PROVE  ReadSoFar(Step(Asked, s))
  <1> DEFINE t == Step(Asked, s)
  <1>1. Clean(s)
    BY DEF ReadSoFar
  <1>2. CASE AtPrefix(s)
    <2>1. Clean(t) /\ (AtPrefix(t) \/ AtVex(t))
      BY <1>1, <1>2, PrefixStep
    <2> QED
      BY <2>1, Zenon DEF ReadSoFar
  <1>3. CASE AtVex(s)
    <2>1. Clean(t) /\ AtEvex(t)
      BY <1>1, <1>3, VexStep
    <2> QED
      BY <2>1, Zenon DEF ReadSoFar
  <1>4. CASE AtEvex(s)
    <2>1. Clean(t) /\ (AtCatchInvalid(t) \/ AtRex2(t))
      BY <1>1, <1>4, EvexStep
    <2> QED
      BY <2>1, Zenon DEF ReadSoFar
  <1>5. CASE AtCatchInvalid(s)
    <2>1. Clean(t) /\ AtModrm(t)
      BY <1>1, <1>5, CatchInvalidStep
    <2> QED
      BY <2>1, Zenon DEF ReadSoFar
  <1>6. CASE AtRex2(s)
    <2>1. Clean(t) /\ (AtModrm(t) \/ AtOpcode(t))
      BY <1>1, <1>6, Rex2Step
    <2> QED
      BY <2>1, Zenon DEF ReadSoFar
  <1>7. CASE AtOpcode(s)
    <2>1. Clean(t) /\ AtModrm(t)
      BY <1>1, <1>7, OpcodeStep
    <2> QED
      BY <2>1, Zenon DEF ReadSoFar
  <1>8. CASE AtModrm(s)
    <2>1. Clean(t) /\ AtSib(t)
      BY <1>1, <1>8, ModrmStep
    <2> QED
      BY <2>1, Zenon DEF ReadSoFar
  <1>9. CASE AtSib(s)
    <2>1. Clean(t) /\ AtDisp(t)
      BY <1>1, <1>9, SibStep
    <2> QED
      BY <2>1, Zenon DEF ReadSoFar
  <1>10. CASE AtDisp(s)
    <2>1. Clean(t) /\ AtImm(t)
      BY <1>1, <1>10, DispStep
    <2> QED
      BY <2>1, Zenon DEF ReadSoFar
  <1>11. CASE AtImm(s)
    <2>1. Clean(t) /\ (AtLateEvex(t) \/ AtDone(t))
      BY <1>1, <1>11, ImmStep
    <2> QED
      BY <2>1, Zenon DEF ReadSoFar
  <1>12. CASE AtLateEvex(s)
    <2>1. Clean(t) /\ AtDone(t)
      BY <1>1, <1>12, LateEvexStep
    <2> QED
      BY <2>1, Zenon DEF ReadSoFar
  <1>13. ~AtDone(s)
    BY Zenon DEF AtDone
  <1> QED
    BY <1>2, <1>3, <1>4, <1>5, <1>6, <1>7, <1>8, <1>9, <1>10, <1>11, <1>12, <1>13,
       Zenon DEF ReadSoFar

LEMMA ReadFromTheStart == Scan = StartOfScan => ReadSoFar(Scan)
  <1> SUFFICES ASSUME Scan = StartOfScan  PROVE ReadSoFar(Scan)
    OBVIOUS
  <1>1. /\ Scan.pc = "prefix" /\ Scan.length = 0 /\ Scan.error = "NONE" /\ Scan.out_of_bytes = FALSE
        /\ Scan.pfx = NoPfx /\ Scan.enc = NoEnc /\ Scan.imd = NoImd
    BY DEF StartOfScan, State
  <1>2. NoVector(NoEnc) /\ NoImd.imm_width = 0 /\ NoImd.imm1_bytes = 0
    BY DEF NoVector, NoEnc, NoImd
  <1>3. SegBytes = <<>> \/ (\E b : SegBytes = <<b>>)
    BY DEF SegBytes
  <1>4. Len(SegBytes) \in {0, 1}
    BY <1>3
  <1>5. 0 <= Pre /\ (RexOut => 0 # Pre)
    <2> DEFINE ns == Len(SegBytes)
    <2>1. ns \in {0, 1} /\ Pre = ns + (IF RexOut THEN 1 ELSE 0)
      BY <1>4 DEF Pre
    <2> HIDE DEF ns
    <2> QED
      BY <2>1
  <1>6. PfxSoFar(NoPfx, 0)
    BY <1>5 DEF PfxSoFar, NoLegacyPrefix, NoPfx
  <1> QED
    BY <1>1, <1>2, <1>6, Zenon DEF ReadSoFar, Clean, AtPrefix

LEMMA ReadIsOfTheCall ==
    ASSUME call' = call, req' = req, emitted' = emitted, NEW t, t = Scan', ReadSoFar(t)
    PROVE  ReadSoFar(Scan)'
  <1>1. SegBytes' = SegBytes /\ PrefixBytes' = PrefixBytes /\ Rxb' = Rxb /\ Rxb4' = Rxb4
    BY Zenon DEF SegBytes, PrefixBytes, LegacyPrefix, VexPrefix, EvexPrefix, Rxb, Rxb4, Rex,
       Rex2Prefix
  <1>2. (Wide' <=> Wide) /\ SibLen' = SibLen /\ SegKeptOf' = SegKeptOf /\
        DispLen(call)' = DispLen(call)
    BY <1>1, Zenon DEF Wide, SibLen, SegKeptOf, DispLen, NeedsZeroDisp
  <1>3. (RexOut' <=> RexOut) /\ Op' = Op
    BY <1>1, <1>2, Zenon DEF RexOut, Op
  <1>4. Pre' = Pre /\ DispAt' = DispAt
    BY <1>1, <1>2, <1>3, Zenon DEF Pre, DispAt
  <1> USE DEF PfxDone, FormRead, FormKnown, NoVector, MrmRead
  <1>5. AtPrefix(t) => AtPrefix(Scan)'
    BY <1>1, <1>2, <1>3, <1>4, Zenon DEF AtPrefix, PfxSoFar
  <1>6. AtVex(t) => AtVex(Scan)'
    BY <1>1, <1>2, <1>3, <1>4, Zenon DEF AtVex
  <1>7. AtEvex(t) => AtEvex(Scan)'
    BY <1>1, <1>2, <1>3, <1>4, Zenon DEF AtEvex
  <1>8. AtCatchInvalid(t) => AtCatchInvalid(Scan)'
    BY <1>1, <1>2, <1>3, <1>4, Zenon DEF AtCatchInvalid
  <1>9. AtRex2(t) => AtRex2(Scan)'
    BY <1>1, <1>2, <1>3, <1>4, Zenon DEF AtRex2
  <1>10. AtOpcode(t) => AtOpcode(Scan)'
    BY <1>1, <1>2, <1>3, <1>4, Zenon DEF AtOpcode
  <1>11. AtModrm(t) => AtModrm(Scan)'
    BY <1>1, <1>2, <1>3, <1>4, Zenon DEF AtModrm
  <1>12. AtSib(t) => AtSib(Scan)'
    BY <1>1, <1>2, <1>3, <1>4, Zenon DEF AtSib
  <1>13. AtDisp(t) => AtDisp(Scan)'
    BY <1>1, <1>2, <1>3, <1>4, Zenon DEF AtDisp, OperandRead
  <1>14. AtImm(t) => AtImm(Scan)'
    BY <1>1, <1>2, <1>3, <1>4, Zenon DEF AtImm, AllRead, OperandRead
  <1>15. AtLateEvex(t) => AtLateEvex(Scan)'
    BY <1>1, <1>2, <1>3, <1>4, Zenon DEF AtLateEvex, AllRead, OperandRead
  <1>16. AtDone(t) => AtDone(Scan)'
    BY <1>1, <1>2, <1>3, <1>4, Zenon DEF AtDone, AllRead, OperandRead
  <1>17. Clean(t) => Clean(Scan)'
    BY Zenon DEF Clean
  <1> QED
    BY <1>5, <1>6, <1>7, <1>8, <1>9, <1>10, <1>11, <1>12, <1>13, <1>14, <1>15, <1>16, <1>17,
       Zenon DEF ReadSoFar

-----------------------------------------------------------------------------
(* The decode of the buffer. *)
ChipOf(c) == [mode |-> c.mode, no_vex |-> 0, no_evex |-> 0, no_apx |-> 0,
              could_support_xop |-> TRUE, mode_first_prefix |-> FALSE, mode_short_ud0 |-> FALSE]

NotStarted == State("idle", 0, FALSE, "NONE", 0, NoPfx, NoEnc, NoMrm, NoImd)

DecodeInv ==
    /\ cfg = ChipOf(call)
    /\ agen # "idle" => pc = "done"
    /\ pc = "idle" => Scan = NotStarted
    /\ pc # "idle" =>
          /\ stage = "emitted" /\ itext = Buffer /\ max_bytes = MaxInstructionBytes
          /\ IldInv
          /\ GoesRight(call) => ReadSoFar(Scan)

LEMMA InitDecode == InitMemop => DecodeInv
  <1> SUFFICES ASSUME InitMemop  PROVE DecodeInv
    OBVIOUS
  <1>1. cfg = ChipOf(call) /\ agen = "idle" /\ pc = "idle"
    BY DEF InitMemop, InitAgen, ChipOf
  <1>2. Scan = NotStarted
    BY Zenon DEF InitMemop, Scan, NotStarted
  <1> QED
    BY <1>1, <1>2 DEF DecodeInv

LEMMA OfferedIs ==
    ASSUME EncoderInv, EmitInv, cfg = ChipOf(call), stage = "emitted", itext = Buffer,
           max_bytes = MaxInstructionBytes, GoesRight(call)
    PROVE  Offered
  <1>1. call.mode \in Modes
    BY CallFields DEF EncoderInv
  <1>2. /\ cfg.mode = call.mode /\ cfg.no_vex = 0 /\ cfg.no_evex = 0 /\ cfg.no_apx = 0 /\
           cfg \in Config
    BY <1>1 DEF ChipOf, Config, Bit
  <1> QED
    BY <1>2 DEF Offered, Encoded

LEMMA ScanTyped == ASSUME IldInv  PROVE Scan \in ScanType /\ pc # "idle"
  BY DEF IldInv, TypeOK, Scan, State, ScanType, Pcs

LEMMA NextRuns == Next => pc # "done" /\ pc # "idle"
  BY DEF Next, PrefixByte, PrefixesOut, VexNone, VexShort, VexC4, VexC5, VexXop, EvexNone,
     EvexShort,
     EvexBadMap, EvexScan, CatchInvalid, Rex2None, Rex2, OpcodeMap0, OpcodeShort, OpcodeMap1,
         OpcodeMap23,
     Opcode3DNow, AtEscape, ModrmScanner, SibScanner, DispScanner, ImmScanner3DNow, ImmScanner,
         LateEvex

LEMMA StartsDecode == ASSUME EncoderInv, DecodeInv, StartDecode  PROVE DecodeInv'
  <1>1. /\ stage = "emitted" /\ pc = "idle" /\ itext' = Buffer /\ max_bytes' = MaxInstructionBytes
        /\ pc' = "prefix" /\ cfg' = cfg /\ length' = length /\ out_of_bytes' = out_of_bytes
        /\ error' = error /\ reads' = reads /\ pfx' = pfx /\ enc' = enc /\ mrm' = mrm /\ imd' = imd
        /\ stage' = stage /\ call' = call /\ req' = req /\ emitted' = emitted /\ agen' = agen
    BY DEF StartDecode, enc2vars, agenvars
  <1>2. Scan = NotStarted /\ cfg = ChipOf(call) /\ agen = "idle"
    BY <1>1 DEF DecodeInv
  <1>3. /\ length = 0 /\ out_of_bytes = FALSE /\ error = "NONE" /\ reads = 0
        /\ pfx = NoPfx /\ enc = NoEnc /\ mrm = NoMrm /\ imd = NoImd
    BY <1>2 DEF NotStarted, Scan, State
  <1>4. itext' \in Seq(Byte256) /\ max_bytes' \in Pos
    <2>1. emitted \in Seq(Byte256) /\ Len(emitted) \in Nat /\ Len(emitted) <= 12
      BY DEF EncoderInv, Twelve
    <2> DEFINE zeros == [i \in 1..(MaxInstructionBytes - Len(emitted)) |-> 0]
    <2>2. zeros \in Seq(Byte256)
      BY <2>1, MemopAssumption DEF Byte256
    <2>3. itext' = emitted \o zeros
      BY <1>1 DEF Buffer
    <2> HIDE DEF zeros
    <2> QED
      BY <1>1, <2>1, <2>2, <2>3, MaxAssumption DEF Pos
  <1>5. cfg \in Config
    <2>1. call.mode \in Modes
      BY CallFields DEF EncoderInv
    <2> QED
      BY <1>2, <2>1 DEF ChipOf, Config, Bit
  <1>6. Started'
    BY <1>1, <1>3, <1>4, <1>5 DEF Started
  <1>7. IldInv'
    BY <1>6, StartedInv, PTL
  <1>8. Buffer' = Buffer /\ ChipOf(call)' = ChipOf(call)
    BY <1>1, Zenon DEF Buffer, ChipOf
  <1>9. ReadSoFar(Scan)'
    <2>1. (Scan = StartOfScan)'
      BY <1>1, <1>3, Zenon DEF Scan, StartOfScan
    <2> QED
      BY <2>1, ReadFromTheStart, PTL
  <1> QED
    BY <1>1, <1>2, <1>7, <1>8, <1>9 DEF DecodeInv

LEMMA DecodesOn == ASSUME EncoderInv, EmitInv, DecodeInv, Ild  PROVE DecodeInv'
  <1>1. Next /\ stage' = stage /\ call' = call /\ req' = req /\ emitted' = emitted /\ agen' = agen
    BY DEF Ild, enc2vars, agenvars
  <1>2. pc # "done" /\ pc # "idle"
    BY <1>1, NextRuns
  <1>3. /\ cfg = ChipOf(call) /\ agen = "idle" /\ stage = "emitted" /\ itext = Buffer
        /\ max_bytes = MaxInstructionBytes /\ IldInv /\ (GoesRight(call) => ReadSoFar(Scan))
    BY <1>2 DEF DecodeInv
  <1>4. IldInv'
    BY <1>1, <1>3, NextInv
  <1>5. pc' # "idle"
    BY <1>4 DEF IldInv, TypeOK, Pcs
  <1>6. itext' = itext /\ max_bytes' = max_bytes /\ cfg' = cfg
    BY <1>1, InputsStay DEF inputs
  <1>7. Buffer' = Buffer /\ ChipOf(call)' = ChipOf(call) /\ (GoesRight(call)' <=> GoesRight(call))
    BY <1>1, Zenon DEF Buffer
  <1>8. ASSUME GoesRight(call)  PROVE ReadSoFar(Scan)'
    <2>1. Offered
      BY <1>3, <1>8, OfferedIs
    <2>2. Scan \in ScanType /\ Scan.pc # "done"
      BY <1>2, <1>3, ScanTyped, ScanFields
    <2>3. Scan' = Step(Asked, Scan)
      BY <1>1, <1>3, StepIsTheScan
    <2>4. ReadSoFar(Step(Asked, Scan))
      BY <1>3, <1>8, <2>1, <2>2, ReadOn
    <2> QED
      BY <1>1, <2>3, <2>4, ReadIsOfTheCall
  <1> QED
    BY <1>1, <1>3, <1>4, <1>5, <1>6, <1>7, <1>8 DEF DecodeInv

LEMMA DecodeKept ==
    ASSUME DecodeInv, UNCHANGED <<vars, enc2vars>>, agen' # "idle" => pc = "done"
    PROVE  DecodeInv'
  <1>1. /\ pc' = pc /\ itext' = itext /\ max_bytes' = max_bytes /\ cfg' = cfg /\ length' = length
        /\ out_of_bytes' = out_of_bytes /\ error' = error /\ reads' = reads /\ pfx' = pfx
        /\ enc' = enc /\ mrm' = mrm /\ imd' = imd
        /\ stage' = stage /\ call' = call /\ req' = req /\ emitted' = emitted
    BY DEF vars, enc2vars
  <1>2. Scan' = Scan /\ Buffer' = Buffer /\ ChipOf(call)' = ChipOf(call) /\
        (GoesRight(call)' <=> GoesRight(call))
        /\ NotStarted' = NotStarted
    BY <1>1, Zenon DEF Scan, Buffer
  <1>3. IldInv => IldInv'
    BY NextInv
  <1>4. ReadSoFar(Scan) => ReadSoFar(Scan)'
    BY <1>1, <1>2, ReadIsOfTheCall
  <1> QED
    BY <1>1, <1>2, <1>3, <1>4, Zenon DEF DecodeInv

LEMMA DecodeStep == EncoderInv /\ EmitInv /\ DecodeInv /\ [NextMemop]_allvars => DecodeInv'
  <1> SUFFICES ASSUME EncoderInv, EmitInv, DecodeInv, [NextMemop]_allvars
               PROVE  DecodeInv'
    OBVIOUS
  <1>1. CASE Encode
    <2>1. call' = call /\ UNCHANGED <<vars, agenvars>> /\ stage # "emitted"
      BY <1>1 DEF Encode, NextEnc2, CheckArguments, SetOperands, EmitPrefix, EmitOpcode, EmitDisp
    <2>2. pc = "idle" /\ agen = "idle"
      BY <2>1 DEF DecodeInv
    <2>3. Scan' = Scan /\ cfg' = cfg /\ pc' = pc /\ agen' = agen
      BY <2>1 DEF vars, agenvars, Scan
    <2> QED
      BY <2>1, <2>2, <2>3 DEF DecodeInv
  <1>2. CASE StartDecode
    BY <1>2, StartsDecode
  <1>3. CASE Ild
    BY <1>3, DecodesOn
  <1>4. CASE Capture
    BY <1>4, DecodeKept DEF Capture
  <1>5. CASE Agen
    <2>1. agen # "idle"
      BY <1>5 DEF Agen, NextAgen, AgenStart, BaseValue, SegmentValue, IndexValue, Address
    <2> QED
      BY <1>5, <2>1, DecodeKept DEF Agen, DecodeInv
  <1>6. CASE UNCHANGED allvars
    BY <1>6, DecodeKept DEF allvars, agenvars, DecodeInv
  <1> QED
    BY <1>1, <1>2, <1>3, <1>4, <1>5, <1>6 DEF NextMemop

-----------------------------------------------------------------------------
(***************************************************************************)
(* What a decode that has ended has read: the register and opcode          *)
(* extension bits.                                                         *)
(***************************************************************************)

(* The decode of what was emitted has come to its end. *)
Read == Offered /\ pc = "done" /\ Clean(Scan) /\ AtDone(Scan)

LEMMA ReadToTheEnd ==
    ASSUME EncoderInv, EmitInv, DecodeInv, pc = "done", GoesRight(call)
    PROVE  Read
  <1>1. ReadSoFar(Scan) /\ Offered
    BY OfferedIs DEF DecodeInv
  <1>2. Scan.pc = "done"
    BY ScanFields
  <1> QED
    BY <1>1, <1>2 DEF Read, ReadSoFar, AtPrefix, AtVex, AtEvex, AtCatchInvalid, AtRex2, AtOpcode,
       AtModrm, AtSib, AtDisp, AtImm, AtLateEvex

LEMMA ReadIs ==
    ASSUME Read
    PROVE  /\ Offered /\ Encoded /\ error = "NONE" /\ out_of_bytes = FALSE /\ length = Len(emitted)
           /\ PfxDone(pfx) /\ FormKnown(enc) /\ MrmRead(mrm) /\ imd.disp_width = DispLen(call)
           /\ req.has_sib => mrm.pos_sib = Op + 2
           /\ DispLen(call) # 0 => imd.pos_disp = DispAt
           /\ call.form.space = Evex => enc.rexx4 = req.rexx4
           /\ cfg.mode = call.mode /\ (mode_64b <=> call.mode = Mode64)
           /\ (decoder_supports_apx <=> call.mode = Mode64)
  <1>1. Scan.error = error /\ Scan.length = length /\ Scan.pfx = pfx /\ Scan.enc = enc /\
        Scan.mrm = mrm
        /\ Scan.imd = imd /\ Scan.out_of_bytes = out_of_bytes
    BY DEF Scan, State
  <1>2. Clean(Scan) /\ AllRead(Scan) /\ OperandRead(Scan) /\
        (call.form.space = Evex => Scan.enc.rexx4 = req.rexx4)
    BY DEF Read, AtDone, AllRead
  <1>3. Offered /\ Encoded /\ cfg.mode = call.mode /\ cfg.no_apx = 0
    BY DEF Read, Offered
  <1>4. (mode_64b <=> call.mode = Mode64) /\ (decoder_supports_apx <=> call.mode = Mode64)
    BY <1>3, Zenon DEF mode_64b, decoder_supports_apx
  <1>5. error = "NONE" /\ out_of_bytes = FALSE
    BY <1>1, <1>2, Zenon DEF Clean
  <1>6. length = Len(emitted) /\ (DispLen(call) # 0 => imd.pos_disp = DispAt)
    BY <1>1, <1>2, Zenon DEF AllRead
  <1>7. /\ PfxDone(pfx) /\ FormKnown(enc) /\ MrmRead(mrm) /\ imd.disp_width = DispLen(call)
        /\ req.has_sib => mrm.pos_sib = Op + 2
    BY <1>1, <1>2, Zenon DEF OperandRead
  <1> QED
    BY <1>1, <1>2, <1>3, <1>4, <1>5, <1>6, <1>7, Zenon

-----------------------------------------------------------------------------
(* The register bits are those of the request. *)
BitsAre(b) ==
    /\ b.r4 = req.rexr4 /\ b.r = req.rexr /\ b.x4 = req.rexx4 /\ b.x = req.rexx
    /\ b.b4 = req.rexb4 /\ b.b = req.rexb /\ b.v4 = req.evexvv

LEMMA PayloadIs == ASSUME Read, NEW i  PROVE Payload(i) = Byte(Pre + i)
  <1>1. pfx.nprefixes = Pre
    BY ReadIs DEF PfxDone
  <1> QED
    BY <1>1, Zenon DEF Payload

LEMMA EvexBitsRead ==
    ASSUME Read, call.form.space = Evex
    PROVE  BitsAre(EvexBits)
  <1> DEFINE b1 == Payload(1)
             b2 == Byte(Pre + 2)
             b3 == Payload(3)
             r == req.rexr
             x == req.rexx
             b0 == req.rexb
             r4 == req.rexr4
             b4 == req.rexb4
             x4 == req.rexx4
             v4 == req.evexvv
             m == call.form.map
  <1>1. Encoded /\ enc.rexx4 = x4 /\ (mode_64b <=> call.mode = Mode64)
        /\ (decoder_supports_apx <=> call.mode = Mode64)
    BY ReadIs, Zenon
  <1>2. /\ m \in 0..7 /\ r \in 0..1 /\ x \in 0..1 /\ b0 \in 0..1
        /\ r4 \in 0..1 /\ b4 \in 0..1 /\ x4 \in 0..1 /\ v4 \in 0..1
        /\ (call.mode # Mode64 => r = 0 /\ x = 0 /\ b0 = 0 /\ r4 = 0 /\ b4 = 0)
    BY <1>1, RequestBits, FormIs, Zenon
  <1>3. /\ b1 = 32 * (7 - (4 * r + 2 * x + b0)) + 16 * (1 - r4) + 8 * b4 + m
        /\ b2 = \h78 + 4 * (1 - x4) /\ b3 = 8 * (1 - v4)
    BY <1>1, VectorLayout, PayloadIs, Zenon DEF Rxb
  <1>4. /\ EvexBits.r4 = LongMode(Inverted(b1, 4)) /\ EvexBits.r = LongMode(Inverted(b1, 7))
        /\ EvexBits.x4 = enc.rexx4 /\ EvexBits.x = LongMode(Inverted(b1, 6))
        /\ EvexBits.b4 = (IF decoder_supports_apx THEN Bits(b1, 3, 1) ELSE 0)
        /\ EvexBits.b = LongMode(Inverted(b1, 5)) /\ EvexBits.v4 = Inverted(b3, 3)
    BY DEF EvexBits
  <1> HIDE DEF b1, b2, b3, r, x, b0, r4, b4, x4, v4, m
  <1>5. EvexBitsAre(b1, b2, b3, m, r, x, b0, r4, b4, x4, v4)
    BY ONLY <1>2, <1>3, EvexBytes
  <1>6. /\ Inverted(b1, 7) = r /\ Inverted(b1, 6) = x /\ Inverted(b1, 5) = b0 /\
           Inverted(b1, 4) = r4
        /\ Bits(b1, 3, 1) = b4 /\ Inverted(b3, 3) = v4
    BY <1>2, <1>5 DEF EvexBitsAre, Inverted
  <1>7. \A bit : LongMode(bit) = IF call.mode = Mode64 THEN bit ELSE 0
    BY <1>1, Zenon DEF LongMode
  <1>8. /\ LongMode(r) = r /\ LongMode(x) = x /\ LongMode(b0) = b0 /\ LongMode(r4) = r4
        /\ (IF decoder_supports_apx THEN b4 ELSE 0) = b4
    BY <1>1, <1>2, <1>7, Zenon
  <1> QED
    BY <1>1, <1>4, <1>6, <1>8, Zenon DEF BitsAre, r, x, b0, r4, b4, x4, v4

LEMMA VexBitsRead ==
    ASSUME Read, call.form.space = Vex
    PROVE  BitsAre(VexBits)
  <1> DEFINE p == Payload(1)
             r == req.rexr
             x == req.rexx
             b0 == req.rexb
             m == call.form.map
             two == [NoBits EXCEPT !.r = Inverted(p, 7)]
             three == [NoBits EXCEPT !.r = Inverted(p, 7), !.x = Inverted(p, 6),
                 !.b = LongMode(Inverted(p, 5))]
  <1>1. Encoded /\ (mode_64b <=> call.mode = Mode64) /\ call.form.space # Evex
    BY ReadIs DEF Vex, Evex
  <1>2. /\ m \in 0..7 /\ r \in 0..1 /\ x \in 0..1 /\ b0 \in 0..1
        /\ req.rexr4 = 0 /\ req.rexx4 = 0 /\ req.rexb4 = 0 /\ req.evexvv = 0
        /\ (call.mode # Mode64 => r = 0 /\ x = 0 /\ b0 = 0)
    BY <1>1, RequestBits, FormIs, Zenon
  <1>3. /\ two.r4 = 0 /\ two.r = Inverted(p, 7) /\ two.x4 = 0 /\ two.x = 0 /\ two.b4 = 0 /\
           two.b = 0 /\ two.v4 = 0
        /\ three.r4 = 0 /\ three.r = Inverted(p, 7) /\ three.x4 = 0 /\ three.x = Inverted(p, 6)
        /\ three.b4 = 0 /\ three.b = LongMode(Inverted(p, 5)) /\ three.v4 = 0
    BY DEF NoBits
  <1>4. VexBits = IF Payload(0) = \hC5 THEN two ELSE three
    BY Zenon DEF VexBits
  <1> HIDE DEF two, three
  <1>5. CASE TwoByteVex
    <2>1. Payload(0) = \hC5 /\ p = 128 * (1 - r) + \h78 /\ x = 0 /\ b0 = 0
      <3>1. Byte(Pre) = \hC5 /\ Byte(Pre + 1) = 128 * (1 - r) + \h78
        BY <1>1, <1>5, VectorLayout, Zenon
      <3>2. x = 0 /\ b0 = 0
        BY <1>2, <1>5 DEF TwoByteVex
      <3>3. Payload(0) = Byte(Pre)
        <4>1. Payload(0) = Byte(Pre + 0) /\ Pre \in Nat
          BY <1>1, PayloadIs, ReadIs, AskedIs
        <4> QED
          BY <4>1
      <3> QED
        BY <3>1, <3>2, <3>3, PayloadIs, Zenon
    <2> HIDE DEF p, r, x, b0, m
    <2>2. Bits(p, 7, 1) = 1 - r
      BY <1>2, <2>1, VexBytes
    <2>3. Inverted(p, 7) = r
      BY <1>2, <2>2 DEF Inverted
    <2>4. VexBits = two
      BY <1>4, <2>1, Zenon
    <2> QED
      BY <1>2, <1>3, <2>1, <2>3, <2>4, Zenon DEF BitsAre, r, x, b0
  <1>6. CASE ~TwoByteVex
    <2>1. Payload(0) = \hC4 /\ p = 32 * (7 - (4 * r + 2 * x + b0)) + m
      <3>1. Byte(Pre) = \hC4 /\ Byte(Pre + 1) = 32 * (7 - (4 * r + 2 * x + b0)) + m
        BY <1>1, <1>6, VectorLayout, Zenon DEF Rxb
      <3>3. Payload(0) = Byte(Pre)
        <4>1. Payload(0) = Byte(Pre + 0) /\ Pre \in Nat
          BY <1>1, PayloadIs, ReadIs, AskedIs
        <4> QED
          BY <4>1
      <3> QED
        BY <3>1, <3>3, PayloadIs, Zenon
    <2> HIDE DEF p, r, x, b0, m
    <2>2. Bits(p, 7, 1) = 1 - r /\ Bits(p, 6, 1) = 1 - x /\ Bits(p, 5, 1) = 1 - b0
      BY <1>2, <2>1, VexBytes
    <2>3. Inverted(p, 7) = r /\ Inverted(p, 6) = x /\ Inverted(p, 5) = b0
      BY <1>2, <2>2 DEF Inverted
    <2>4. VexBits = three
      <3>1. Payload(0) # \hC5
        BY <2>1
      <3> QED
        BY <1>4, <3>1, Zenon
    <2>5. LongMode(b0) = b0
      BY <1>1, <1>2, Zenon DEF LongMode
    <2> QED
      BY <1>2, <1>3, <2>3, <2>4, <2>5, Zenon DEF BitsAre, r, x, b0
  <1> QED
    BY <1>5, <1>6

LEMMA LegacyBitsRead ==
    ASSUME Read, call.form.space = Legacy
    PROVE  BitsAre(LegacyBits)
  <1> DEFINE p == Payload(1)
             q == pfx.rexbyte
             r == req.rexr
             x == req.rexx
             b0 == req.rexb
             r4 == req.rexr4
             x4 == req.rexx4
             b4 == req.rexb4
             m == call.form.map
             low(v) == [NoBits EXCEPT !.r = Bits(v, 2, 1), !.x = Bits(v, 1, 1), !.b = Bits(v, 0, 1)]
             wide == [low(p) EXCEPT !.r4 = Bits(p, 6, 1), !.x4 = Bits(p, 5, 1), !.b4 = Bits(p,
                 4, 1)]
             narrow == low(q)
  <1>1. Encoded /\ FormKnown(enc) /\ PfxDone(pfx) /\ call.form.space # Evex
    BY ReadIs DEF Legacy, Evex
  <1>2. /\ r \in 0..1 /\ x \in 0..1 /\ b0 \in 0..1 /\ r4 \in 0..1 /\ x4 \in 0..1 /\ b4 \in 0..1
        /\ req.evexvv = 0
        /\ ~call.form.rex2 => r4 = 0 /\ x4 = 0 /\ b4 = 0
    BY <1>1, RequestBits, Zenon
  <1>3. LegacyBits = IF enc.rex2 = 1 THEN wide ELSE narrow
    BY Zenon DEF LegacyBits
  <1>4. /\ wide.r4 = Bits(p, 6, 1) /\ wide.x4 = Bits(p, 5, 1) /\ wide.b4 = Bits(p, 4, 1)
        /\ wide.r = Bits(p, 2, 1) /\ wide.x = Bits(p, 1, 1) /\ wide.b = Bits(p, 0, 1) /\ wide.v4 = 0
    BY DEF NoBits
  <1>5. /\ narrow.r4 = 0 /\ narrow.x4 = 0 /\ narrow.b4 = 0
        /\ narrow.r = Bits(q, 2, 1) /\ narrow.x = Bits(q, 1, 1) /\ narrow.b = Bits(q, 0, 1) /\
            narrow.v4 = 0
    BY DEF NoBits
  <1> HIDE DEF wide, narrow, low
  <1>6. CASE Wide
    <2>1. enc.rex2 = 1
      BY <1>1, <1>6 DEF FormKnown
    <2>2. m \in 0..1 /\ p = 128 * m + 16 * (4 * r4 + 2 * x4 + b4) + (4 * r + 2 * x + b0)
      BY <1>1, <1>6, LegacyLayout, PayloadIs, ZenonT(30) DEF Rxb, Rxb4
    <2> HIDE DEF p, q, r, x, b0, r4, x4, b4, m
    <2>3. /\ Bits(p, 6, 1) = r4 /\ Bits(p, 5, 1) = x4 /\ Bits(p, 4, 1) = b4
          /\ Bits(p, 2, 1) = r /\ Bits(p, 1, 1) = x /\ Bits(p, 0, 1) = b0
      BY ONLY <1>2, <2>2, Rex2Bytes
    <2> QED
      BY <1>2, <1>3, <1>4, <2>1, <2>3, Zenon DEF BitsAre, r, x, b0, r4, x4, b4
  <1>7. CASE ~Wide
    <2>1. enc.rex2 # 1
      BY <1>1, <1>7 DEF FormKnown
    <2>2. r4 = 0 /\ x4 = 0 /\ b4 = 0
      <3>1. CASE ~call.form.rex2
        BY <1>2, <3>1, Zenon
      <3>2. CASE Rxb4 = 0
        BY <1>2, <3>2 DEF Rxb4
      <3> QED
        BY <1>7, <3>1, <3>2 DEF Wide
    <2>3. \E base \in {0, 64} : q = base + (4 * r + 2 * x + b0)
      <3>1. CASE RexOut
        <4>1. q = 64 + (4 * r + 2 * x + b0)
          BY <1>1, <3>1, Zenon DEF PfxDone, Rxb
        <4> QED
          BY <4>1
      <3>2. CASE ~RexOut
        <4>1. q = 0
          BY <1>1, <3>2, Zenon DEF PfxDone
        <4>2. 4 * r + 2 * x + b0 = 0
          BY <1>7, <3>2, Zenon DEF RexOut, Rxb
        <4>3. q = 0 + (4 * r + 2 * x + b0)
          BY <4>1, <4>2
        <4> QED
          BY <4>3
      <3> QED
        BY <3>1, <3>2
    <2> HIDE DEF p, q, r, x, b0, r4, x4, b4, m
    <2>4. Bits(q, 2, 1) = r /\ Bits(q, 1, 1) = x /\ Bits(q, 0, 1) = b0
      BY ONLY <1>2, <2>3, RexBytes
    <2> QED
      BY <1>2, <1>3, <1>5, <2>1, <2>2, <2>4, Zenon DEF BitsAre, r, x, b0, r4, x4, b4
  <1> QED
    BY <1>6, <1>7

LEMMA RegisterBitsRead ==
    ASSUME Read
    PROVE  BitsAre(RegisterBits)
  <1>1. Encoded /\ enc.vexvalid = call.form.space
    BY ReadIs DEF FormKnown
  <1>2. call.form.space \in {Legacy, Vex, Evex} /\ Legacy # Vex /\ Legacy # Evex /\ Vex # Evex
    BY <1>1, FormIs DEF Legacy, Vex, Evex
  <1>3. RegisterBits = CASE call.form.space = Evex -> EvexBits [] call.form.space = Vex -> VexBits [] OTHER -> LegacyBits
    BY <1>1, Zenon DEF RegisterBits
  <1>4. CASE call.form.space = Evex
    <2>1. RegisterBits = EvexBits
      BY <1>2, <1>3, <1>4, Zenon
    <2> QED
      BY <1>4, <2>1, EvexBitsRead
  <1>5. CASE call.form.space = Vex
    <2>1. RegisterBits = VexBits
      BY <1>2, <1>3, <1>5, Zenon
    <2> QED
      BY <1>5, <2>1, VexBitsRead
  <1>6. CASE call.form.space = Legacy
    <2>1. RegisterBits = LegacyBits
      BY <1>2, <1>3, <1>6, Zenon
    <2> QED
      BY <1>6, <2>1, LegacyBitsRead
  <1> QED
    BY <1>2, <1>4, <1>5, <1>6

-----------------------------------------------------------------------------
(***************************************************************************)
(* The operands the capture chooses: register, base, index and scale.      *)
(***************************************************************************)

LEMMA FormFoundIs ==
    ASSUME Read
    PROVE  FormFound = call.form /\ FormFound \in Forms
  <1> DEFINE f == call.form
             Same(g) == g.space = enc.vexvalid /\ g.map = enc.map /\ g.opcode = enc.opcode
  <1>1. Encoded /\ enc.vexvalid = f.space /\ enc.map = f.map /\ enc.opcode = f.opcode
    BY ReadIs DEF FormKnown
  <1>2. f \in Forms
    BY <1>1, FormIs
  <1>3. Same(f)
    BY <1>1
  <1>4. \A g \in Forms : Same(g) => g = f
    BY <1>1, <1>2, FormsDiffer
  <1>5. FormFound = CHOOSE g \in Forms : Same(g)
    BY Zenon DEF FormFound
  <1> HIDE DEF Same, f
  <1>6. FormFound \in Forms /\ Same(FormFound)
    BY <1>2, <1>3, <1>5
  <1> QED
    BY <1>4, <1>6 DEF f

(* modrm.reg and its two bits name the register of the call *)
LEMMA RegisterRead ==
    ASSUME Read
    PROVE  16 * RegisterBits.r4 + 8 * RegisterBits.r + mrm.reg = call.reg
  <1> DEFINE n == call.reg
  <1>1. RegisterBits.r4 = Bit4(n) /\ RegisterBits.r = Bit3(n) /\ mrm.reg = n % 8
    BY RegisterBitsRead, ReadIs, EncodedIs, Zenon DEF BitsAre, CommonFields, MrmRead
  <1>2. n \in Nat /\ n < 32
    <2>1. GoesRight(call)
      BY ReadIs, EncodedIs, Zenon
    <2>2. call.reg \in 0..31
      BY <2>1, Arguments, Zenon
    <2> QED
      BY <2>2
  <1> HIDE DEF n
  <1>3. n = 16 * Bit4(n) + 8 * Bit3(n) + (n % 8)
    BY <1>2, BitsBelow
  <1> QED
    BY <1>1, <1>3 DEF n

LEMMA ModeRead ==
    ASSUME Read
    PROVE  EffectiveMode = call.mode
  <1>1. pfx.asz = 0 /\ cfg.mode = call.mode
    BY ReadIs DEF PfxDone, NoLegacyPrefix
  <1> QED
    BY <1>1, Zenon DEF EffectiveMode, EaMode

LEMMA SibRead ==
    ASSUME Read, req.has_sib
    PROVE  /\ Bits(SibByte, 6, 2) = req.sibscale /\ Bits(SibByte, 3, 3) = req.sibindex
           /\ Bits(SibByte, 0, 3) = req.sibbase
  <1> DEFINE b == SibByte
             x == req.sibscale
             y == req.sibindex
             z == req.sibbase
  <1>1. Encoded /\ mrm.pos_sib = Op + 2
    BY ReadIs
  <1>2. b = SibOut
    BY <1>1, Layout, Zenon DEF SibByte
  <1>3. x \in 0..3 /\ y \in 0..7 /\ z \in 0..7
    BY <1>1, RequestRange
  <1>4. b = 64 * x + 8 * y + z
    BY <1>2, Zenon DEF SibOut
  <1> HIDE DEF b, x, y, z
  <1>5. Bits(b, 6, 2) = x /\ Bits(b, 3, 3) = y /\ Bits(b, 0, 3) = z
    BY ONLY <1>3, <1>4, ModrmBits
  <1> QED
    BY <1>5, Zenon DEF b, x, y, z

LEMMA FieldsOfModrm ==
    ASSUME Read
    PROVE  /\ mrm.mod = req.mod /\ mrm.rm = req.rm /\ mrm.has_sib = req.has_sib
           /\ RegisterBits.b4 = req.rexb4 /\ RegisterBits.b = req.rexb
           /\ RegisterBits.x4 = req.rexx4 /\ RegisterBits.x = req.rexx /\
               RegisterBits.v4 = req.evexvv
  BY ReadIs, RegisterBitsRead, Zenon DEF MrmRead, BitsAre

(* base, index and scale of the operand *)
Operands(c) ==
    /\ BaseReg = c.base /\ IndexReg = c.index
    /\ Scale = IF c.index = NoReg \/ c.mode = Mode16 THEN 1 ELSE c.scale

LEMMA RipRead ==
    ASSUME Read, call.base = Rip
    PROVE  Operands(call)
  <1>1. /\ call.mode = Mode64 /\ call.index = NoReg
        /\ req.mod = 0 /\ req.rm = 5 /\ req.has_sib = FALSE
    BY ReadIs, EncodedIs, Arguments, Zenon DEF OperandRip
  <1>2. /\ mrm.mod = 0 /\ mrm.rm = 5 /\ mrm.has_sib = FALSE /\ EffectiveMode = Mode64 /\ mode_64b
    BY <1>1, FieldsOfModrm, ModeRead, ReadIs, Zenon
  <1>3. Mode64 # Mode16
    BY DEF Mode64, Mode16
  <1>4. BaseReg = Rip
    BY <1>2, <1>3 DEF BaseReg
  <1>5. IndexReg = NoReg
    BY <1>2, <1>3, Zenon DEF IndexReg
  <1>6. Scale = 1
    BY <1>2, Zenon DEF Scale
  <1> QED
    BY <1>1, <1>4, <1>5, <1>6, Zenon DEF Operands

LEMMA FlatRead ==
    ASSUME Read, call.base # Rip, call.mode # Mode16
    PROVE  Operands(call)
  <1> DEFINE base == call.base
             index == call.index
             b == RegisterBits
  <1>1. Encoded /\ call \in Calls /\ OperandFlat(call, req) /\ EffectiveMode = call.mode
    BY ReadIs, EncodedIs, ModeRead, Zenon
  <1>2. /\ base \in 0..31 /\ index \in 0..32 /\ (index # NoReg => IndexOK(call))
        /\ call.dispsz \in {0, 8, 16, 32} /\ PlainCall(call)
    BY <1>1, EncodedIs, Arguments, CallFields, Zenon DEF GoesRight
  <1>3. /\ base = 16 * Bit4(base) + 8 * Bit3(base) + (base % 8) /\ base % 8 \in 0..7
    <2>1. base \in Nat /\ base < 32
      BY <1>2
    <2> HIDE DEF base
    <2> QED
      BY <2>1, BitsBelow
  <1>4. /\ mrm.mod = req.mod /\ mrm.rm = req.rm /\ mrm.has_sib = req.has_sib
        /\ b.b4 = Bit4(base) /\ b.b = Bit3(base)
        /\ b.x4 = req.rexx4 /\ b.x = req.rexx /\ b.v4 = req.evexvv
        /\ req.has_sib = NeedsSib(call)
    BY <1>1, FieldsOfModrm, Zenon DEF OperandFlat
  <1>5. BaseReg = base
    <2> DEFINE field == IF mrm.has_sib THEN Bits(SibByte, 0, 3) ELSE mrm.rm
    <2>1. field = base % 8
      <3>1. CASE req.has_sib
        BY <1>1, <1>4, <3>1, SibRead, Zenon DEF OperandFlat
      <3>2. CASE ~req.has_sib
        BY <1>1, <1>4, <3>2, Zenon DEF OperandFlat
      <3> QED
        BY <3>1, <3>2
    <2>2. mrm.mod # 0 \/ field # 5
      <3>1. CASE req.has_sib
        <4>1. ~(req.sibbase = 5 /\ req.mod = 0) /\ field = req.sibbase
          BY <1>1, <1>4, <3>1, DispWidthIs, SibRead, Zenon
        <4> HIDE DEF field
        <4> QED
          BY <1>4, <4>1
      <3>2. CASE ~req.has_sib
        <4>1. ~NeedsZeroDisp(call)
          BY <1>4, <3>2 DEF NeedsSib
        <4>2. req.mod = ModVal(call.dispsz)
          BY <1>1, <4>1, Zenon DEF OperandFlat
        <4>3. CASE call.dispsz = 0
          <5>1. base % 8 # 5
            BY <1>2, <4>1, <4>3 DEF NeedsZeroDisp, Gprs, BP
          <5> HIDE DEF field
          <5> QED
            BY <2>1, <5>1
        <4>4. CASE call.dispsz # 0
          <5>1. ModVal(call.dispsz) # 0
            BY <4>4 DEF ModVal
          <5> QED
            BY <1>4, <4>2, <5>1
        <4> QED
          BY <4>3, <4>4
      <3> QED
        BY <3>1, <3>2
    <2> HIDE DEF field, b
    <2>3. BaseReg = 16 * b.b4 + 8 * b.b + field
      BY <1>1, <2>2, Zenon DEF BaseReg, field, b
    <2> HIDE DEF base
    <2> QED
      BY <1>3, <1>4, <2>1, <2>3
  <1>6. IndexReg = index /\ Scale = IF index = NoReg THEN 1 ELSE call.scale
    <2>1. CASE ~req.has_sib
      <3>1. index = NoReg
        BY <1>4, <2>1 DEF NeedsSib
      <3>2. IndexReg = NoReg
        BY <1>1, <1>4, <2>1, Zenon DEF IndexReg
      <3>3. Scale = 1
        BY <1>4, <2>1, Zenon DEF Scale
      <3> QED
        BY <3>1, <3>2, <3>3
    <2>2. CASE req.has_sib /\ index = NoReg
      <3>1. ~call.form.vsib
        BY <1>2, <2>2 DEF PlainCall
      <3>2. b.x4 = 0 /\ b.x = 0 /\ Bits(SibByte, 3, 3) = 4
        BY <1>1, <1>4, <2>2, SibRead, Zenon DEF OperandFlat
      <3>3. 16 * b.x4 + 8 * b.x + Bits(SibByte, 3, 3) = 4
        BY <3>2
      <3>4. IndexReg = NoReg
        BY <1>1, <1>4, <2>2, <3>1, <3>3, FormFoundIs, Zenon DEF IndexReg
      <3>5. Scale = 1
        BY <3>4, Zenon DEF Scale
      <3> QED
        BY <2>2, <3>4, <3>5
    <2>3. CASE req.has_sib /\ index # NoReg
      <3>1. index \in Nat /\ index < 32
        BY <1>2, <2>3 DEF NoReg
      <3>2. index = 16 * Bit4(index) + 8 * Bit3(index) + (index % 8)
        <4> HIDE DEF index
        <4> QED
          BY <3>1, BitsBelow
      <3>3. b.x = Bit3(index) /\ Bits(SibByte, 3, 3) = index % 8 /\
            2^Bits(SibByte, 6, 2) = call.scale
        BY <1>1, <1>4, <2>3, SibRead, Zenon DEF OperandFlat
      <3>4. IndexReg = index
        <4>1. CASE call.form.vsib
          <5>1. b.v4 = Bit4(index)
            BY <1>1, <1>4, <2>3, <4>1, Zenon DEF OperandFlat
          <5>2. IndexReg = 16 * b.v4 + 8 * b.x + Bits(SibByte, 3, 3)
            BY <1>1, <1>4, <2>3, <4>1, FormFoundIs, Zenon DEF IndexReg
          <5> HIDE DEF index, b
          <5> QED
            BY <3>2, <3>3, <5>1, <5>2
        <4>2. CASE ~call.form.vsib
          <5>1. b.x4 = Bit4(index)
            BY <1>1, <1>4, <2>3, <4>2, Zenon DEF OperandFlat
          <5>2. index # SP
            BY <1>1, <1>2, <2>3, <4>2, Zenon DEF IndexOK
          <5> DEFINE v == 16 * b.x4 + 8 * b.x + Bits(SibByte, 3, 3)
          <5>3. v = index
            <6> HIDE DEF index, b
            <6> QED
              BY <3>2, <3>3, <5>1
          <5>4. v # 4
            BY <5>2, <5>3 DEF SP
          <5>5. IndexReg = v
            BY <1>1, <1>4, <2>3, <4>2, <5>4, FormFoundIs, Zenon DEF IndexReg
          <5> QED
            BY <5>3, <5>5, Zenon
        <4> QED
          BY <4>1, <4>2
      <3>5. Scale = call.scale
        BY <1>4, <2>3, <3>3, <3>4, Zenon DEF Scale
      <3> QED
        BY <2>3, <3>4, <3>5
    <2> QED
      BY <2>1, <2>2, <2>3
  <1> QED
    BY <1>5, <1>6, Zenon DEF Operands

(* the pairs of base and index a form with 16-bit addresses can have *)
Forms16(b, i, d, k) ==
    \/ k = 0 /\ b = BX /\ i = SI
    \/ k = 1 /\ b = BX /\ i = DI
    \/ k = 2 /\ b = BP /\ i = SI
    \/ k = 3 /\ b = BP /\ i = DI
    \/ k = 4 /\ b = SI /\ i = NoReg
    \/ k = 5 /\ b = DI /\ i = NoReg
    \/ k = 6 /\ b = BP /\ i = NoReg /\ d # 0
    \/ k = 7 /\ b = BX /\ i = NoReg

LEMMA Rm16Is ==
    ASSUME NEW b \in 0..7, NEW i \in {SI, DI, NoReg}, NEW d, NEW k, k = Rm16(b, i, d), k # NoRm
    PROVE  Forms16(b, i, d, k)
  BY DEF Forms16, Rm16, NoRm, BX, BP, SI, DI, NoReg

LEMMA Read16 ==
    ASSUME Read, call.mode = Mode16
    PROVE  Operands(call) /\ call.base # SP
  <1> DEFINE b == call.base
             i == call.index
             d == call.dispsz
             m == mrm.mod
             k == mrm.rm
  <1>1. /\ Operand16(call, req) /\ GoesRight(call) /\ ~OperandError(call)
        /\ mrm.mod = req.mod /\ mrm.rm = req.rm /\ mrm.has_sib = req.has_sib
        /\ EffectiveMode = Mode16
    BY ReadIs, EncodedIs, FieldsOfModrm, ModeRead, Zenon DEF GoesRight
  <1>2. /\ b \in 0..7 /\ i \in {SI, DI, NoReg} /\ d \in {0, 8, 16, 32}
    <2>1. b # Rip
      BY <1>1, Arguments DEF Mode16, Mode64
    <2>2. b \in 0..31 /\ b < 8 /\ (i # NoReg => IndexOK(call)) /\ d \in {0, 8, 16, 32}
      <3>1. call.mode # Mode64
        BY DEF Mode16, Mode64
      <3> QED
        BY <1>1, <2>1, <3>1, Arguments, Zenon
    <2>3. ~call.form.vsib
      BY <1>1, Zenon DEF GoesRight, PlainCall
    <2>4. i # NoReg => i \in {SI, DI}
      BY <2>2, <2>3, Zenon DEF IndexOK
    <2> QED
      BY <2>2, <2>4
  <1>3. k = Rm16(b, i, d) /\ k # NoRm /\ m = ModVal(d)
    BY <1>1, Zenon DEF Operand16, OperandError
  <1>4. Scale = 1
    BY <1>1, Zenon DEF Scale, Operand16
  <1>5. Forms16(b, i, d, k)
    <2> HIDE DEF b, i, d, k
    <2> QED
      BY <1>2, <1>3, Rm16Is
  <1>6. BaseReg = Base16 /\ IndexReg = Index16
    BY <1>1, Zenon DEF BaseReg, IndexReg
  <1>7. Base16 = b /\ Index16 = i
    <2>1. d # 0 => m # 0
      BY <1>3 DEF ModVal
    <2> HIDE DEF b, i, d
    <2> QED
      BY <1>5, <2>1 DEF Forms16, Base16, Index16, BX, SI, DI, BP
  <1>8. b # SP
    <2> HIDE DEF b
    <2> QED
      BY <1>5 DEF Forms16, BX, SI, DI, BP, SP
  <1> QED
    BY <1>4, <1>6, <1>7, <1>8, Zenon DEF Operands

LEMMA OperandsRead ==
    ASSUME Read
    PROVE  Operands(call) /\ (call.base = SP => call.mode # Mode16)
  <1>1. CASE call.mode = Mode16
    BY <1>1, Read16
  <1>2. CASE call.mode # Mode16
    BY <1>2, RipRead, FlatRead
  <1> QED
    BY <1>1, <1>2

-----------------------------------------------------------------------------
(***************************************************************************)
(* The displacement and the segment the capture chooses.                   *)
(***************************************************************************)

(* Bytes of a signed number, the least significant first. *)
SignedByte(x) == IF x >= 128 THEN x - 256 ELSE x

LEMMA SignedOne ==
    ASSUME NEW d \in Int, -128 <= d, d <= 127
    PROVE  d % 256 \in 0..255 /\ SignedByte(d % 256) = d
  BY DEF SignedByte

LEMMA SignedTwo ==
    ASSUME NEW d \in Int, -32768 <= d, d <= 32767
    PROVE  (d % 256) + 256 * SignedByte((d \div 256) % 256) = d
  <1> DEFINE q == d \div 256
  <1>1. q \in Int /\ -128 <= q /\ q <= 127 /\ d = 256 * q + (d % 256)
    OBVIOUS
  <1> HIDE DEF q
  <1>2. SignedByte(q % 256) = q
    BY <1>1, SignedOne
  <1> QED
    BY <1>1, <1>2 DEF q

Joined(d) == (d % 256) + 256 * ((d \div 256) % 256) + 65536 * ((d \div 65536) % 256)
             + 16777216 * SignedByte((d \div 16777216) % 256)

LEMMA SignedFour ==
    ASSUME NEW d \in Int, -2147483647 - 1 <= d, d <= 2147483647
    PROVE  Joined(d) = d
  <1> DEFINE q == d \div 256
             r == d \div 65536
             s == d \div 16777216
  <1>1. q \in Int /\ r \in Int /\ s \in Int /\ r = q \div 256 /\ s = r \div 256
    BY SMT
  <1>2. d = 256 * q + (d % 256) /\ -128 <= s /\ s <= 127
    BY SMT
  <1> HIDE DEF q, r, s
  <1>3. q = 256 * r + (q % 256) /\ r = 256 * s + (r % 256)
    BY <1>1, SMT
  <1>4. SignedByte(s % 256) = s
    BY <1>1, <1>2, SignedOne, SMT
  <1> QED
    BY <1>1, <1>2, <1>3, <1>4, SMT DEF q, r, s, Joined

(* the bytes of the displacement *)
Weight(k) == <<1, 256, 65536, 16777216>>[k]

LEMMA Weights == Weight(1) = 1 /\ Weight(2) = 256 /\ Weight(3) = 65536 /\ Weight(4) = 16777216
  BY SMT DEF Weight

LEMMA LittleEndianIs ==
    ASSUME NEW v, NEW n \in Nat, NEW k \in 1..n
    PROVE  LittleEndian(v, n)[k] = (v \div Weight(k)) % 256
  BY SMT DEF LittleEndian, Weight

LEMMA DispBytesAre ==
    ASSUME Read, NEW i \in Nat, i < DispLen(call)
    PROVE  Byte(imd.pos_disp + i) = (call.disp \div Weight(i + 1)) % 256
  <1> DEFINE n == DispLen(call)
  <1>1. Encoded /\ imd.pos_disp = DispAt
    <2>1. DispLen(call) # 0
      BY ReadIs, Layout
    <2> QED
      BY <2>1, ReadIs, Zenon
  <1>2. n \in {0, 1, 2, 4} /\ DispAt \in Nat
    <2>1. Op \in Nat /\ SibLen \in 0..1 /\ n \in {0, 1, 2, 4}
      BY <1>1, Layout
    <2> HIDE DEF n
    <2> QED
      BY <2>1 DEF DispAt
  <1>3. \A k \in 1..n : Byte(DispAt + k - 1) = LittleEndian(call.disp, n)[k]
    BY <1>1, Layout
  <1> HIDE DEF n
  <1>4. i + 1 \in 1..n /\ DispAt + (i + 1) - 1 = DispAt + i /\ n \in Nat
    BY <1>2 DEF n
  <1>5. LittleEndian(call.disp, n)[i + 1] = (call.disp \div Weight(i + 1)) % 256
    BY <1>4, LittleEndianIs
  <1>6. Byte(DispAt + (i + 1) - 1) = LittleEndian(call.disp, n)[i + 1]
    BY <1>3, <1>4, Zenon
  <1>7. Byte(DispAt + i) = LittleEndian(call.disp, n)[i + 1]
    BY <1>4, <1>6, Zenon
  <1> QED
    BY <1>1, <1>5, <1>7, Zenon

(* the number before it counts in widths of the operand *)
RawDisp(w, x, y, z, t) ==
    IF w = 0 THEN 0
    ELSE IF w = 1 THEN SignedByte(x)
    ELSE IF w = 2 THEN x + 256 * SignedByte(y)
    ELSE x + 256 * y + 65536 * z + 16777216 * SignedByte(t)

LEMMA DispValueIs ==
    ASSUME NEW w, w = imd.disp_width, w \in {0, 1, 2, 4}, NEW v,
           v = RawDisp(w, Byte(imd.pos_disp + 0), Byte(imd.pos_disp + 1),
                       Byte(imd.pos_disp + 2), Byte(imd.pos_disp + 3)),
           \A i \in 0..(w - 1) : Byte(imd.pos_disp + i) \in 0..255
    PROVE  DispValue = IF w = 1 /\ enc.vexvalid = Evex THEN v * FormFound.width ELSE v
  <1> DEFINE x == Byte(imd.pos_disp + 0)
             y == Byte(imd.pos_disp + 1)
             z == Byte(imd.pos_disp + 2)
             t == Byte(imd.pos_disp + 3)
             f == FormFound
  <1> HIDE DEF f
  <1>1. CASE w = 0
    <2>1. DispValue = 0 + 0 * 1
      BY <1>1, SMT DEF DispValue
    <2>2. v = 0
      BY <1>1, SMT DEF RawDisp
    <2> QED
      BY <1>1, <2>1, <2>2
  <1>2. CASE w = 1
    <2>1. x \in 0..255 /\ v = SignedByte(x)
      BY <1>2, SMT DEF RawDisp
    <2>2. DispValue = LET u == 0 + (IF x >= 128 THEN x - 256 ELSE x) * 1
                      IN  IF enc.vexvalid = Evex THEN u * f.width ELSE u
      BY <1>2, SMT DEF DispValue, f
    <2> HIDE DEF x
    <2>3. 0 + (IF x >= 128 THEN x - 256 ELSE x) * 1 = v
      BY <2>1, SMT DEF SignedByte
    <2>4. DispValue = IF enc.vexvalid = Evex THEN v * f.width ELSE v
      BY <2>2, <2>3, SMT
    <2> QED
      BY <1>2, <2>4, Zenon DEF f
  <1>3. CASE w = 2
    <2>1. x \in 0..255 /\ y \in 0..255 /\ v = x + 256 * SignedByte(y)
      BY <1>3, SMT DEF RawDisp
    <2>2. DispValue = x + (IF y >= 128 THEN y - 256 ELSE y) * 256
      BY <1>3, SMT DEF DispValue
    <2> HIDE DEF x, y
    <2>3. DispValue = v
      BY <2>1, <2>2, SMT DEF SignedByte
    <2>4. w # 1
      BY <1>3
    <2> QED
      BY <2>3, <2>4, Zenon
  <1>4. CASE w = 4
    <2>1. /\ x \in 0..255 /\ y \in 0..255 /\ z \in 0..255 /\ t \in 0..255
          /\ v = x + 256 * y + 65536 * z + 16777216 * SignedByte(t)
      BY <1>4, SMT DEF RawDisp
    <2>2. DispValue = x + 256 * y + 65536 * z + (IF t >= 128 THEN t - 256 ELSE t) * 16777216
      BY <1>4, SMT DEF DispValue
    <2> HIDE DEF x, y, z, t
    <2>3. DispValue = v
      BY <2>1, <2>2, SMT DEF SignedByte
    <2>4. w # 1
      BY <1>4
    <2> QED
      BY <2>3, <2>4, Zenon
  <1> QED
    BY <1>1, <1>2, <1>3, <1>4, SMT

LEMMA DispRead ==
    ASSUME Read
    PROVE  DispValue = AskedFor(call).disp
  <1> DEFINE d == call.disp
             w == DispLen(call)
             far == call.dispsz = 8 /\ call.form.space = Evex
             wide == w = 1 /\ call.form.space = Evex
  <1>1. /\ GoesRight(call) /\ imd.disp_width = w /\ enc.vexvalid = call.form.space
        /\ FormFound = call.form /\ Encoded /\ call.form.width \in 1..64
    <2>1. Encoded /\ FormFound = call.form /\ call.form \in Forms
      BY ReadIs, FormFoundIs, FormIs, Zenon
    <2>2. GoesRight(call) /\ imd.disp_width = w /\ enc.vexvalid = call.form.space
      BY ReadIs, EncodedIs, Zenon DEF FormKnown
    <2>3. call.form.width \in 1..64
      BY <2>1, FormFields, SMT
    <2> QED
      BY <2>1, <2>2, <2>3, SMT
  <1>2. /\ d \in Int /\ call.dispsz \in {0, 8, 16, 32} /\ InType(d, call.dispsz)
    BY <1>1, Arguments, Zenon
  <1>3. /\ call.dispsz = 8 => w = 1
        /\ call.dispsz = 16 => w = 2
        /\ call.dispsz = 32 => w = 4
        /\ call.dispsz = 0 => w \in {0, 1, 4}
        /\ w \in {0, 1, 2, 4}
    <2>1. w \in {0, 1, 2, 4}
      BY <1>1, Layout, SMT
    <2> QED
      BY <2>1, SMT DEF DispLen
  <1>4. AskedFor(call).disp = IF far THEN d * call.form.width ELSE d
    BY SMT DEF AskedFor
  <1>5. \A i \in 0..(w - 1) : Byte(imd.pos_disp + i) = (d \div Weight(i + 1)) % 256
    <2>1. ASSUME NEW i \in 0..(w - 1)  PROVE i \in Nat /\ i < w
      BY <1>3, SMT
    <2> QED
      BY <2>1, DispBytesAre, SMT
  <1>6. \A i \in 0..(w - 1) : Byte(imd.pos_disp + i) \in 0..255
    <2>1. ASSUME NEW i \in 0..(w - 1)  PROVE Byte(imd.pos_disp + i) \in 0..255
      <3>1. i + 1 \in 1..4
        BY <1>3, SMT
      <3>2. Weight(i + 1) \in {1, 256, 65536, 16777216}
        BY <3>1, Weights, SMT
      <3> DEFINE q == d \div Weight(i + 1)
      <3>3. q \in Int
        BY <1>2, <3>2, SMT
      <3> HIDE DEF q
      <3>4. q % 256 \in 0..255
        BY <3>3, SMT
      <3> QED
        BY <1>5, <3>4, SMT DEF q
    <2> QED
      BY <2>1, SMT
  <1> HIDE DEF w, d
  <1>7. DispValue = IF wide THEN d * call.form.width ELSE d
    <2>1. /\ w = 0 => d = 0
          /\ w = 1 => -128 <= d /\ d <= 127
          /\ w = 2 => -32768 <= d /\ d <= 32767
          /\ w = 4 => -2147483647 - 1 <= d /\ d <= 2147483647
      BY <1>2, <1>3, SMT DEF InType
    <2>2. d \div 1 = d
      BY <1>2, SMT
    <2>3. CASE w = 0
      <3>1. d = 0
        BY <2>1, <2>3, SMT
      <3>2. d = RawDisp(w, Byte(imd.pos_disp + 0), Byte(imd.pos_disp + 1),
                      Byte(imd.pos_disp + 2), Byte(imd.pos_disp + 3))
        BY <2>3, <3>1, SMT DEF RawDisp
      <3> QED
        BY <1>1, <1>3, <1>6, <3>2, DispValueIs
    <2>4. CASE w = 1
      <3>1. Byte(imd.pos_disp + 0) = d % 256
        BY <1>5, <2>2, <2>4, Weights, SMT
      <3>2. SignedByte(Byte(imd.pos_disp + 0)) = d
        BY <1>2, <2>1, <2>4, <3>1, SignedOne, SMT
      <3>3. d = RawDisp(w, Byte(imd.pos_disp + 0), Byte(imd.pos_disp + 1),
                      Byte(imd.pos_disp + 2), Byte(imd.pos_disp + 3))
        BY <2>4, <3>2, SMT DEF RawDisp
      <3> QED
        BY <1>1, <1>3, <1>6, <3>3, DispValueIs
    <2>5. CASE w = 2
      <3>1. Byte(imd.pos_disp + 0) = d % 256 /\ Byte(imd.pos_disp + 1) = (d \div 256) % 256
        BY <1>5, <2>2, <2>5, Weights, SMT
      <3>2. Byte(imd.pos_disp + 0) + 256 * SignedByte(Byte(imd.pos_disp + 1)) = d
        BY <1>2, <2>1, <2>5, <3>1, SignedTwo, SMT
      <3>3. d = RawDisp(w, Byte(imd.pos_disp + 0), Byte(imd.pos_disp + 1),
                      Byte(imd.pos_disp + 2), Byte(imd.pos_disp + 3))
        BY <2>5, <3>2, SMT DEF RawDisp
      <3> QED
        BY <1>1, <1>3, <1>6, <3>3, DispValueIs
    <2>6. CASE w = 4
      <3>1. /\ Byte(imd.pos_disp + 0) = d % 256 /\ Byte(imd.pos_disp + 1) = (d \div 256) % 256
            /\ Byte(imd.pos_disp + 2) = (d \div 65536) % 256
            /\ Byte(imd.pos_disp + 3) = (d \div 16777216) % 256
        BY <1>5, <2>2, <2>6, Weights, SMT
      <3>2. Byte(imd.pos_disp + 0) + 256 * Byte(imd.pos_disp + 1)
            + 65536 * Byte(imd.pos_disp + 2) + 16777216 * SignedByte(Byte(imd.pos_disp + 3)) = d
        <4>0. d \in Int /\ -2147483647 - 1 <= d /\ d <= 2147483647
          BY <1>2, <2>1, <2>6, SMT
        <4>1. Joined(d) = d
          BY <4>0, SignedFour, SMT
        <4> QED
          BY <3>1, <4>1, SMT DEF Joined
      <3>3. d = RawDisp(w, Byte(imd.pos_disp + 0), Byte(imd.pos_disp + 1),
                      Byte(imd.pos_disp + 2), Byte(imd.pos_disp + 3))
        BY <2>6, <3>2, SMT DEF RawDisp
      <3> QED
        BY <1>1, <1>3, <1>6, <3>3, DispValueIs
    <2> QED
      BY <1>3, <2>3, <2>4, <2>5, <2>6, SMT
  <1>8. CASE wide
    <2>1. DispValue = d * call.form.width
      BY <1>7, <1>8, Zenon
    <2>2. CASE call.dispsz = 8
      <3>1. AskedFor(call).disp = d * call.form.width
        BY <1>4, <1>8, <2>2, Zenon
      <3> QED
        BY <2>1, <3>1
    <2>3. CASE call.dispsz # 8
      <3>1. call.dispsz = 0
        BY <1>2, <1>3, <1>8, <2>3
      <3>2. d = 0
        BY <1>2, <3>1, ZeroDisp DEF d
      <3>3. AskedFor(call).disp = d
        BY <1>4, <2>3, Zenon
      <3>4. 0 * call.form.width = 0
        BY <1>1
      <3> QED
        BY <2>1, <3>2, <3>3, <3>4, Zenon
    <2> QED
      BY <2>2, <2>3
  <1>9. CASE ~wide
    <2>1. DispValue = d
      BY <1>7, <1>9, Zenon
    <2>2. ~far
      BY <1>3, <1>9
    <2> QED
      BY <1>4, <2>1, <2>2, Zenon
  <1> QED
    BY <1>8, <1>9

-----------------------------------------------------------------------------
(* the segment of the operand of a call *)
SegmentOf(c) ==
    IF c.mode = Mode64 THEN IF c.seg \in {44, 45} THEN c.seg ELSE NoReg
    ELSE IF c.seg # NoReg THEN c.seg
    ELSE IF c.base \in {BP} \/ (c.base = SP /\ c.mode = Mode32) THEN SS ELSE DS

LEMMA SegmentRead ==
    ASSUME Read
    PROVE  Segment(BaseReg) = SegmentOf(call)
  <1> DEFINE named == <<41, DS, 40, 44, 45, SS>>
             seg == call.seg
             kept == SegKeptOf
             v == pfx.seg_ovd
  <1>1. /\ BaseReg = call.base /\ (call.base = SP => call.mode # Mode16) /\
           (mode_64b <=> call.mode = Mode64)
        /\ v = IF kept = 0 THEN 0 ELSE SegOvd(kept)
    BY OperandsRead, ReadIs, Zenon DEF Operands, PfxDone
  <1>2. call.mode \in {Mode16, Mode32, Mode64} /\ seg \in SegRegs \cup {NoReg}
    <2>1. call \in Calls
      BY ReadIs, EncodedIs, Zenon
    <2>2. call.mode \in Modes /\ seg \in SegRegs \cup {NoReg}
      BY <2>1, CallFields DEF SegRegs
    <2> QED
      BY <2>2, Zenon DEF Modes
  <1>3. Segment(BaseReg) =
            IF mode_64b THEN IF v \in {4, 5} THEN named[v] ELSE NoReg
            ELSE IF v # 0 THEN named[v]
            ELSE IF BaseReg \in {SP, BP} THEN SS ELSE DS
    BY Zenon DEF Segment
  <1>4. kept = IF seg = NoReg \/ (call.mode = Mode64 /\
        seg \notin {44, 45}) THEN 0 ELSE SegPrefix(seg)
    BY Zenon DEF SegKeptOf
  <1>5. \A s \in SegRegs : SegPrefix(s) # 0 /\ SegOvd(SegPrefix(s)) \in 1..6 /\
        named[SegOvd(SegPrefix(s))] = s
    BY DEF SegRegs, SegPrefix, SegOvd, SS, DS
  <1>6. /\ SegOvd(SegPrefix(44)) = 4 /\ SegOvd(SegPrefix(45)) = 5
    BY DEF SegPrefix, SegOvd
  <1> HIDE DEF kept, v, seg
  <1>7. CASE call.mode = Mode64
    <2>1. CASE seg \in {44, 45}
      <3>1. kept = SegPrefix(seg) /\ kept # 0
        BY <1>4, <1>5, <2>1 DEF NoReg, SegRegs
      <3>2. v = SegOvd(SegPrefix(seg)) /\ v \in {4, 5}
        BY <1>1, <1>6, <2>1, <3>1
      <3>3. named[v] = seg
        BY <1>5, <2>1, <3>2 DEF SegRegs
      <3> QED
        BY <1>1, <1>3, <1>7, <2>1, <3>2, <3>3, Zenon DEF SegmentOf, seg
    <2>2. CASE seg \notin {44, 45}
      <3>1. v = 0
        BY <1>1, <1>4, <1>7, <2>2
      <3> QED
        BY <1>1, <1>3, <1>7, <2>2, <3>1 DEF SegmentOf, seg
    <2> QED
      BY <2>1, <2>2
  <1>8. CASE call.mode # Mode64
    <2>1. CASE seg # NoReg
      <3>1. kept = SegPrefix(seg) /\ kept # 0
        BY <1>2, <1>4, <1>5, <1>8, <2>1
      <3>2. v = SegOvd(SegPrefix(seg)) /\ v # 0 /\ named[v] = seg
        BY <1>1, <1>2, <1>5, <2>1, <3>1
      <3> QED
        BY <1>1, <1>3, <1>8, <2>1, <3>2, Zenon DEF SegmentOf, seg
    <2>2. CASE seg = NoReg
      <3>1. v = 0
        BY <1>1, <1>4, <2>2
      <3>2. Segment(BaseReg) = IF call.base \in {SP, BP} THEN SS ELSE DS
        BY <1>1, <1>3, <1>8, <3>1, Zenon
      <3>3. call.base \in {SP, BP} <=> call.base \in {BP} \/ (call.base = SP /\ call.mode = Mode32)
        BY <1>1, <1>2, <1>8
      <3>4. SegmentOf(call) = IF call.base \in {BP} \/ (call.base = SP /\
            call.mode = Mode32) THEN SS ELSE DS
        BY <1>8, <2>2, Zenon DEF SegmentOf, seg
      <3> QED
        BY <3>2, <3>3, <3>4
    <2> QED
      BY <2>1, <2>2
  <1> QED
    BY <1>7, <1>8

-----------------------------------------------------------------------------
(***************************************************************************)
(* CaptureInv is inductive, and the operand comes back.                    *)
(***************************************************************************)

(* what is captured of a call that goes right *)
OperandOf(c) ==
    LET a == AskedFor(c) IN Operand(a.base, a.index, a.scale, a.disp, SegmentOf(c))

Captured ==
    [memop |-> [i \in {0, 1} |-> IF i = 0 THEN OperandOf(call)
                                 ELSE IF call.form.push THEN StackOperand ELSE NoOperand],
     width |-> Size, asz |-> 0, length |-> Len(emitted), real_mode |-> realmode,
     push |-> [i \in {0, 1} |-> IF i = 1 /\ call.form.push THEN PushBytes ELSE 0]]

CaptureInv ==
    agen # "idle" /\ GoesRight(call) => insn = Captured /\ reg = call.reg

LEMMA WidthIs == ASSUME Read  PROVE 8 * 2^EASZ(cfg.mode, pfx.asz) = Size
  <1>1. cfg.mode = call.mode /\ pfx.asz = 0
    BY ReadIs DEF PfxDone, NoLegacyPrefix
  <1>2. EASZ(cfg.mode, pfx.asz) = call.mode + 1
    BY <1>1 DEF EASZ, EaMode
  <1>3. call.mode \in {0, 1, 2}
    BY ReadIs, AskedIs
  <1>4. CASE call.mode = 0
    <2>1. 8 * 2^(0 + 1) = 16 * 2^0
      OBVIOUS
    <2> QED
      BY <1>2, <1>4, <2>1, Zenon DEF Size
  <1>5. CASE call.mode = 1
    <2>1. 8 * 2^(1 + 1) = 16 * 2^1
      OBVIOUS
    <2> QED
      BY <1>2, <1>5, <2>1, Zenon DEF Size
  <1>6. CASE call.mode = 2
    <2>1. 8 * 2^(2 + 1) = 16 * 2^2
      OBVIOUS
    <2> QED
      BY <1>2, <1>6, <2>1, Zenon DEF Size
  <1> QED
    BY <1>3, <1>4, <1>5, <1>6

LEMMA CapturedIs ==
    ASSUME Read, Capture
    PROVE  insn' = Captured /\ reg' = call.reg
  <1> DEFINE operand == Operand(BaseReg, IndexReg, Scale, DispValue, Segment(BaseReg))
  <1>1. operand = OperandOf(call)
    <2> DEFINE a == AskedFor(call)
    <2>1. a.base = call.base /\ a.index = call.index
          /\ a.scale = IF call.index = NoReg \/ call.mode = Mode16 THEN 1 ELSE call.scale
      BY DEF AskedFor
    <2>2. DispValue = a.disp
      BY DispRead
    <2> HIDE DEF a
    <2>3. BaseReg = a.base /\ IndexReg = a.index /\ Scale = a.scale
      BY <2>1, OperandsRead, Zenon DEF Operands
    <2>4. Segment(BaseReg) = SegmentOf(call)
      BY SegmentRead
    <2> QED
      BY <2>2, <2>3, <2>4, Zenon DEF OperandOf, a
  <1>2. FormFound = call.form
    BY FormFoundIs
  <1>3. pfx.asz = 0 /\ length = Len(emitted)
    BY ReadIs DEF PfxDone, NoLegacyPrefix
  <1>4. insn' = [memop |-> [i \in {0, 1} |-> IF i = 0 THEN operand
                                ELSE IF FormFound.push THEN StackOperand ELSE NoOperand],
                 width |-> 8 * 2^EASZ(cfg.mode, pfx.asz), asz |-> pfx.asz, length |-> length,
                 real_mode |-> realmode,
                 push |-> [i \in {0, 1} |-> IF i = 1 /\ FormFound.push THEN PushBytes ELSE 0]]
    BY Zenon DEF Capture
  <1>5. reg' = 16 * RegisterBits.r4 + 8 * RegisterBits.r + mrm.reg
    BY Zenon DEF Capture
  <1> HIDE DEF operand
  <1>6. insn' = Captured
    BY <1>1, <1>2, <1>3, <1>4, WidthIs, Zenon DEF Captured
  <1> QED
    BY <1>5, <1>6, RegisterRead, Zenon

LEMMA InitCapture == InitMemop => CaptureInv
  BY DEF InitMemop, InitAgen, CaptureInv

LEMMA CapturedKept ==
    ASSUME call' = call, emitted' = emitted, realmode' = realmode, cfg' = cfg
    PROVE  Captured' = Captured /\ (GoesRight(call)' <=> GoesRight(call)) /\ call.reg' = call.reg
  <1>1. (GoesRight(call)' <=> GoesRight(call)) /\ call.reg' = call.reg /\
        OperandOf(call)' = OperandOf(call)
    BY Zenon
  <1>2. StackOperand' = StackOperand /\ PushBytes' = PushBytes /\ Size' = Size
    BY Zenon DEF StackOperand, PushBytes, Size, mode_64b
  <1> QED
    BY <1>1, <1>2, Zenon DEF Captured

LEMMA CaptureStep ==
    EncoderInv /\ EmitInv /\ DecodeInv /\ CaptureInv /\ [NextMemop]_allvars => CaptureInv'
  <1> SUFFICES ASSUME EncoderInv, EmitInv, DecodeInv, CaptureInv, [NextMemop]_allvars
               PROVE  CaptureInv'
    OBVIOUS
  <1>1. ASSUME agen' # "idle" => agen # "idle", insn' = insn, reg' = reg,
               call' = call, emitted' = emitted, realmode' = realmode, cfg' = cfg
        PROVE  CaptureInv'
    BY <1>1, CapturedKept, Zenon DEF CaptureInv
  <1>2. CASE Encode
    <2>1. stage # "emitted" /\ UNCHANGED <<vars, agenvars>>
      BY <1>2 DEF Encode, NextEnc2, CheckArguments, SetOperands, EmitPrefix, EmitOpcode, EmitDisp
    <2>2. agen = "idle" /\ agen' = agen
      BY <2>1 DEF DecodeInv, agenvars
    <2> QED
      BY <2>2 DEF CaptureInv
  <1>3. CASE StartDecode
    <2>1. pc = "idle" /\ agen' = agen
      BY <1>3 DEF StartDecode, agenvars
    <2>2. agen = "idle"
      BY <2>1 DEF DecodeInv
    <2> QED
      BY <2>1, <2>2 DEF CaptureInv
  <1>4. CASE Ild
    <2>1. Next /\ agen' = agen
      BY <1>4 DEF Ild, agenvars
    <2>2. agen = "idle"
      BY <2>1, NextRuns DEF DecodeInv
    <2> QED
      BY <2>1, <2>2 DEF CaptureInv
  <1>5. CASE Capture
    <2>1. pc = "done" /\ call' = call /\ emitted' = emitted /\ realmode' = realmode /\ cfg' = cfg
      BY <1>5 DEF Capture, vars, enc2vars
    <2>2. ASSUME GoesRight(call)  PROVE insn' = Captured /\ reg' = call.reg
      BY <1>5, <2>1, <2>2, ReadToTheEnd, CapturedIs
    <2> QED
      BY <2>1, <2>2, CapturedKept, Zenon DEF CaptureInv
  <1>6. CASE Agen
    <2>1. /\ call' = call /\ emitted' = emitted /\ realmode' = realmode /\ cfg' = cfg /\ reg' = reg
      BY <1>6 DEF Agen, vars, enc2vars
    <2>2. agen # "idle" /\ insn' = insn
      BY <1>6 DEF Agen, NextAgen, AgenStart, BaseValue, SegmentValue, IndexValue, Address,
         CallbackFails, IndexFails
    <2> QED
      BY <1>1, <2>1, <2>2
  <1>7. CASE UNCHANGED allvars
    BY <1>1, <1>7 DEF allvars, agenvars, vars, enc2vars
  <1> QED
    BY <1>2, <1>3, <1>4, <1>5, <1>6, <1>7 DEF NextMemop

-----------------------------------------------------------------------------
LEMMA CallGoesRight ==
    ASSUME EncoderInv, EmitInv, stage = "emitted",
           ~EvexDispGoesWrong(call), ~RegisterGoesWrong(call)
    PROVE  GoesRight(call)
  <1>1. call \in Calls /\ ~OperandError(call) /\ (call.checked => ArgumentsOK(call))
    BY DEF EncoderInv, EmitInv
  <1>2. PlainCall(call)
    BY <1>1, PlainCalls
  <1> QED
    BY <1>1, <1>2, Zenon DEF GoesRight

LEMMA ComesBackAsAsked == EncoderInv /\ EmitInv /\ DecodeInv /\ CaptureInv => OperandComesBack
  <1> SUFFICES ASSUME EncoderInv, EmitInv, DecodeInv, CaptureInv,
                      ~EvexDispGoesWrong(call), ~RegisterGoesWrong(call), pc = "done"
               PROVE  ComesBack
    BY DEF OperandComesBack, ComesBack, Decoded
  <1>1. stage = "emitted"
    BY DEF DecodeInv
  <1>2. GoesRight(call)
    BY <1>1, CallGoesRight
  <1>3. Read
    BY <1>2, ReadToTheEnd
  <1>4. /\ error = "NONE" /\ out_of_bytes = FALSE /\ length = Len(emitted)
        /\ enc.vexvalid = call.form.space /\ enc.map = call.form.map /\
            enc.opcode = call.form.opcode
    BY <1>3, ReadIs, Zenon DEF FormKnown
  <1>5. ASSUME agen # "idle"  PROVE SameOperand(insn.memop[0], call) /\ reg = call.reg
    <2>1. insn = Captured /\ reg = call.reg
      BY <1>2, <1>5 DEF CaptureInv
    <2>2. insn.memop[0] = OperandOf(call)
      BY <2>1 DEF Captured
    <2> DEFINE a == AskedFor(call)
               o == insn.memop[0]
    <2>3. o.base = a.base /\ o.index = a.index /\ o.scale = a.scale /\ o.disp = a.disp
      <3> HIDE DEF a
      <3>1. o = Operand(a.base, a.index, a.scale, a.disp, SegmentOf(call))
        BY <2>2, Zenon DEF OperandOf, a
      <3> HIDE DEF o
      <3> QED
        BY <3>1 DEF Operand
    <2> QED
      BY <2>1, <2>3, Zenon DEF SameOperand
  <1> QED
    BY <1>4, <1>5, Zenon DEF ComesBack

(* A plain call that is not one of those known to be encoded wrongly comes *)
(* back from xed_decode with its form, length, operand and register.       *)
THEOREM OperandsComeBack == SpecMemop => []OperandComesBack
  BY InitEncoder, EncoderStep, InitEmit, EmitStep, InitDecode, DecodeStep, InitCapture, CaptureStep,
     ComesBackAsAsked, PTL DEF SpecMemop

-----------------------------------------------------------------------------
(***************************************************************************)
(* Arithmetic modulo a power of two, for the address computation.          *)
(***************************************************************************)

(* Numbers cut to a modulus, and to one that divides it. *)
Modulus == Nat \ {0}

LEMMA DivMod ==
    ASSUME NEW a \in Int, NEW m \in Modulus
    PROVE  /\ a \div m \in Int /\ a % m \in Int /\ 0 <= a % m /\ a % m < m
           /\ a = m * (a \div m) + (a % m)
  BY DEF Modulus

LEMMA RemainderIs ==
    ASSUME NEW a \in Int, NEW m \in Modulus, NEW q \in Int, NEW r \in Int,
           0 <= r, r < m, a = m * q + r
    PROVE  a % m = r
  BY DEF Modulus

LEMMA Times ==
    ASSUME NEW a \in Int, NEW b \in Int, NEW c \in Int
    PROVE  /\ a * b \in Int /\ a * b = b * a
           /\ a * (b + c) = a * b + a * c /\ a * (b * c) = (a * b) * c
  OBVIOUS

LEMMA MoreOfModulus ==
    ASSUME NEW a \in Int, NEW m \in Modulus, NEW k \in Int
    PROVE  (a + m * k) % m = a % m
  <1> DEFINE q == a \div m
             r == a % m
  <1>1. q \in Int /\ r \in Int /\ 0 <= r /\ r < m /\ a = m * q + r /\ m \in Int
    BY DivMod DEF Modulus
  <1> HIDE DEF q, r
  <1>2. m * (q + k) = m * q + m * k /\ m * q \in Int /\ m * k \in Int
    BY <1>1, Times
  <1>3. a + m * k = m * (q + k) + r
    BY <1>1, <1>2
  <1>4. a + m * k \in Int /\ q + k \in Int
    BY <1>1, <1>2
  <1>5. (a + m * k) % m = r
    BY <1>1, <1>3, <1>4, RemainderIs
  <1> QED
    BY <1>5 DEF r

LEMMA Divides ==
    ASSUME NEW m \in Modulus, NEW n \in Modulus, m % n = 0
    PROVE  \E t \in Int : m = n * t
  <1>1. m \in Int
    BY DEF Modulus
  <1>2. m = n * (m \div n) + (m % n) /\ m \div n \in Int
    BY <1>1, DivMod
  <1>3. n * (m \div n) \in Int
    BY <1>2, Times DEF Modulus
  <1>4. m = n * (m \div n)
    BY <1>2, <1>3
  <1> QED
    BY <1>2, <1>4

LEMMA DividesFrom ==
    ASSUME NEW m \in Modulus, NEW n \in Modulus, NEW t \in Int, m = n * t
    PROVE  m % n = 0
  <1>1. m \in Int /\ n > 0 /\ n * t \in Int
    BY DEF Modulus
  <1>2. m = n * t + 0
    BY <1>1
  <1> QED
    BY <1>1, <1>2, RemainderIs

LEMMA DividesTwice ==
    ASSUME NEW l \in Modulus, NEW m \in Modulus, NEW n \in Modulus, l % m = 0, m % n = 0
    PROVE  l % n = 0
  <1>1. PICK s \in Int : l = m * s
    BY Divides
  <1>2. PICK t \in Int : m = n * t
    BY Divides
  <1>3. n \in Int
    BY DEF Modulus
  <1>4. n * (t * s) = (n * t) * s /\ t * s \in Int
    BY <1>3, Times
  <1>5. l = n * (t * s)
    BY <1>1, <1>2, <1>4
  <1> QED
    BY <1>4, <1>5, DividesFrom

LEMMA CutTwice ==
    ASSUME NEW a \in Int, NEW m \in Modulus, NEW w \in Modulus, m % w = 0
    PROVE  /\ (a % m) % w = a % w
           /\ \A x \in Int : ((a % m) + x) % w = (a + x) % w
  <1> DEFINE q == a \div m
             r == a % m
  <1>1. PICK t \in Int : m = w * t
    BY Divides
  <1>2. q \in Int /\ r \in Int /\ a = m * q + r /\ w \in Int
    BY DivMod DEF Modulus
  <1> HIDE DEF q, r
  <1>3. w * (t * q) = (w * t) * q /\ t * q \in Int /\ w * (t * q) \in Int
    BY <1>1, <1>2, Times
  <1>4. a = r + w * (t * q)
    BY <1>1, <1>2, <1>3
  <1>5. r % w = a % w
    <2>1. (r + w * (t * q)) % w = r % w
      BY <1>2, <1>3, MoreOfModulus
    <2> QED
      BY <1>4, <2>1
  <1>6. ASSUME NEW x \in Int  PROVE (r + x) % w = (a + x) % w
    <2>1. a + x = (r + x) + w * (t * q)
      BY <1>2, <1>3, <1>4
    <2>2. r + x \in Int
      BY <1>2
    <2>3. ((r + x) + w * (t * q)) % w = (r + x) % w
      BY <1>3, <2>2, MoreOfModulus
    <2> QED
      BY <2>1, <2>3
  <1> QED
    BY <1>5, <1>6 DEF r

LEMMA CutSum ==
    ASSUME NEW b \in Int, NEW i \in Int, NEW s \in Int, NEW d \in Int, NEW w \in Modulus
    PROVE  ((b % w) + (i % w) * s + d) % w = (b + i * s + d) % w
  <1> DEFINE p == b \div w
             u == b % w
             q == i \div w
             v == i % w
  <1>1. /\ p \in Int /\ u \in Int /\ b = w * p + u /\ w \in Int
        /\ q \in Int /\ v \in Int /\ i = w * q + v
    BY DivMod DEF Modulus
  <1> HIDE DEF p, u, q, v
  <1>2. /\ w * q \in Int /\ q * s \in Int /\ w * (q * s) = (w * q) * s /\ v * s \in Int
        /\ s * (w * q + v) = s * (w * q) + s * v
        /\ s * (w * q) = (w * q) * s /\ s * v = v * s /\ s * i = i * s /\ i * s \in Int
        /\ w * (p + q * s) = w * p + w * (q * s) /\ w * p \in Int /\ w * (q * s) \in Int
    BY <1>1, Times
  <1>3. i * s = w * (q * s) + v * s
    BY <1>1, <1>2
  <1>4. b + i * s + d = (u + v * s + d) + w * (p + q * s)
    BY <1>1, <1>2, <1>3
  <1>5. u + v * s + d \in Int /\ p + q * s \in Int
    BY <1>1, <1>2
  <1>6. ((u + v * s + d) + w * (p + q * s)) % w = (u + v * s + d) % w
    BY <1>5, MoreOfModulus
  <1> QED
    BY <1>4, <1>6 DEF u, v

(* what xed_agen computes of the values and what the processor does *)
LEMMA LinearIs ==
    ASSUME NEW m \in Modulus, NEW w \in Modulus, m % w = 0,
           NEW b \in Int, NEW i \in Int, NEW s \in Int, NEW d \in Int, NEW g \in Int
    PROVE  ((g % m) + ((((b % m) % w) + ((i % m) % w) * s + d) % w)) % w
           = (g + ((b + i * s + d) % w)) % w
  <1> DEFINE e == (b + i * s + d) % w
  <1>1. (b % m) % w = b % w /\ (i % m) % w = i % w
    BY CutTwice
  <1>2. (((b % m) % w) + ((i % m) % w) * s + d) % w = e
    BY <1>1, CutSum
  <1>3. e \in Int
    <2>1. b + i * s + d \in Int
      BY Times
    <2> QED
      BY <2>1, DivMod
  <1> HIDE DEF e
  <1>4. ((g % m) + e) % w = (g + e) % w
    BY <1>3, CutTwice
  <1> QED
    BY <1>2, <1>4 DEF e

-----------------------------------------------------------------------------
(***************************************************************************)
(* ComputedInv is inductive: the registers xed_agen has fetched by each    *)
(* step.                                                                   *)
(***************************************************************************)

(* What has been asked of the callbacks. *)
BaseFetched == Wrap(64, Value(memop.base) - insn.push[ask.memop_index])
SegmentFetched ==
    Wrap(64, IF memop.seg = NoReg THEN 0
             ELSE IF insn.real_mode THEN RegisterValue(memop.seg) * 16 ELSE SegmentBase(memop.seg))
IndexFetched == Wrap(64, Value(memop.index))
Past(stages) == agen \in stages \/ out_address # {}

ComputedInv ==
    /\ Past({"base", "segment", "index", "address"}) => ask.memop_index \in {0, 1}
    /\ Past({"segment", "index", "address"}) => base_value = BaseFetched
    /\ Past({"index", "address"}) => segment_base = SegmentFetched
    /\ Past({"address"}) => index_value = IndexFetched
    /\ out_address # {} => agen = "returned" /\ out_address = {Linear}

LEMMA InitComputed == InitMemop => ComputedInv
  BY DEF InitMemop, InitAgen, ComputedInv, Past

LEMMA FetchedKept ==
    ASSUME insn' = insn, ask' = ask
    PROVE  BaseFetched' = BaseFetched /\ SegmentFetched' = SegmentFetched /\
        IndexFetched' = IndexFetched
  BY Zenon DEF BaseFetched, SegmentFetched, IndexFetched, memop

LEMMA FailureKeepsComputed ==
    ASSUME AgenInv, agen # "returned", CallbackFails
    PROVE  ComputedInv'
  <1>1. out_address = {} /\ out_address' = out_address /\ agen' = "returned"
    BY DEF AgenInv, CallbackFails, AgenReturn
  <1> QED
    BY <1>1 DEF ComputedInv, Past

LEMMA ComputedStep == AgenInv /\ ComputedInv /\ [NextMemop]_allvars => ComputedInv'
  <1> SUFFICES ASSUME AgenInv, ComputedInv, [NextMemop]_allvars  PROVE ComputedInv'
    OBVIOUS
  <1>1. ASSUME UNCHANGED agenvars  PROVE ComputedInv'
    <2>1. /\ agen' = agen /\ ask' = ask /\ insn' = insn /\ base_value' = base_value
          /\ segment_base' = segment_base /\ index_value' = index_value /\
              out_address' = out_address
      BY <1>1 DEF agenvars
    <2>2. Linear' = Linear
      BY <2>1, Zenon DEF Linear, Effective, memop
    <2> QED
      BY <2>1, <2>2, FetchedKept DEF ComputedInv, Past
  <1>2. CASE AgenStart
    <2>1. out_address = {} /\ out_address' = {} /\ ask' = ask
      BY <1>2 DEF AgenStart, AgenInv
    <2>2. agen' = "returned" \/ (agen' = "base" /\ ask.memop_index \in {0, 1})
      BY <1>2 DEF AgenStart, AgenReturn
    <2> QED
      BY <2>1, <2>2 DEF ComputedInv, Past
  <1>3. CASE BaseValue
    <2>1. agen = "base" /\ out_address = {}
      BY <1>3 DEF BaseValue, AgenInv
    <2>2. CASE CallbackFails
      BY <2>1, <2>2, FailureKeepsComputed
    <2>3. CASE ~CallbackFails
      <3>1. agen' = "segment" /\ ask' = ask /\ insn' = insn /\ out_address' = out_address
        BY <1>3, <2>3 DEF BaseValue
      <3>2. base_value' = Wrap(64, (IF memop.base # InvalidReg THEN RegisterValue(memop.base) ELSE 0)
                                      - insn.push[ask.memop_index])
        BY <1>3, <2>3 DEF BaseValue
      <3>3. base_value' = BaseFetched
        <4>1. InvalidReg = NoReg
          BY MemopAssumption
        <4>2. (IF memop.base # InvalidReg THEN RegisterValue(memop.base) ELSE 0) = Value(memop.base)
          BY <4>1, Zenon DEF Value
        <4> QED
          BY <3>2, <4>2, Zenon DEF BaseFetched
      <3>4. ask.memop_index \in {0, 1}
        BY <2>1 DEF ComputedInv, Past
      <3> QED
        BY <2>1, <3>1, <3>3, <3>4, FetchedKept DEF ComputedInv, Past
    <2> QED
      BY <2>2, <2>3
  <1>4. CASE SegmentValue
    <2>1. agen = "segment" /\ out_address = {}
      BY <1>4 DEF SegmentValue, AgenInv
    <2>2. CASE CallbackFails
      BY <2>1, <2>2, FailureKeepsComputed
    <2>3. CASE ~CallbackFails
      <3>1. agen' = "index" /\ ask' = ask /\ insn' = insn /\ out_address' = out_address
            /\ base_value' = base_value
        BY <1>4, <2>3 DEF SegmentValue
      <3>2. segment_base' = Wrap(64, IF memop.seg = InvalidReg THEN 0
                                     ELSE IF insn.real_mode THEN RegisterValue(memop.seg) * 16
                                     ELSE SegmentBase(memop.seg))
        BY <1>4, <2>3 DEF SegmentValue
      <3>3. segment_base' = SegmentFetched
        <4>1. InvalidReg = NoReg
          BY MemopAssumption
        <4> QED
          BY <3>2, <4>1, Zenon DEF SegmentFetched
      <3>4. ask.memop_index \in {0, 1} /\ base_value = BaseFetched
        BY <2>1 DEF ComputedInv, Past
      <3> QED
        BY <2>1, <3>1, <3>3, <3>4, FetchedKept DEF ComputedInv, Past
    <2> QED
      BY <2>2, <2>3
  <1>5. CASE IndexValue
    <2>1. agen = "index" /\ out_address = {}
      BY <1>5 DEF IndexValue, AgenInv
    <2>2. CASE CallbackFails
      BY <2>1, <2>2, FailureKeepsComputed
    <2>3. CASE ~CallbackFails
      <3>1. agen' = "address" /\ ask' = ask /\ insn' = insn /\ out_address' = out_address
            /\ base_value' = base_value /\ segment_base' = segment_base
        BY <1>5, <2>3 DEF IndexValue, IndexFails
      <3>2. index_value' = Wrap(64, IF memop.index # InvalidReg THEN RegisterValue(memop.index) ELSE 0)
        BY <1>5, <2>3 DEF IndexValue, IndexFails
      <3>3. index_value' = IndexFetched
        <4>1. InvalidReg = NoReg
          BY MemopAssumption
        <4> QED
          BY <3>2, <4>1, Zenon DEF IndexFetched, Value
      <3>4. ask.memop_index \in {0, 1} /\ base_value = BaseFetched /\ segment_base = SegmentFetched
        BY <2>1 DEF ComputedInv, Past
      <3> QED
        BY <2>1, <3>1, <3>3, <3>4, FetchedKept DEF ComputedInv, Past
    <2> QED
      BY <2>2, <2>3
  <1>6. CASE Address
    <2>1. /\ agen = "address" /\ out_address = {} /\ agen' = "returned" /\ ask' = ask /\
             insn' = insn
          /\ base_value' = base_value /\ segment_base' = segment_base /\ index_value' = index_value
          /\ out_address' = {Linear} \/ out_address' = out_address
      BY <1>6 DEF Address, AgenReturn, AgenInv
    <2>2. Linear' = Linear
      BY <2>1, Zenon DEF Linear, Effective, memop
    <2>3. /\ ask.memop_index \in {0, 1} /\ base_value = BaseFetched /\ segment_base = SegmentFetched
          /\ index_value = IndexFetched
      BY <2>1 DEF ComputedInv, Past
    <2> QED
      BY <2>1, <2>2, <2>3, FetchedKept DEF ComputedInv, Past
  <1>7. CASE Agen
    BY <1>2, <1>3, <1>4, <1>5, <1>6, <1>7 DEF Agen, NextAgen
  <1>8. CASE Capture
    <2>1. out_address = {} /\ out_address' = out_address /\ agen' = "start"
      BY <1>8 DEF Capture, AgenInv
    <2> QED
      BY <2>1 DEF ComputedInv, Past
  <1>9. CASE Encode
    BY <1>1, <1>9 DEF Encode
  <1>10. CASE StartDecode
    BY <1>1, <1>10 DEF StartDecode
  <1>11. CASE Ild
    BY <1>1, <1>11 DEF Ild
  <1>12. CASE UNCHANGED allvars
    BY <1>1, <1>12 DEF allvars
  <1> QED
    BY <1>7, <1>8, <1>9, <1>10, <1>11, <1>12 DEF NextMemop

-----------------------------------------------------------------------------
(***************************************************************************)
(* The address computed is the address meant.                              *)
(***************************************************************************)

LEMMA Moduli ==
    /\ AddressMax(16) \in Modulus /\ AddressMax(32) \in Modulus /\ AddressMax(64) \in Modulus
    /\ AddressMax(64) % AddressMax(64) = 0 /\ AddressMax(64) % AddressMax(32) = 0
    /\ AddressMax(64) % AddressMax(16) = 0 /\ AddressMax(32) % AddressMax(16) = 0
  <1>1. AddressMax(16) \in Modulus /\ AddressMax(32) \in Modulus /\ AddressMax(64) \in Modulus
    BY AgenAssumption DEF Modulus
  <1>2. AddressMax(64) % AddressMax(32) = 0 /\ AddressMax(32) % AddressMax(16) = 0
    BY MemopAssumption
  <1>3. AddressMax(64) % AddressMax(16) = 0
    BY <1>1, <1>2, DividesTwice
  <1>4. AddressMax(64) = AddressMax(64) * 1
    BY <1>1 DEF Modulus
  <1>5. AddressMax(64) % AddressMax(64) = 0
    BY <1>1, <1>4, DividesFrom
  <1> QED
    BY <1>1, <1>2, <1>3, <1>5

LEMMA ValueIs == ASSUME NEW r \in 0..33  PROVE Value(r) \in Int
  BY MemopAssumption DEF Value

LEMMA SizeIs ==
    ASSUME call \in Calls
    PROVE  /\ call.mode = Mode64 => Size = 64
           /\ call.mode = Mode32 => Size = 32
           /\ call.mode = Mode16 => Size = 16
           /\ call.mode \in {Mode16, Mode32, Mode64}
  <1>1. call.mode \in Modes
    BY CallFields
  <1>2. 16 * 2^2 = 64 /\ 16 * 2^1 = 32 /\ 16 * 2^0 = 16
    OBVIOUS
  <1> QED
    BY <1>1, <1>2 DEF Modes, Mode16, Mode32, Mode64, Size

(* the operand whose address is asked for *)
PushOf(i) == IF i = 1 /\ call.form.push THEN PushBytes ELSE 0
OperandNo(i) == IF i = 0 THEN OperandOf(call) ELSE IF call.form.push THEN StackOperand ELSE NoOperand

LEMMA FirstOperand ==
    ASSUME GoesRight(call), ask.memop_index = 0, NEW o, o = OperandOf(call)
    PROVE  /\ o.base \in 0..33 /\ o.index \in 0..32 /\ o.scale \in Int /\ o.disp \in Int
           /\ o.seg \in SegRegs \cup {NoReg} /\ o.seg = MeantSegment
           /\ o.base = call.base /\ o.index = call.index
           /\ MeantOffset = Value(o.base) + Value(o.index) * o.scale + o.disp
                            + (IF o.base = Rip THEN Len(emitted) ELSE 0)
  <1> DEFINE a == AskedFor(call)
  <1>1. call \in Calls /\ call.form \in Forms
    BY Arguments, Zenon
  <1>2. /\ call.base \in 0..33 /\ call.index \in 0..32 /\ call.disp \in Int
        /\ call.seg \in 40..45 \cup {NoReg} /\ call.form.width \in 1..64 /\ call.scale \in 0..8
    <2>1. call.scale \in 0..8
      BY <1>1, Enc2Assumption DEF CallType
    <2> QED
      BY <1>1, <2>1, CallFields, FormFields
  <1>3. a.base = call.base /\ a.index = call.index /\ a.scale \in Int /\ a.disp \in Int
    BY <1>2 DEF AskedFor
  <1> HIDE DEF a
  <1>4. o = Operand(a.base, a.index, a.scale, a.disp, SegmentOf(call))
    BY Zenon DEF OperandOf, a
  <1>5. o.base = a.base /\ o.index = a.index /\ o.scale = a.scale /\ o.disp = a.disp /\
        o.seg = SegmentOf(call)
    BY <1>4 DEF Operand
  <1>6. SegmentOf(call) \in SegRegs \cup {NoReg}
    BY <1>2 DEF SegmentOf, SegRegs, SS, DS
  <1>7. SegmentOf(call) = MeantSegment
    BY DEF SegmentOf, MeantSegment
  <1>8. MeantOffset = Value(a.base) + Value(a.index) * a.scale + a.disp
                      + (IF a.base = Rip THEN Len(emitted) ELSE 0)
    <2>1. ask.memop_index # 1
      OBVIOUS
    <2> QED
      BY <2>1, Zenon DEF MeantOffset, a
  <1> QED
    BY <1>2, <1>3, <1>5, <1>6, <1>7, <1>8, ZenonT(30)

LEMMA SecondOperand ==
    ASSUME ask.memop_index = 1, NEW o, o = (IF call.form.push THEN StackOperand ELSE NoOperand),
           mode_64b <=> call.mode = Mode64, cfg.mode \in Modes
    PROVE  /\ o.base \in 0..32 /\ o.index = NoReg /\ o.scale = 1 /\ o.disp = 0
           /\ o.seg \in SegRegs \cup {NoReg} /\ o.seg = MeantSegment
           /\ PushOf(1) \in Int
           /\ MeantOffset = Value(o.base) - PushOf(1)
  <1>1. InvalidReg = NoReg
    BY MemopAssumption
  <1>2. PushBytes \in Int
    BY DEF PushBytes, Modes, Mode16, Mode32, Mode64
  <1>3. CASE call.form.push
    <2>1. o = Operand(SP, NoReg, 1, 0, IF mode_64b THEN NoReg ELSE SS)
      BY <1>3, Zenon DEF StackOperand
    <2>2. o.base = SP /\ o.index = NoReg /\ o.scale = 1 /\ o.disp = 0
          /\ o.seg = IF mode_64b THEN NoReg ELSE SS
      BY <2>1 DEF Operand
    <2>3. MeantSegment = IF call.mode # Mode64 THEN SS ELSE NoReg
      BY <1>3 DEF MeantSegment
    <2>4. PushOf(1) = PushBytes
      BY <1>3 DEF PushOf
    <2>5. MeantOffset = Value(SP) - PushBytes
      BY <1>3, Zenon DEF MeantOffset
    <2>6. SP \in 0..32 /\ SS \in SegRegs
      BY DEF SP, SS, SegRegs
    <2>7. o.seg = MeantSegment
      BY <2>2, <2>3
    <2>8. o.seg \in SegRegs \cup {NoReg}
      BY <2>2, <2>6
    <2> QED
      BY <1>2, <2>2, <2>4, <2>5, <2>6, <2>7, <2>8, Zenon
  <1>4. CASE ~call.form.push
    <2>1. o = Operand(NoReg, NoReg, 1, 0, NoReg)
      BY <1>1, <1>4, Zenon DEF NoOperand
    <2>2. o.base = NoReg /\ o.index = NoReg /\ o.scale = 1 /\ o.disp = 0 /\ o.seg = NoReg
      BY <2>1 DEF Operand
    <2>3. MeantSegment = NoReg
      BY <1>4 DEF MeantSegment
    <2>4. PushOf(1) = 0
      BY <1>4 DEF PushOf
    <2>5. MeantOffset = 0
      BY <1>4, Zenon DEF MeantOffset
    <2>6. Value(NoReg) - 0 = 0
      BY DEF Value
    <2>7. NoReg \in 0..32
      BY DEF NoReg
    <2> QED
      BY <2>2, <2>3, <2>4, <2>5, <2>6, <2>7
  <1> QED
    BY <1>3, <1>4

(* what both have *)
Wanted(o, p) ==
    /\ Value(o.base) \in Int /\ Value(o.index) \in Int /\ o.scale \in Int /\ o.disp \in Int /\
        p \in Int
    /\ o.seg \in SegRegs \cup {NoReg} /\ o.seg = MeantSegment
    /\ o.base = Rip => call.base = Rip /\ p = 0 /\ Value(o.index) * o.scale = 0
    /\ MeantOffset = (Value(o.base) - p) + Value(o.index) * o.scale + o.disp
                     + (IF o.base = Rip THEN Len(emitted) ELSE 0)

LEMMA WantedIs ==
    ASSUME GoesRight(call), ask.memop_index \in {0, 1}, cfg = ChipOf(call)
    PROVE  Wanted(OperandNo(ask.memop_index), PushOf(ask.memop_index))
  <1> DEFINE k == ask.memop_index
             o == OperandNo(k)
             p == PushOf(k)
             len == IF o.base = Rip THEN Len(emitted) ELSE 0
  <1>1. CASE k = 0
    <2>1. o = OperandOf(call) /\ p = 0
      BY <1>1 DEF OperandNo, PushOf
    <2> HIDE DEF o, p
    <2>2. /\ o.base \in 0..33 /\ o.index \in 0..32 /\ o.scale \in Int /\ o.disp \in Int
          /\ o.seg \in SegRegs \cup {NoReg} /\ o.seg = MeantSegment
          /\ o.base = call.base /\ o.index = call.index
          /\ MeantOffset = Value(o.base) + Value(o.index) * o.scale + o.disp + len
      BY <1>1, <2>1, FirstOperand
    <2>3. Value(o.base) \in Int /\ Value(o.index) \in Int
      <3>1. o.base \in 0..33 /\ o.index \in 0..33
        BY <2>2
      <3> QED
        BY <3>1, ValueIs
    <2>7. ASSUME o.base = Rip  PROVE Value(o.index) * o.scale = 0
      <3>1. call.index = NoReg
        BY <2>2, <2>7, Arguments
      <3>2. Value(o.index) = 0
        BY <2>2, <3>1, Zenon DEF Value
      <3> QED
        BY <2>2, <3>2
    <2>4. Value(o.base) = Value(o.base) - p
      BY <2>1, <2>3
    <2>5. p \in Int
      BY <2>1
    <2>6. Wanted(o, p)
      BY <2>1, <2>2, <2>3, <2>4, <2>5, <2>7, Zenon DEF Wanted
    <2> QED
      BY <2>6 DEF o, p
  <1>2. CASE k = 1
    <2>1. o = (IF call.form.push THEN StackOperand ELSE NoOperand) /\ p = PushOf(1)
      BY <1>2 DEF OperandNo
    <2>2. (mode_64b <=> call.mode = Mode64) /\ cfg.mode \in Modes
      <3>1. cfg.mode = call.mode
        BY DEF ChipOf
      <3>2. call.mode \in Modes
        <4>1. call \in Calls
          BY Arguments
        <4> QED
          BY <4>1, CallFields
      <3> QED
        BY <3>1, <3>2, Zenon DEF mode_64b
    <2> HIDE DEF o, p
    <2>3. /\ o.base \in 0..32 /\ o.index = NoReg /\ o.scale = 1 /\ o.disp = 0
          /\ o.seg \in SegRegs \cup {NoReg} /\ o.seg = MeantSegment
          /\ p \in Int /\ MeantOffset = Value(o.base) - p
      BY <1>2, <2>1, <2>2, SecondOperand
    <2>4. Value(o.base) \in Int /\ Value(o.index) = 0 /\ o.base # Rip /\ len = 0
      <3>1. o.base \in 0..33 /\ o.base # Rip
        BY <2>3 DEF Rip
      <3>2. Value(o.index) = 0
        BY <2>3, Zenon DEF Value
      <3>3. len = 0
        BY <3>1
      <3> QED
        BY <3>1, <3>2, <3>3, ValueIs
    <2>5. MeantOffset = (Value(o.base) - p) + Value(o.index) * o.scale + o.disp + len
      <3> HIDE DEF len
      <3> QED
        BY <2>3, <2>4
    <2>6. Value(o.index) \in Int /\ o.scale \in Int /\ o.disp \in Int
      BY <2>3, <2>4
    <2>7. Wanted(o, p)
      BY <2>3, <2>4, <2>5, <2>6, Zenon DEF Wanted
    <2> QED
      BY <2>7 DEF o, p
  <1> QED
    BY <1>1, <1>2

-----------------------------------------------------------------------------
LEMMA AddressAsMeant ==
    EncoderInv /\ EmitInv /\ DecodeInv /\ CaptureInv /\ ComputedInv => AddressIsMeant
  <1> SUFFICES ASSUME EncoderInv, EmitInv, DecodeInv, CaptureInv, ComputedInv, out_address # {},
                      ~EvexDispGoesWrong(call), ~RegisterGoesWrong(call),
                      ~(Size = 16 /\ MeantAddress >= AddressMax(16)),
                      ~(call.base = Rip /\ MeantSegment # NoReg)
               PROVE  AddressOfOperand
    BY DEF AddressIsMeant
  <1> DEFINE k == ask.memop_index
             o == OperandNo(k)
             p == PushOf(k)
             b == Value(o.base) - p
             i == Value(o.index)
             s == o.scale
             d == o.disp
             g == IF o.seg = NoReg THEN 0
                  ELSE IF realmode THEN RegisterValue(o.seg) * 16 ELSE SegmentBase(o.seg)
             m == AddressMax(64)
             w == AddressMax(Size)
  <1>1. /\ k \in {0, 1} /\ agen = "returned" /\ out_address = {Linear}
        /\ base_value = BaseFetched /\ segment_base = SegmentFetched /\ index_value = IndexFetched
    BY DEF ComputedInv, Past
  <1>2. stage = "emitted" /\ cfg = ChipOf(call)
    BY <1>1 DEF DecodeInv
  <1>3. GoesRight(call) /\ call \in Calls
    BY <1>2, CallGoesRight DEF GoesRight
  <1>4. insn = Captured
    BY <1>1, <1>3 DEF CaptureInv
  <1>5. /\ insn.width = Size /\ insn.asz = 0 /\ insn.length = Len(emitted) /\
           insn.real_mode = realmode
        /\ memop = o /\ insn.push[k] = p
    BY <1>1, <1>4 DEF Captured, memop, OperandNo, PushOf
  <1>6. Wanted(o, p)
    BY <1>1, <1>2, <1>3, WantedIs
  <1>7. /\ base_value = b % m /\ segment_base = g % m /\ index_value = i % m
    BY <1>1, <1>5, Zenon DEF BaseFetched, SegmentFetched, IndexFetched, Wrap
  <1>8. b \in Int /\ i \in Int /\ s \in Int /\ d \in Int /\ g \in Int
    <2>1. b \in Int /\ i \in Int /\ s \in Int /\ d \in Int
      BY <1>6 DEF Wanted
    <2>2. CASE o.seg = NoReg
      BY <2>1, <2>2
    <2>3. CASE o.seg # NoReg
      <3>1. o.seg \in SegRegs
        BY <1>6, <2>3 DEF Wanted
      <3>2. RegisterValue(o.seg) \in Nat /\ SegmentBase(o.seg) \in Nat
        BY <3>1, MemopAssumption
      <3> QED
        BY <2>1, <3>2
    <2> QED
      BY <2>2, <2>3
  <1>9. insn.memop[k].seg = o.seg /\ o.seg = MeantSegment
    BY <1>5, <1>6 DEF memop, Wanted
  <1>10. MeantBase = g
    BY <1>9, Zenon DEF MeantBase
  <1>11. m \in Modulus /\ w \in Modulus /\ m % w = 0
    <2>1. Size \in {16, 32, 64}
      BY <1>3, SizeIs
    <2> QED
      BY <2>1, Moduli
  <1>12. Linear = MeantAddress
    <2>1. CASE o.base = Rip
      <3>1. call.base = Rip /\ p = 0
        BY <1>6, <2>1 DEF Wanted
      <3>2. Size = 64
        BY <1>3, <3>1, Arguments, SizeIs
      <3>3. g = 0
        BY <1>9, <3>1
      <3> DEFINE l == Len(emitted)
                 y == b + l + d
      <3>4. l \in Int /\ w = m
        BY <3>2 DEF EncoderInv, Twelve
      <3>5. Linear = ((b % m) + l + d) % m
        <4>1. insn.width = 64 /\ memop.base = RegRip /\ insn.asz # 1
          BY <1>5, <2>1, <3>2, MemopAssumption
        <4>2. Linear = Wrap(64, base_value + insn.length + memop.disp)
          BY <4>1, Zenon DEF Linear
        <4> QED
          BY <1>5, <1>7, <4>2, Zenon DEF Wrap
      <3>6. i * s = 0 /\ MeantOffset = b + i * s + d + l
        BY <1>6, <2>1, Zenon DEF Wanted
      <3>7. MeantAddress = (0 + (MeantOffset % m)) % m
        <4>1. (IF Size = 64 THEN 64 ELSE 32) = 64
          BY <3>2
        <4> QED
          BY <1>10, <3>3, <3>4, <4>1, Zenon DEF MeantAddress
      <3> HIDE DEF b, i, s, d, l, m, w
      <3>8. y \in Int /\ MeantOffset = y /\ l + d \in Int /\ (b % m) \in Int
        BY <1>8, <1>11, <3>4, <3>6, DivMod
      <3>9. y = b + (l + d) /\ (b % m) + l + d = (b % m) + (l + d)
        BY <1>8, <3>4, <3>8
      <3>10. ((b % m) + (l + d)) % m = (b + (l + d)) % m
        BY <1>8, <1>11, <3>4, <3>8, CutTwice
      <3>11. (y % m) % m = y % m /\ y % m \in Int
        BY <1>11, <3>4, <3>8, CutTwice, DivMod
      <3>12. 0 + (y % m) = y % m
        BY <3>11
      <3>13. MeantAddress = y % m
        BY <3>7, <3>8, <3>11, <3>12, Zenon
      <3> QED
        BY <3>5, <3>9, <3>10, <3>13
    <2>2. CASE o.base # Rip
      <3> DEFINE v == b + i * s + d
      <3>1. Linear = ((g % m) + ((((b % m) % w) + ((i % m) % w) * s + d) % w)) % w
        <4>1. ~(insn.width = 64 /\ memop.base = RegRip)
          BY <1>5, <2>2, MemopAssumption
        <4>2. Linear = Wrap(Size, segment_base + Effective(Size))
          BY <1>5, <4>1, Zenon DEF Linear
        <4>3. Effective(Size) = (((b % m) % w) + ((i % m) % w) * s + d) % w
          BY <1>5, <1>7, Zenon DEF Effective, Wrap
        <4> QED
          BY <1>7, <4>2, <4>3, Zenon DEF Wrap
      <3>2. Linear = (g + (v % w)) % w
        <4> HIDE DEF b, i, s, d, g, m, w
        <4> QED
          BY <1>8, <1>11, <3>1, LinearIs
      <3>3. MeantOffset = v
        <4>1. MeantOffset = v + 0
          BY <1>6, <2>2, Zenon DEF Wanted
        <4>2. v \in Int
          <5> HIDE DEF b, i, s, d
          <5> QED
            BY <1>8, Times
        <4> HIDE DEF v
        <4> QED
          BY <4>1, <4>2
      <3>4. MeantAddress = (g + (v % w)) % AddressMax(IF Size = 64 THEN 64 ELSE 32)
        BY <1>10, <3>3, Zenon DEF MeantAddress
      <3>5. CASE Size \in {32, 64}
        <4>1. AddressMax(IF Size = 64 THEN 64 ELSE 32) = w
          BY <3>5
        <4> QED
          BY <3>2, <3>4, <4>1, Zenon
      <3>6. CASE Size = 16
        <4> DEFINE x == g + (v % w)
                   n == AddressMax(32)
        <4>1. x \in Int /\ n \in Modulus /\ n % w = 0
          <5>1. v \in Int
            <6> HIDE DEF b, i, s, d
            <6> QED
              BY <1>8, Times
          <5> HIDE DEF v, g, w
          <5>2. v % w \in Int
            BY <1>11, <5>1, DivMod
          <5>3. n \in Modulus /\ n % w = 0
            BY <3>6, Moduli DEF w
          <5> QED
            BY <1>8, <5>2, <5>3
        <4>2. MeantAddress = x % n /\ MeantAddress < w
          <5>1. MeantAddress = x % n
            <6>1. (IF Size = 64 THEN 64 ELSE 32) = 32
              BY <3>6
            <6> QED
              BY <3>4, <6>1, Zenon
          <5>2. x % n \in Int /\ w \in Int
            BY <1>11, <4>1, DivMod DEF Modulus
          <5>3. w = AddressMax(16)
            BY <3>6
          <5> HIDE DEF x, n, w
          <5> QED
            BY <3>6, <5>1, <5>2, <5>3
        <4> HIDE DEF x, n, w, v, g
        <4>3. x % n \in Int /\ 0 <= x % n /\ (x % n) % w = x % w
          BY <1>11, <4>1, DivMod, CutTwice
        <4>4. (x % n) % w = x % n
          <5> DEFINE r == x % n
          <5>1. r \in Int /\ 0 <= r /\ r < w /\ w \in Int
            BY <1>11, <4>2, <4>3 DEF Modulus
          <5> HIDE DEF r
          <5>2. r = w * 0 + r
            BY <5>1
          <5>3. r % w = r
            BY <1>11, <5>1, <5>2, RemainderIs
          <5> QED
            BY <5>3 DEF r
        <4>5. Linear = x % w
          BY <3>2 DEF x
        <4> QED
          BY <4>2, <4>3, <4>4, <4>5
      <3>7. Size \in {16, 32, 64}
        BY <1>3, SizeIs
      <3> QED
        BY <3>5, <3>6, <3>7
    <2> QED
      BY <2>1, <2>2
  <1> QED
    BY <1>1, <1>9, <1>12, Zenon DEF AddressOfOperand

(* xed_agen returns the address the processor forms from the operand of    *)
(* the call, whatever the registers hold.                                  *)
THEOREM AddressesAreMeant == SpecMemop => []AddressIsMeant
  BY InitEncoder, EncoderStep, InitEmit, EmitStep, InitDecode, DecodeStep, InitCapture, CaptureStep,
     InitAddress, AddressStep, InitComputed, ComputedStep, AddressAsMeant, PTL DEF SpecMemop

=============================================================================
