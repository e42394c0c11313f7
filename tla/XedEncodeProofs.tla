-------------------------- MODULE XedEncodeProofs ---------------------------
(***************************************************************************)
(* Proofs about the encoder, for every array and offered length, every     *)
(* request a client can fill in, and all encodings the generated functions *)
(* may choose: any number of attempts, rules and fields of any widths.     *)
(***************************************************************************)
EXTENDS XedEncodeProps, SequenceTheorems, NaturalsInduction, WellFoundedInduction, TLAPS

(* While xed_encode runs it works on the array length of this call. *)
RunType ==
    /\ pc \in {"client", "bind", "emit", "loop"}
    /\ ilen \in Nat /\ bit_offset \in 0..8 * ilen
    /\ pc # "client" => given = ilen

(* The locals of the loop.  What is left of the field has room, which is   *)
(* what the test before the loop leaves behind: the loop has none itself.  *)
LoopRoom ==
    /\ nbits \in 0..64 /\ bit_in_byte \in 0..7 /\ processed_bits \in 0..64
    /\ byte_offset \in Nat
    /\ pc = "loop" =>
          /\ rules # <<>> /\ Head(rules).fields # <<>>
          /\ bit_offset + Field.bits <= 8 * ilen
          /\ nbits + processed_bits <= Field.bits
          /\ 8 * byte_offset + bit_in_byte + nbits <= 8 * ilen

RequestType == IsRequest(operands) /\ operands.error \in Errors /\ operands.vl \in 0..2
ArrayType == DOMAIN array = 0..ArrayBytes - 1
PlanType == IsAnswer(attempts) /\ rules \in Seq(Rules)

(* the inductive invariant *)
EncodeInv == RequestType /\ ArrayType /\ PlanType /\ RunType /\ LoopRoom

-----------------------------------------------------------------------------
(* Requests. *)
LEMMA ZeroedIsRequest ==
    IsRequest(Zeroed) /\ Zeroed.error = "NONE" /\ Zeroed.vl = 0
BY DEF IsRequest, Zeroed

(* The client's setters keep a request a request, and its error. *)
LEMMA WithIsRequest ==
    ASSUME NEW o, IsRequest(o), o.error \in Errors, o.vl \in 0..2, NEW s \in Settings
    PROVE  /\ IsRequest(With(o, s))
           /\ With(o, s).error \in Errors /\ With(o, s).vl \in 0..2
           /\ With(o, s).error = o.error
<1>1. DOMAIN With(o, s) = DOMAIN Zeroed
  BY DEF With, IsRequest
<1>2. \A f \in DOMAIN Zeroed : With(o, s)[f] = IF f \in DOMAIN s THEN s[f] ELSE o[f]
  BY DEF With, IsRequest
<1>3. "error" \in DOMAIN Zeroed /\ "vl" \in DOMAIN Zeroed
  BY DEF Zeroed
<1>4. "error" \notin DOMAIN s /\ ("vl" \in DOMAIN s => s.vl \in 0..2)
  BY EncodeConstants DEF EncodeConstants
<1>5. IsRequest(With(o, s))
  BY <1>1, <1>2 DEF IsRequest
<1>. QED  BY <1>2, <1>3, <1>4, <1>5

(* The vector length preconditioning guesses is 0, 1 or 2. *)
LEMMA VectorLengthRange ==
    ASSUME NEW o, o.vl \in 0..2
    PROVE  VectorLength(o) \in 0..2
<1>1. ASSUME NEW a \in 0..2, NEW b \in 0..2, NEW c \in 0..2
      PROVE  Max({a, b, c}) \in 0..2
  <2>1. \E x \in {a, b, c} : \A y \in {a, b, c} : x >= y
    <3>1. CASE a >= b /\ a >= c
      BY <3>1
    <3>2. CASE b >= a /\ b >= c
      BY <3>2
    <3>3. CASE c >= a /\ c >= b
      BY <3>3
    <3>. QED  BY <3>1, <3>2, <3>3
  <2>. QED  BY <2>1 DEF Max
<1>2. MemoryVL(o) \in 0..2
  BY DEF MemoryVL
<1>. QED  BY <1>1, <1>2 DEF VectorLength

(* Preconditioning keeps a request a request, and its error. *)
LEMMA PreconditionIsRequest ==
    ASSUME NEW o, IsRequest(o), o.error \in Errors, o.vl \in 0..2
    PROVE  /\ IsRequest(Precondition(o))
           /\ Precondition(o).error = o.error /\ Precondition(o).vl \in 0..2
<1>. DEFINE r == RipDisplacement(o)
<1>1. /\ DOMAIN o = DOMAIN Zeroed
      /\ {"error", "vl", "has_egpr", "must_use_evex", "disp_width", "disp"} \subseteq DOMAIN o
  BY DEF IsRequest, Zeroed
<1>2. /\ DOMAIN r = DOMAIN Zeroed
      /\ \A f \in DOMAIN Zeroed : r[f] = o[f] \/ (f = "disp_width" /\ r[f] = 32)
                                             \/ (f = "disp" /\ r[f] = "zero")
  <2>1. CASE o.base0 # "RIP"
    BY <1>1, <2>1 DEF RipDisplacement
  <2>2. CASE o.base0 = "RIP" /\ o.disp_width = 0
    <3>1. r = [o EXCEPT !.disp_width = 32, !.disp = "zero"]
      BY <2>2 DEF RipDisplacement
    <3>. HIDE DEF r
    <3>. QED  BY <1>1, <3>1
  <2>3. CASE o.base0 = "RIP" /\ o.disp_width = 8
    <3>1. r = [o EXCEPT !.disp_width = 32]
      BY <2>3 DEF RipDisplacement
    <3>. HIDE DEF r
    <3>. QED  BY <1>1, <3>1
  <2>4. CASE o.base0 = "RIP" /\ o.disp_width # 0 /\ o.disp_width # 8
    <3>1. r = o
      BY <2>4 DEF RipDisplacement
    <3>. HIDE DEF r
    <3>. QED  BY <1>1, <3>1
  <2>. QED  BY <2>1, <2>2, <2>3, <2>4
<1>3. IsRequest(r) /\ r.error = o.error /\ r.vl = o.vl
  <2>1. r.error = o.error /\ r.vl = o.vl
    BY <1>1, <1>2
  <2>2. /\ "disp_width" \in DOMAIN Written /\ 32 \in Written["disp_width"]
        /\ "disp" \in DOMAIN Written /\ "zero" \in Written["disp"]
    BY DEF Written
  <2>. QED  BY <1>2, <2>1, <2>2 DEF IsRequest
<1>4. /\ DOMAIN Precondition(o) = DOMAIN Zeroed
      /\ \A f \in DOMAIN Zeroed \ {"vl", "has_egpr", "must_use_evex"} : Precondition(o)[f] = r[f]
      /\ Precondition(o).vl = VectorLength(o)
      /\ Precondition(o).has_egpr = (r.has_egpr \/ UsesEgpr(o))
      /\ Precondition(o).must_use_evex = (r.must_use_evex \/ o.nf)
  BY <1>1, <1>2 DEF Precondition
<1>5. /\ Precondition(o).has_egpr \in BOOLEAN /\ Precondition(o).must_use_evex \in BOOLEAN
      /\ Precondition(o).vl \in 0..2
  BY <1>4, VectorLengthRange
<1>. DEFINE p == Precondition(o)
<1>. HIDE DEF r, p
<1>6. IsRequest(p)
  <2>1. /\ DOMAIN Written = {"error", "vl", "has_egpr", "must_use_evex", "disp_width", "disp"}
        /\ Written["vl"] = 0..2 /\ Written["has_egpr"] = BOOLEAN
        /\ Written["must_use_evex"] = BOOLEAN
    BY DEF Written
  <2>2. p["vl"] \in 0..2 /\ p["has_egpr"] \in BOOLEAN /\ p["must_use_evex"] \in BOOLEAN
    BY <1>5 DEF p
  <2>3. DOMAIN p = DOMAIN Zeroed
    BY <1>4 DEF p
  <2>4. \A f \in DOMAIN Zeroed \ {"vl", "has_egpr", "must_use_evex"} : p[f] = r[f]
    BY <1>4 DEF p
  <2>. QED  BY <1>3, <2>1, <2>2, <2>3, <2>4 DEF IsRequest
<1>7. p.error = o.error
  BY <1>1, <1>3, <1>4 DEF p
<1>. QED  BY <1>5, <1>6, <1>7 DEF p

-----------------------------------------------------------------------------
(* Rules. *)
LEMMA RuleType ==
    ASSUME NEW rs \in Seq(Rules), rs # <<>>
    PROVE  /\ Head(rs) \in Rules /\ Tail(rs) \in Seq(Rules)
           /\ Head(rs).fields \in Seq(Fields)
           /\ Head(rs).fields # <<>> =>
                 /\ Head(Head(rs).fields).bits \in 1..64
                 /\ Tail(Head(rs).fields) \in Seq(Fields)
<1>1. Head(rs) \in Rules /\ Tail(rs) \in Seq(Rules)
  BY HeadTailProperties
<1>2. Head(rs).fields \in Seq(Fields)
  BY <1>1 DEF Rules
<1>3. ASSUME Head(rs).fields # <<>>
      PROVE  Head(Head(rs).fields) \in Fields /\ Tail(Head(rs).fields) \in Seq(Fields)
  BY <1>2, <1>3, HeadTailProperties
<1>. QED  BY <1>1, <1>2, <1>3, EncodeConstants DEF EncodeConstants

(* The first rule with other fields, before the rest. *)
LEMMA FirstRuleWith ==
    ASSUME NEW rs \in Seq(Rules), rs # <<>>, NEW fs \in Seq(Fields)
    PROVE  LET new == <<[Head(rs) EXCEPT !.fields = fs]>> \o Tail(rs)
           IN  /\ new \in Seq(Rules) /\ new # <<>>
               /\ Head(new).stage = Head(rs).stage
<1>. DEFINE r == [Head(rs) EXCEPT !.fields = fs]
<1>1. Head(rs) \in Rules /\ Tail(rs) \in Seq(Rules)
  BY RuleType
<1>2. r \in Rules /\ r.stage = Head(rs).stage
  BY <1>1 DEF Rules
<1>. HIDE DEF r
<1>3. <<r>> \in Seq(Rules) /\ Len(<<r>>) = 1 /\ <<r>>[1] = r
  BY <1>2
<1>4. /\ <<r>> \o Tail(rs) \in Seq(Rules)
      /\ Len(<<r>> \o Tail(rs)) = 1 + Len(Tail(rs))
      /\ (<<r>> \o Tail(rs))[1] = r
  BY <1>1, <1>3, ConcatProperties
<1>5. <<r>> \o Tail(rs) # <<>> /\ Head(<<r>> \o Tail(rs)) = r
  BY <1>1, <1>4
<1>. QED  BY <1>2, <1>4, <1>5 DEF r

(* What the actions that emit a field leave of the rules. *)
LEMMA NextFieldRules ==
    ASSUME rules \in Seq(Rules), Emitting \/ (rules # <<>> /\ Head(rules).fields # <<>>), NextField
    PROVE  rules' \in Seq(Rules) /\ rules' # <<>> /\ Head(rules').stage = Stage
<1>1. rules # <<>> /\ Tail(Head(rules).fields) \in Seq(Fields)
  BY RuleType DEF Emitting
<1>2. rules' = <<[Head(rules) EXCEPT !.fields = Tail(Head(rules).fields)]>> \o Tail(rules)
  BY DEF NextField
<1>. QED  BY <1>1, <1>2, FirstRuleWith DEF Stage

LEMMA SkipRules ==
    ASSUME NEW rs \in Seq(Rules)
    PROVE  SkipNonterminal(rs) \in Seq(Rules)
<1>1. <<>> \in Seq(Fields)
  OBVIOUS
<1>. QED  BY <1>1, FirstRuleWith DEF SkipNonterminal

(* Head and Tail by index. *)
LEMMA HeadAndTail ==
    ASSUME NEW S, NEW q \in Seq(S), q # <<>>
    PROVE  /\ Head(q) \in S /\ Tail(q) \in Seq(S)
           /\ Head(q) = q[1] /\ 1 \in DOMAIN q
           /\ \A i \in DOMAIN Tail(q) : i + 1 \in DOMAIN q /\ Tail(q)[i] = q[i + 1]
<1>1. Len(q) \in Nat /\ DOMAIN q = 1..Len(q) /\ Len(q) >= 1
  OBVIOUS
<1>2. Head(q) \in S /\ Tail(q) \in Seq(S) /\ Head(q) = q[1]
  BY HeadTailProperties
<1>3. Len(Tail(q)) = Len(q) - 1 /\ \A i \in 1..Len(Tail(q)) : Tail(q)[i] = q[i + 1]
  BY <1>1
<1>4. DOMAIN Tail(q) = 1..Len(Tail(q))
  BY <1>2
<1>. QED  BY <1>1, <1>2, <1>3, <1>4

(* The rest of an answer is an answer, and the rules chosen are rules of   *)
(* which the first is of the prefix stage.                                 *)
LEMMA AnswerType ==
    ASSUME NEW as, IsAnswer(as), as # <<>>
    PROVE  /\ IsAnswer(Tail(as))
           /\ Head(as).rules \in Seq(Rules)
           /\ Head(as).outcome = "bound" =>
                 Head(as).rules # <<>> /\ Head(Head(as).rules).stage = "prefix"
<1>1. as \in Seq(Attempts)
  BY DEF IsAnswer
<1>2. /\ Head(as) \in Attempts /\ Tail(as) \in Seq(Attempts)
      /\ Head(as) = as[1] /\ 1 \in DOMAIN as
      /\ \A i \in DOMAIN Tail(as) : i + 1 \in DOMAIN as /\ Tail(as)[i] = as[i + 1]
  BY <1>1, HeadAndTail
<1>3. IsAnswer(Tail(as))
  BY <1>2 DEF IsAnswer
<1>4. Head(as).rules \in Seq(Rules)
  BY <1>2 DEF Attempts
<1>5. ASSUME Head(as).outcome = "bound"
      PROVE  Head(as).rules # <<>> /\ Head(Head(as).rules).stage = "prefix"
  <2>1. Head(as).rules # <<>> /\ Head(as).rules[1].stage = "prefix"
    BY <1>2, <1>5 DEF IsAnswer
  <2>. QED  BY <1>4, <2>1, HeadAndTail
<1>. QED  BY <1>3, <1>4, <1>5

-----------------------------------------------------------------------------
(* The inductive invariant, action by action. *)
LEMMA InvInit == Init => EncodeInv
<1>. SUFFICES ASSUME Init
              PROVE  EncodeInv
  OBVIOUS
<1>1. RequestType
  BY ZeroedIsRequest DEF Init, RequestType, Errors
<1>2. ArrayType
  BY DEF Init, ArrayType
<1>3. PlanType
  BY DEF Init, PlanType, IsAnswer
<1>4. RunType /\ LoopRoom
  BY DEF Init, RunType, LoopRoom
<1>. QED  BY <1>1, <1>2, <1>3, <1>4 DEF EncodeInv

LEMMA InvStutter ==
    ASSUME EncodeInv, UNCHANGED vars
    PROVE  EncodeInv'
BY DEF EncodeInv, RequestType, ArrayType, PlanType, RunType, LoopRoom, IsRequest, IsAnswer, Field,
       vars, request, cursor, result, history

LEMMA InvClient ==
    ASSUME EncodeInv, BindAnswers, Client
    PROVE  EncodeInv'
<1>1. ASSUME NEW s \in Settings, NewRequest(s) \/ Refill(s)
      PROVE  EncodeInv'
  <2>1. RequestType'
    <3>1. CASE NewRequest(s)
      BY <3>1, WithIsRequest, ZeroedIsRequest DEF NewRequest, RequestType, Errors
    <3>2. CASE Refill(s)
      BY <3>2, WithIsRequest DEF Refill, RequestType, EncodeInv
    <3>. QED  BY <1>1, <3>1, <3>2
  <2>2. /\ pc = "client" /\ pc' = pc /\ UNCHANGED <<ilen, bit_offset, array, cursor, attempts, rules, given>>
    BY <1>1 DEF NewRequest, Refill, Idle, result, history
  <2>. QED  BY <2>1, <2>2 DEF EncodeInv, ArrayType, PlanType, RunType, LoopRoom, IsAnswer, cursor
<1>2. ASSUME NEW n \in ILens, Encode(n)
      PROVE  EncodeInv'
  <2>1. RequestType'
    BY <1>2, PreconditionIsRequest DEF Encode, RequestType, EncodeInv
  <2>2. PlanType'
    BY <1>2, <2>1 DEF Encode, RequestType, PlanType, BindAnswers
  <2>3. n \in Nat
    BY EncodeConstants DEF EncodeConstants
  <2>4. RunType' /\ LoopRoom' /\ ArrayType'
    BY <1>2, <2>3 DEF Encode, EncodeInv, RunType, LoopRoom, ArrayType, cursor
  <2>. QED  BY <2>1, <2>2, <2>4 DEF EncodeInv
<1>3. ASSUME NEW n \in ILens, EncodeNop(n)
      PROVE  EncodeInv'
  <2>1. ArrayType'
    BY <1>3 DEF EncodeNop, EncodeInv, ArrayType
  <2>2. /\ pc = "client" /\ pc' = pc
        /\ UNCHANGED <<operands, ilen, bit_offset, cursor, attempts, rules>>
    BY <1>3 DEF EncodeNop, Idle, request
  <2>. QED  BY <2>1, <2>2 DEF EncodeInv, RequestType, PlanType, RunType, LoopRoom, IsRequest, IsAnswer, cursor
<1>4. ASSUME NEW n \in ILens, NEW null \in BOOLEAN, EncodeRefuses(n, null)
      PROVE  EncodeInv'
  <2>1. /\ pc = "client" /\ pc' = pc
        /\ UNCHANGED <<operands, ilen, bit_offset, array, cursor, attempts, rules>>
    BY <1>4 DEF EncodeRefuses, Idle, request
  <2>. QED  BY <2>1 DEF EncodeInv, RequestType, ArrayType, PlanType, RunType, LoopRoom, IsRequest, IsAnswer, cursor
<1>. QED  BY <1>1, <1>2, <1>3, <1>4 DEF Client

(* A call that fails hands back the request as it is. *)
LEMMA InvFail ==
    ASSUME EncodeInv, Fail
    PROVE  EncodeInv'
BY DEF Fail, EncodeInv, RequestType, ArrayType, PlanType, RunType, LoopRoom, IsRequest, IsAnswer,
       request, cursor

(* The error operand is set. *)
LEMMA SetErrorIsRequest ==
    ASSUME RequestType, NEW e \in Errors, SetError(e)
    PROVE  RequestType' /\ operands'.error = e
<1>1. "error" \in DOMAIN Zeroed /\ "vl" \in DOMAIN Zeroed
  BY DEF Zeroed
<1>2. /\ DOMAIN operands' = DOMAIN operands
      /\ operands'.error = e
      /\ \A f \in DOMAIN Zeroed \ {"error"} : operands'[f] = operands[f]
  BY <1>1 DEF SetError, RequestType, IsRequest
<1>3. "error" \in DOMAIN Written /\ Written["error"] = Errors
  BY DEF Written
<1>4. IsRequest(operands')
  BY <1>2, <1>3 DEF RequestType, IsRequest
<1>. QED  BY <1>1, <1>2, <1>4 DEF RequestType

LEMMA InvBind ==
    ASSUME EncodeInv, Try \/ Choose \/ BindFails
    PROVE  EncodeInv'
<1>1. CASE Try
  <2>1. RequestType'
    <3>1. CASE Head(attempts).error
      BY <1>1, <3>1, SetErrorIsRequest DEF Try, EncodeInv, Errors
    <3>2. CASE ~Head(attempts).error
      BY <1>1, <3>2 DEF Try, EncodeInv, RequestType, IsRequest
    <3>. QED  BY <3>1, <3>2
  <2>2. PlanType'
    BY <1>1, AnswerType DEF Try, EncodeInv, PlanType
  <2>3. ArrayType' /\ RunType' /\ LoopRoom'
    BY <1>1 DEF Try, EncodeInv, ArrayType, RunType, LoopRoom, cursor, history
  <2>. QED  BY <2>1, <2>2, <2>3 DEF EncodeInv
<1>2. CASE Choose
  <2>1. PlanType'
    BY <1>2, AnswerType DEF Choose, EncodeInv, PlanType, IsAnswer
  <2>2. RequestType' /\ ArrayType' /\ RunType' /\ LoopRoom'
    BY <1>2 DEF Choose, EncodeInv, RequestType, IsRequest, ArrayType, RunType, LoopRoom, request, cursor
  <2>. QED  BY <2>1, <2>2 DEF EncodeInv
<1>3. CASE BindFails
  BY <1>3, InvFail DEF BindFails
<1>. QED  BY <1>1, <1>2, <1>3

(* Bits and bytes. *)
LEMMA BytesOfBits ==
    ASSUME NEW n \in Nat
    PROVE  /\ n % 8 \in 0..7 /\ n \div 8 \in Nat
           /\ 8 * (n \div 8) + (n % 8) = n
OBVIOUS

LEMMA RoomForField ==
    ASSUME NEW b \in Nat, NEW w \in 1..64, NEW n \in Nat, ~(b + w > 8 * n)
    PROVE  b + w <= 8 * n /\ b + w \in 0..8 * n
OBVIOUS

(* What is known of the field that is emitted. *)
LEMMA FieldType ==
    ASSUME EncodeInv, Emitting \/ pc = "loop"
    PROVE  /\ rules \in Seq(Rules) /\ rules # <<>> /\ Head(rules).fields # <<>>
           /\ Field.bits \in 1..64
           /\ ilen \in Nat /\ bit_offset \in Nat /\ bit_offset <= 8 * ilen
<1>1. rules # <<>> /\ Head(rules).fields # <<>>
  BY DEF EncodeInv, LoopRoom, Emitting
<1>2. rules \in Seq(Rules) /\ ilen \in Nat /\ bit_offset \in 0..8 * ilen
  BY DEF EncodeInv, PlanType, RunType
<1>. QED  BY <1>1, <1>2, RuleType DEF Field

LEMMA InvEmit ==
    ASSUME EncodeInv, EmitTooShort \/ EmitBytes \/ EmitBits
    PROVE  EncodeInv'
<1>1. CASE EmitTooShort
  <2>1. RequestType'
    BY <1>1, SetErrorIsRequest DEF EmitTooShort, EncodeInv, Errors
  <2>2. PlanType'
    BY <1>1, NextFieldRules DEF EmitTooShort, EncodeInv, PlanType, IsAnswer
  <2>3. ArrayType' /\ RunType' /\ LoopRoom'
    BY <1>1 DEF EmitTooShort, Emitting, EncodeInv, ArrayType, RunType, LoopRoom, cursor, history
  <2>. QED  BY <2>1, <2>2, <2>3 DEF EncodeInv
<1>2. CASE EmitBytes
  <2>1. PlanType'
    BY <1>2, NextFieldRules DEF EmitBytes, EncodeInv, PlanType, IsAnswer
  <2>2. RequestType' /\ ArrayType'
    BY <1>2 DEF EmitBytes, EncodeInv, RequestType, IsRequest, ArrayType
  <2>3. ~TooShort(Field) /\ Field.bits \in 1..64 /\ ilen \in Nat /\ bit_offset \in Nat
    BY <1>2, FieldType DEF EmitBytes
  <2>4. /\ pc = "emit" /\ pc' = pc /\ given' = given
        /\ UNCHANGED <<ilen, cursor>> /\ bit_offset' = bit_offset + Field.bits
    BY <1>2 DEF EmitBytes, Emitting, history
  <2>5. RunType'
    <3>1. bit_offset' \in 0..8 * ilen
      BY <2>3, <2>4, RoomForField DEF TooShort
    <3>. QED  BY <2>4, <3>1 DEF EncodeInv, RunType
  <2>6. LoopRoom'
    BY <2>4 DEF EncodeInv, LoopRoom, cursor
  <2>. QED  BY <2>1, <2>2, <2>5, <2>6 DEF EncodeInv
<1>3. CASE EmitBits
  <2>1. RequestType' /\ ArrayType' /\ PlanType' /\ RunType'
    BY <1>3 DEF EmitBits, Emitting, EncodeInv, RequestType, IsRequest, ArrayType, PlanType, IsAnswer,
                RunType, request, history
  <2>2. Emitting /\ ~TooShort(Field)
    BY <1>3 DEF EmitBits
  <2>3. Field.bits \in 1..64 /\ ilen \in Nat /\ bit_offset \in Nat
    BY <2>2, FieldType
  <2>4. bit_offset + Field.bits <= 8 * ilen
    BY <2>2, <2>3, RoomForField DEF TooShort
  <2>5. /\ bit_offset % 8 \in 0..7 /\ bit_offset \div 8 \in Nat
        /\ 8 * (bit_offset \div 8) + (bit_offset % 8) = bit_offset
    BY <2>3, BytesOfBits
  <2>6. /\ nbits' = Field.bits /\ byte_offset' = bit_offset \div 8
        /\ bit_in_byte' = bit_offset % 8 /\ processed_bits' = 0
        /\ UNCHANGED <<rules, bit_offset, ilen>>
    BY <1>3 DEF EmitBits, request
  <2>7. Field' = Field
    BY <2>6 DEF Field
  <2>8. /\ nbits' \in 0..64 /\ bit_in_byte' \in 0..7 /\ processed_bits' \in 0..64
        /\ byte_offset' \in Nat /\ nbits' + processed_bits' <= Field.bits
        /\ 8 * byte_offset' + bit_in_byte' + nbits' <= 8 * ilen'
    <3>1. /\ nbits' \in 0..64 /\ bit_in_byte' \in 0..7 /\ processed_bits' \in 0..64
          /\ byte_offset' \in Nat
      BY <2>3, <2>5, <2>6
    <3>2. nbits' + processed_bits' <= Field.bits
      BY <2>3, <2>6
    <3>3. 8 * byte_offset' + bit_in_byte' = bit_offset
      BY <2>5, <2>6
    <3>4. 8 * byte_offset' + bit_in_byte' + nbits' <= 8 * ilen'
      BY <2>3, <2>4, <2>6, <3>1, <3>3
    <3>. QED  BY <3>1, <3>2, <3>4
  <2>9. LoopRoom'
    BY <2>2, <2>4, <2>6, <2>7, <2>8, FieldType DEF LoopRoom
  <2>. QED  BY <2>1, <2>9 DEF EncodeInv
<1>. QED  BY <1>1, <1>2, <1>3

(* One byte of a field: it lies within the array, and so does what is left. *)
LEMMA ChunkRoom ==
    ASSUME EncodeInv, EmitChunk
    PROVE  /\ byte_offset < ilen
           /\ nbits' \in 0..64 /\ processed_bits' \in 0..64
           /\ nbits' + processed_bits' <= Field.bits
           /\ 8 * byte_offset' + nbits' <= 8 * ilen
<1>1. /\ nbits \in 1..64 /\ bit_in_byte \in 0..7 /\ processed_bits \in 0..64
      /\ byte_offset \in Nat /\ ilen \in Nat
      /\ nbits + processed_bits <= Field.bits /\ Field.bits \in 1..64
      /\ 8 * byte_offset + bit_in_byte + nbits <= 8 * ilen
  BY FieldType DEF EncodeInv, LoopRoom, EmitChunk
<1>2. CASE 8 - bit_in_byte >= nbits
  BY <1>1, <1>2 DEF EmitChunk, ChunkBits
<1>3. CASE ~(8 - bit_in_byte >= nbits)
  BY <1>1, <1>3 DEF EmitChunk, ChunkBits
<1>. QED  BY <1>2, <1>3

LEMMA InvLoop ==
    ASSUME EncodeInv, EmitChunk \/ EmitBitsEnd
    PROVE  EncodeInv'
<1>1. CASE EmitChunk
  <2>1. RequestType' /\ ArrayType' /\ PlanType' /\ RunType'
    BY <1>1 DEF EmitChunk, EncodeInv, RequestType, IsRequest, ArrayType, PlanType, IsAnswer,
                RunType, request, history
  <2>2. /\ bit_in_byte' = 0 /\ byte_offset' \in Nat
        /\ pc' = "loop" /\ UNCHANGED <<rules, bit_offset, ilen>>
        /\ bit_offset + Field.bits <= 8 * ilen
    BY <1>1 DEF EmitChunk, EncodeInv, LoopRoom, request
  <2>3. Field' = Field /\ rules # <<>> /\ Head(rules).fields # <<>>
    BY <1>1, <2>2, FieldType DEF Field, EmitChunk
  <2>4. /\ nbits' \in 0..64 /\ processed_bits' \in 0..64
        /\ nbits' + processed_bits' <= Field.bits
        /\ 8 * byte_offset' + nbits' <= 8 * ilen
    BY <1>1, ChunkRoom
  <2>5. 8 * byte_offset' + bit_in_byte' + nbits' <= 8 * ilen'
    BY <2>2, <2>4
  <2>6. LoopRoom'
    BY <2>2, <2>3, <2>4, <2>5 DEF LoopRoom
  <2>. QED  BY <2>1, <2>6 DEF EncodeInv
<1>2. CASE EmitBitsEnd
  <2>1. pc = "loop" /\ NextField
    BY <1>2 DEF EmitBitsEnd
  <2>2. PlanType'
    BY <1>2, <2>1, FieldType, NextFieldRules DEF EmitBitsEnd, EncodeInv, PlanType, IsAnswer
  <2>3. RequestType' /\ ArrayType'
    BY <1>2 DEF EmitBitsEnd, EncodeInv, RequestType, IsRequest, ArrayType
  <2>4. /\ bit_offset + Field.bits <= 8 * ilen
        /\ Field.bits \in 1..64 /\ ilen \in Nat /\ bit_offset \in Nat
    BY <2>1, FieldType DEF EncodeInv, LoopRoom
  <2>5. /\ pc' = "emit" /\ given' = given /\ ilen' = ilen
        /\ bit_offset' = bit_offset + Field.bits
    BY <1>2 DEF EmitBitsEnd, history
  <2>6. RunType'
    <3>1. bit_offset' \in 0..8 * ilen
      BY <2>4, <2>5
    <3>. QED  BY <2>1, <2>5, <3>1 DEF EncodeInv, RunType
  <2>7. LoopRoom'
    BY <1>2, <2>5 DEF EmitBitsEnd, LoopRoom
  <2>. QED  BY <2>2, <2>3, <2>6, <2>7 DEF EncodeInv
<1>. QED  BY <1>1, <1>2

LEMMA InvRule ==
    ASSUME EncodeInv, RuleDone \/ RuleFails \/ EncodeReturns
    PROVE  EncodeInv'
<1>1. CASE RuleDone
  <2>1. PlanType'
    <3>1. Tail(rules) \in Seq(Rules)
      BY <1>1, RuleType DEF RuleDone, RuleEnds, EncodeInv, PlanType
    <3>2. rules' \in Seq(Rules)
      BY <1>1, <3>1, SkipRules DEF RuleDone
    <3>. QED  BY <1>1, <3>2 DEF RuleDone, EncodeInv, PlanType, IsAnswer
  <2>2. RequestType' /\ ArrayType' /\ RunType' /\ LoopRoom'
    BY <1>1 DEF RuleDone, RuleEnds, EncodeInv, RequestType, IsRequest, ArrayType, RunType, LoopRoom,
                request, cursor, history
  <2>. QED  BY <2>1, <2>2 DEF EncodeInv
<1>2. CASE RuleFails
  BY <1>2, InvFail DEF RuleFails
<1>3. CASE EncodeReturns
  BY <1>3 DEF EncodeReturns, EncodeInv, RequestType, IsRequest, ArrayType, PlanType, IsAnswer,
              RunType, LoopRoom, request, cursor
<1>. QED  BY <1>1, <1>2, <1>3

LEMMA InvNext ==
    ASSUME BindAnswers
    PROVE  EncodeInv /\ [Next]_vars => EncodeInv'
<1>. SUFFICES ASSUME EncodeInv, [Next]_vars
              PROVE  EncodeInv'
  OBVIOUS
<1>1. CASE Client
  BY <1>1, InvClient
<1>2. CASE Step
  BY <1>2, InvBind, InvEmit, InvLoop, InvRule DEF Step
<1>3. CASE UNCHANGED vars
  BY <1>3, InvStutter
<1>. QED  BY <1>1, <1>2, <1>3 DEF Next

-----------------------------------------------------------------------------
(* The inductive invariant holds in every reachable state: types, and room *)
(* in the array for what is left of the field that is being emitted.       *)
THEOREM EncodeInvariant ==
    ASSUME BindAnswers
    PROVE  Spec => []EncodeInv
<1>1. Init => EncodeInv
  BY InvInit
<1>2. EncodeInv /\ [Next]_vars => EncodeInv'
  BY InvNext
<1>. QED  BY <1>1, <1>2, PTL DEF Spec

(* The type invariant, for whatever the generated functions choose. *)
THEOREM EncodeTypeCorrect ==
    ASSUME BindAnswers
    PROVE  Spec => []TypeOKEncode
<1>1. EncodeInv => TypeOKEncode
  <2>. SUFFICES ASSUME EncodeInv
                PROVE  TypeOKEncode
    OBVIOUS
  <2>1. ASSUME pc = "loop"
        PROVE  byte_offset <= ilen
    <3>1. /\ byte_offset \in Nat /\ bit_in_byte \in 0..7 /\ nbits \in 0..64
          /\ 8 * byte_offset + bit_in_byte + nbits <= 8 * ilen
      BY <2>1 DEF EncodeInv, LoopRoom
    <3>2. ilen \in Nat
      BY DEF EncodeInv, RunType
    <3>. QED  BY <3>1, <3>2
  <2>. QED  BY <2>1 DEF EncodeInv, RequestType, ArrayType, PlanType, RunType, LoopRoom, TypeOKEncode
<1>. QED  BY <1>1, EncodeInvariant, PTL

-----------------------------------------------------------------------------
(* Nothing is written beyond the array: the stores of whole bytes and the  *)
(* loop stay below the length given, as the nops do.                       *)
LEMMA WithinStep ==
    ASSUME EncodeInv, Next, NEW i \in DOMAIN array, array'[i] # array[i]
    PROVE  i < given'
<1>0. DOMAIN array = 0..ArrayBytes - 1 /\ i \in Int
  BY EncodeConstants DEF EncodeInv, ArrayType, EncodeConstants
<1>1. CASE \E n \in ILens : EncodeNop(n)
  BY <1>1 DEF EncodeNop
<1>2. CASE EmitBytes
  <2>1. /\ ~TooShort(Field) /\ Field.bits \in 1..64 /\ ilen \in Nat /\ bit_offset \in Nat
    BY <1>2, FieldType DEF EmitBytes
  <2>2. given' = ilen
    BY <1>2 DEF EmitBytes, Emitting, EncodeInv, RunType, history
  <2>3. i \in bit_offset \div 8 .. (bit_offset \div 8) + (Field.bits \div 8) - 1
    BY <1>2 DEF EmitBytes
  <2>4. bit_offset + Field.bits <= 8 * ilen
    BY <2>1, RoomForField DEF TooShort
  <2>5. /\ bit_offset \div 8 \in Nat /\ 8 * (bit_offset \div 8) <= bit_offset
        /\ Field.bits \div 8 \in Nat /\ 8 * (Field.bits \div 8) <= Field.bits
    BY <2>1, BytesOfBits
  <2>6. (bit_offset \div 8) + (Field.bits \div 8) <= ilen
    BY <2>1, <2>4, <2>5
  <2>. QED  BY <2>1, <2>2, <2>3, <2>5, <2>6
<1>3. CASE EmitChunk
  <2>1. i = byte_offset /\ given' = ilen
    BY <1>3 DEF EmitChunk, EncodeInv, RunType, history
  <2>. QED  BY <1>3, <2>1, ChunkRoom
<1>4. CASE ~(\E n \in ILens : EncodeNop(n)) /\ ~EmitBytes /\ ~EmitChunk
  <2>1. array' = array
    BY <1>4 DEF Next, Client, Step, NewRequest, Refill, Encode, EncodeRefuses, Try, Choose, BindFails,
                Fail, EmitTooShort, EmitBits, EmitBitsEnd, RuleDone, RuleFails, EncodeReturns, request
  <2>. QED  BY <2>1
<1>. QED  BY <1>1, <1>2, <1>3, <1>4

THEOREM NeverWritesPastTheArray ==
    ASSUME BindAnswers
    PROVE  Spec => WithinArray
<1>1. EncodeInv /\ [Next]_vars => [\A i \in DOMAIN array : array'[i] # array[i] => i < given']_vars
  BY WithinStep
<1>. QED  BY <1>1, EncodeInvariant, PTL DEF Spec, WithinArray

-----------------------------------------------------------------------------
(* A call that starts with an error never gets past the prefixes: the      *)
(* error stays, and the first rule, a prefix, is the last one looked at.   *)
StaleInv ==
    /\ opened.error # "NONE" /\ pc # "client" => operands.error # "NONE"
    /\ opened.error # "NONE" /\ pc \in {"emit", "loop"} => rules # <<>> /\ Stage = "prefix"

LEMMA StaleStep ==
    ASSUME EncodeInv, StaleInv, StaleErrorFails, Next
    PROVE  StaleInv' /\ StaleErrorFails'
<1>1. CASE Client
  <2>1. ASSUME NEW s \in Settings, NewRequest(s) \/ Refill(s)
        PROVE  StaleInv' /\ StaleErrorFails'
    BY <2>1 DEF NewRequest, Refill, Idle, StaleInv, StaleErrorFails, history, result
  <2>2. ASSUME NEW n \in ILens, Encode(n)
        PROVE  StaleInv' /\ StaleErrorFails'
    <3>1. operands'.error = opened'.error /\ pc' = "bind"
      BY <2>2, PreconditionIsRequest DEF Encode, EncodeInv, RequestType
    <3>. QED  BY <3>1 DEF StaleInv, StaleErrorFails
  <2>3. ASSUME NEW n \in ILens, EncodeNop(n)
        PROVE  StaleInv' /\ StaleErrorFails'
    BY <2>3, ZeroedIsRequest DEF EncodeNop, StaleInv, StaleErrorFails
  <2>4. ASSUME NEW n \in ILens, NEW null \in BOOLEAN, EncodeRefuses(n, null)
        PROVE  StaleInv' /\ StaleErrorFails'
    BY <2>4 DEF EncodeRefuses, Idle, StaleInv, StaleErrorFails
  <2>. QED  BY <1>1, <2>1, <2>2, <2>3, <2>4 DEF Client
<1>2. CASE Try
  <2>1. CASE Head(attempts).error
    <3>1. operands'.error = "GENERAL_ERROR"
      BY <1>2, <2>1, SetErrorIsRequest DEF Try, EncodeInv, Errors
    <3>. QED  BY <1>2, <3>1 DEF Try, StaleInv, StaleErrorFails
  <2>2. CASE ~Head(attempts).error
    BY <1>2, <2>2 DEF Try, StaleInv, StaleErrorFails, history
  <2>. QED  BY <2>1, <2>2
<1>3. CASE Choose
  <2>1. rules' # <<>> /\ Head(rules').stage = "prefix"
    BY <1>3, AnswerType DEF Choose, EncodeInv, PlanType
  <2>. QED  BY <1>3, <2>1 DEF Choose, StaleInv, StaleErrorFails, Stage, request
<1>4. CASE BindFails \/ RuleFails
  BY <1>4 DEF BindFails, RuleFails, Fail, StaleInv, StaleErrorFails, history
<1>5. CASE EmitTooShort
  <2>1. operands'.error = "BUFFER_TOO_SHORT"
    BY <1>5, SetErrorIsRequest DEF EmitTooShort, EncodeInv, Errors
  <2>2. rules' # <<>> /\ Head(rules').stage = Stage
    BY <1>5, NextFieldRules DEF EmitTooShort, EncodeInv, PlanType
  <2>. QED  BY <1>5, <2>1, <2>2 DEF EmitTooShort, Emitting, StaleInv, StaleErrorFails, Stage, history
<1>6. CASE EmitBytes
  <2>1. rules' # <<>> /\ Head(rules').stage = Stage
    BY <1>6, NextFieldRules DEF EmitBytes, EncodeInv, PlanType
  <2>. QED  BY <1>6, <2>1 DEF EmitBytes, Emitting, StaleInv, StaleErrorFails, Stage, history
<1>7. CASE EmitBits \/ EmitChunk
  BY <1>7 DEF EmitBits, EmitChunk, Emitting, StaleInv, StaleErrorFails, Stage, request, history
<1>8. CASE EmitBitsEnd
  <2>1. rules' # <<>> /\ Head(rules').stage = Stage
    BY <1>8, FieldType, NextFieldRules DEF EmitBitsEnd, EncodeInv, PlanType
  <2>. QED  BY <1>8, <2>1 DEF EmitBitsEnd, StaleInv, StaleErrorFails, Stage, history
<1>9. CASE RuleDone
  <2>1. opened.error = "NONE"
    BY <1>9 DEF RuleDone, RuleEnds, Checked, StaleInv
  <2>. QED  BY <1>9, <2>1 DEF RuleDone, StaleInv, StaleErrorFails, history
<1>10. CASE EncodeReturns
  <2>1. opened.error = "NONE"
    BY <1>10 DEF EncodeReturns, StaleInv
  <2>. QED  BY <1>10, <2>1 DEF EncodeReturns, StaleInv, StaleErrorFails, history
<1>. QED  BY <1>1, <1>2, <1>3, <1>4, <1>5, <1>6, <1>7, <1>8, <1>9, <1>10 DEF Next, Step

(* A request left with an error is never encoded with success, in an array *)
(* of any length, until it is zeroed.                                      *)
THEOREM StaleErrorIsNeverSuccess ==
    ASSUME BindAnswers
    PROVE  Spec => []StaleErrorFails
<1>1. Init => StaleInv /\ StaleErrorFails
  BY ZeroedIsRequest DEF Init, StaleInv, StaleErrorFails
<1>2. EncodeInv /\ StaleInv /\ StaleErrorFails /\ [Next]_vars => StaleInv' /\ StaleErrorFails'
  <2>1. CASE Next
    BY <2>1, StaleStep
  <2>2. CASE UNCHANGED vars
    BY <2>2 DEF StaleInv, StaleErrorFails, Stage, vars, request, result, history
  <2>. QED  BY <2>1, <2>2
<1>. QED  BY <1>1, <1>2, EncodeInvariant, PTL DEF Spec

-----------------------------------------------------------------------------
(* The refinement.  How many bits there are, those of the field that the   *)
(* loop is at included.                                                    *)
Position == IF pc = "loop" THEN bit_offset + Field.bits - nbits ELSE bit_offset

(* The array holds what the call needs. *)
InArray == ilen \in 0..ArrayBytes

(* Where the loop is, while it has bits left. *)
LoopAt ==
    pc = "loop" /\ nbits > 0 =>
       /\ 8 * byte_offset + bit_in_byte = bit_offset + (Field.bits - nbits)
       /\ processed_bits = Field.bits - nbits

(* Behind the last bit emitted the byte it is in is clear: the loop puts   *)
(* the next bits into it by an OR.                                         *)
ClearBehind ==
    pc # "client" =>
       \A i \in Nat, c \in 0..7 :
          8 * i < Position /\ Position <= 8 * i + c => array[i][7 - c] = <<"zero", 0>>

(* The bits of the field that the loop has emitted, from the highest down. *)
LoopBits ==
    pc = "loop" =>
       \A i \in Nat, c \in 0..7 :
          bit_offset <= 8 * i + c /\ 8 * i + c < Position =>
             array[i][7 - c] = <<Field.val, (bit_offset + Field.bits) - 1 - (8 * i + c)>>

(* Fields of several bytes are not the loop's. *)
LoopField == pc = "loop" => Field.bits % 8 # 0 \/ Field.bits = 8

BitsInv == InArray /\ LoopAt /\ ClearBehind /\ LoopBits /\ LoopField

(* Numbers of the state, for the arithmetic. *)
LEMMA Numbers ==
    ASSUME EncodeInv, InArray
    PROVE  /\ ArrayBytes \in Nat /\ ilen \in 0..ArrayBytes /\ bit_offset \in Nat
           /\ bit_offset <= 8 * ilen /\ nbits \in 0..64
           /\ DOMAIN array = 0..ArrayBytes - 1
           /\ pc = "loop" => /\ Field.bits \in 1..64 /\ nbits <= Field.bits
                             /\ bit_offset + Field.bits <= 8 * ilen
                             /\ Position \in Nat
<1>1. ArrayBytes \in Nat /\ ilen \in 0..ArrayBytes
  BY EncodeConstants DEF EncodeConstants, InArray
<1>2. bit_offset \in 0..8 * ilen
  BY DEF EncodeInv, RunType
<1>3. nbits \in 0..64
  BY DEF EncodeInv, LoopRoom
<1>4. DOMAIN array = 0..ArrayBytes - 1
  BY DEF EncodeInv, ArrayType
<1>5. bit_offset \in Nat /\ bit_offset <= 8 * ilen
  BY <1>1, <1>2
<1>6. ASSUME pc = "loop"
      PROVE  /\ Field.bits \in 1..64 /\ nbits <= Field.bits
             /\ bit_offset + Field.bits <= 8 * ilen /\ Position \in Nat
  <2>. DEFINE w == Field.bits
  <2>1. w \in 1..64
    BY <1>6, FieldType
  <2>2. nbits + processed_bits <= w /\ processed_bits \in 0..64
    BY <1>6 DEF EncodeInv, LoopRoom
  <2>3. bit_offset + w <= 8 * ilen
    BY <1>6 DEF EncodeInv, LoopRoom
  <2>4. Position = bit_offset + (w - nbits)
    BY <1>6 DEF Position
  <2>. HIDE DEF w
  <2>5. nbits <= w
    BY <1>3, <2>1, <2>2
  <2>6. Position \in Nat
    BY <1>3, <1>5, <2>1, <2>4, <2>5
  <2>. QED  BY <2>1, <2>3, <2>5, <2>6 DEF w
<1>. QED  BY <1>1, <1>3, <1>4, <1>5, <1>6

(* One byte of the loop: which bits the chunk takes, and what the byte     *)
(* holds afterwards.                                                       *)
LEMMA Chunk ==
    ASSUME EncodeInv, BitsInv, EmitChunk
    PROVE  /\ ChunkBits \in 1..8 /\ bit_in_byte + ChunkBits <= 8 /\ ChunkBits <= nbits
           /\ nbits' = nbits - ChunkBits
           /\ nbits' > 0 => bit_in_byte + ChunkBits = 8
           /\ nbits' > 0 => processed_bits' = processed_bits + ChunkBits
           /\ ChunkShift = nbits - ChunkBits
<1>1. /\ nbits \in 1..64 /\ bit_in_byte \in 0..7 /\ Field.bits \in 1..64
      /\ nbits <= Field.bits /\ processed_bits = Field.bits - nbits
  BY Numbers DEF EmitChunk, BitsInv, LoopAt, EncodeInv, LoopRoom
<1>2. CASE 8 - bit_in_byte >= nbits
  BY <1>1, <1>2 DEF EmitChunk, ChunkBits, ChunkShift
<1>3. CASE ~(8 - bit_in_byte >= nbits)
  BY <1>1, <1>3 DEF EmitChunk, ChunkBits, ChunkShift
<1>. QED  BY <1>2, <1>3

LEMMA ChunkByte ==
    ASSUME EncodeInv, BitsInv, EmitChunk, NEW c \in 0..7
    PROVE  /\ bit_in_byte <= c /\ c < bit_in_byte + ChunkBits =>
                 array'[byte_offset][7 - c]
                    = <<Field.val, nbits - 1 - (c - bit_in_byte)>>
           /\ c < bit_in_byte => array'[byte_offset][7 - c] = array[byte_offset][7 - c]
           /\ bit_in_byte + ChunkBits <= c => array'[byte_offset][7 - c] = <<"zero", 0>>
<1>. DEFINE old == array[byte_offset]
            base == IF bit_in_byte = 0 THEN ZeroByte ELSE old
            shift == 8 - bit_in_byte - ChunkBits
            b == 7 - c
<1>1. /\ ChunkBits \in 1..8 /\ bit_in_byte \in 0..7 /\ bit_in_byte + ChunkBits <= 8
      /\ ChunkShift = nbits - ChunkBits /\ nbits \in Nat
  <2>1. nbits \in 0..64 /\ bit_in_byte \in 0..7
    BY DEF EncodeInv, LoopRoom
  <2>. QED  BY <2>1, Chunk
<1>2. byte_offset \in DOMAIN array /\ byte_offset \in Nat
  BY ChunkRoom, Numbers DEF BitsInv, EncodeInv, LoopRoom
<1>3. array'[byte_offset] = EmittedByte(old)
  BY <1>2 DEF EmitChunk
<1>4. b \in 0..7
  OBVIOUS
<1>5. EmittedByte(old)[b] = IF b \in shift .. shift + ChunkBits - 1
                              THEN Or(base[b], <<Field.val, ChunkShift + b - shift>>) ELSE base[b]
  BY <1>4 DEF EmittedByte
<1>6. bit_in_byte <= c => base[b] = <<"zero", 0>>
  <2>1. CASE bit_in_byte = 0
    BY <1>4, <2>1 DEF ZeroByte
  <2>2. CASE bit_in_byte # 0
    <3>1. /\ pc = "loop" /\ Position = 8 * byte_offset + bit_in_byte
      BY Numbers DEF EmitChunk, BitsInv, LoopAt, Position
    <3>2. ASSUME bit_in_byte <= c
          PROVE  old[7 - c] = <<"zero", 0>>
      <4>1. 8 * byte_offset < Position /\ Position <= 8 * byte_offset + c
        BY <1>1, <1>2, <2>2, <3>1, <3>2
      <4>. QED  BY <1>2, <3>1, <4>1 DEF BitsInv, ClearBehind
    <3>. QED  BY <2>2, <3>2
  <2>. QED  BY <2>1, <2>2
<1>. HIDE DEF base, old
<1>7. ASSUME bit_in_byte <= c, c < bit_in_byte + ChunkBits
      PROVE  array'[byte_offset][b] = <<Field.val, nbits - 1 - (c - bit_in_byte)>>
  <2>1. b \in shift .. shift + ChunkBits - 1
    BY <1>1, <1>7
  <2>2. ChunkShift + b - shift = nbits - 1 - (c - bit_in_byte)
    BY <1>1
  <2>3. Or(base[b], <<Field.val, ChunkShift + b - shift>>)
          = <<Field.val, nbits - 1 - (c - bit_in_byte)>>
    BY <1>6, <1>7, <2>2 DEF Or
  <2>. QED  BY <1>3, <1>5, <2>1, <2>3
<1>8. ASSUME c < bit_in_byte
      PROVE  array'[byte_offset][b] = array[byte_offset][b]
  <2>1. b \notin shift .. shift + ChunkBits - 1 /\ bit_in_byte # 0
    BY <1>1, <1>8
  <2>. QED  BY <1>3, <1>5, <2>1 DEF base, old
<1>9. ASSUME bit_in_byte + ChunkBits <= c
      PROVE  array'[byte_offset][b] = <<"zero", 0>>
  <2>1. b \notin shift .. shift + ChunkBits - 1 /\ bit_in_byte <= c
    BY <1>1, <1>9
  <2>. QED  BY <1>3, <1>5, <1>6, <2>1
<1>. QED  BY <1>7, <1>8, <1>9

(* No bit of another byte changes. *)
LEMMA OtherBytes ==
    ASSUME EncodeInv, InArray, EmitChunk, NEW i \in Nat, i # byte_offset, i < ilen
    PROVE  array'[i] = array[i]
<1>1. i \in DOMAIN array
  BY Numbers
<1>. QED  BY <1>1 DEF EmitChunk

LEMMA BitsChunk ==
    ASSUME EncodeInv, BitsInv, EmitChunk
    PROVE  BitsInv'
<1>. DEFINE P == 8 * byte_offset + bit_in_byte
<1>1. /\ pc = "loop" /\ pc' = "loop" /\ nbits \in 1..64 /\ bit_in_byte \in 0..7
      /\ byte_offset \in Nat /\ byte_offset < ilen /\ ilen \in Nat
      /\ UNCHANGED <<rules, bit_offset, ilen>> /\ byte_offset' = byte_offset + 1 /\ bit_in_byte' = 0
  BY ChunkRoom, Numbers DEF EmitChunk, EncodeInv, LoopRoom, BitsInv, InArray, request
<1>2. /\ ChunkBits \in 1..8 /\ bit_in_byte + ChunkBits <= 8 /\ ChunkBits <= nbits
      /\ nbits' = nbits - ChunkBits
      /\ nbits' > 0 => bit_in_byte + ChunkBits = 8
      /\ nbits' > 0 => processed_bits' = processed_bits + ChunkBits
  BY Chunk
<1>3. /\ Field' = Field /\ Field.bits \in 1..64 /\ nbits <= Field.bits /\ bit_offset \in Nat
      /\ P = bit_offset + (Field.bits - nbits) /\ processed_bits = Field.bits - nbits
      /\ bit_offset + Field.bits <= 8 * ilen
  BY <1>1, Numbers DEF Field, BitsInv, LoopAt
<1>4. Position = P /\ Position' = P + ChunkBits
  <2>. DEFINE w == Field.bits
  <2>1. Position = bit_offset + (w - nbits) /\ Position' = bit_offset + (w - nbits')
    BY <1>1, <1>3 DEF Position
  <2>2. w \in 1..64 /\ P = bit_offset + (w - nbits)
    BY <1>3
  <2>3. bit_offset \in Nat /\ nbits \in 1..64 /\ ChunkBits \in 1..8 /\ nbits' = nbits - ChunkBits
    BY <1>1, <1>2, <1>3
  <2>. HIDE DEF w, P
  <2>. QED  BY <2>1, <2>2, <2>3
<1>5. P + ChunkBits <= 8 * ilen /\ P \in Nat /\ bit_offset <= P
  BY <1>1, <1>2, <1>3
<1>6. InArray'
  BY <1>1 DEF BitsInv, InArray
<1>7. LoopAt'
  BY <1>1, <1>2, <1>3 DEF LoopAt
<1>8. ClearBehind'
  <2>. SUFFICES ASSUME NEW i \in Nat, NEW c \in 0..7,
                       8 * i < P + ChunkBits, P + ChunkBits <= 8 * i + c
                PROVE  array'[i][7 - c] = <<"zero", 0>>
    BY <1>4 DEF ClearBehind
  <2>1. i = byte_offset /\ bit_in_byte + ChunkBits <= c
    BY <1>1, <1>2
  <2>. QED  BY <2>1, ChunkByte
<1>9. LoopBits'
  <2>. SUFFICES ASSUME NEW i \in Nat, NEW c \in 0..7,
                       bit_offset <= 8 * i + c, 8 * i + c < P + ChunkBits
                PROVE  array'[i][7 - c] = <<Field.val, (bit_offset + Field.bits) - 1 - (8 * i + c)>>
    BY <1>1, <1>3, <1>4 DEF LoopBits
  <2>1. CASE P <= 8 * i + c
    <3>1. i = byte_offset /\ bit_in_byte <= c /\ c < bit_in_byte + ChunkBits
      BY <1>1, <1>2, <2>1
    <3>2. nbits - 1 - (c - bit_in_byte) = (bit_offset + Field.bits) - 1 - (8 * i + c)
      BY <1>1, <1>3, <3>1
    <3>. QED  BY <3>1, <3>2, ChunkByte
  <2>2. CASE 8 * i + c < P
    <3>1. array[i][7 - c] = <<Field.val, (bit_offset + Field.bits) - 1 - (8 * i + c)>>
      BY <1>1, <1>4, <2>2 DEF BitsInv, LoopBits
    <3>2. CASE i = byte_offset
      <4>1. c < bit_in_byte
        BY <1>1, <2>2, <3>2
      <4>. QED  BY <3>1, <3>2, <4>1, ChunkByte
    <3>3. CASE i # byte_offset
      <4>1. i < ilen
        BY <1>1, <1>5, <2>2
      <4>. QED  BY <3>1, <3>3, <4>1, OtherBytes DEF BitsInv
    <3>. QED  BY <3>2, <3>3
  <2>. QED  BY <1>1, <1>5, <2>1, <2>2
<1>10. LoopField'
  BY <1>1, <1>3 DEF BitsInv, LoopField
<1>. QED  BY <1>6, <1>7, <1>8, <1>9, <1>10 DEF BitsInv

(* What stands before the field does not change either. *)
LEMMA ChunkKeeps ==
    ASSUME EncodeInv, BitsInv, EmitChunk, NEW i \in Nat, NEW c \in 0..7, 8 * i + c < bit_offset
    PROVE  array'[i][7 - c] = array[i][7 - c]
<1>1. /\ bit_in_byte \in 0..7 /\ byte_offset \in Nat /\ ilen \in Nat /\ bit_offset \in Nat
      /\ bit_offset <= 8 * ilen /\ bit_offset <= 8 * byte_offset + bit_in_byte
  <2>1. pc = "loop" /\ nbits > 0 /\ bit_in_byte \in 0..7 /\ byte_offset \in Nat
    BY DEF EmitChunk, EncodeInv, LoopRoom
  <2>. DEFINE w == Field.bits
  <2>2. /\ w \in 1..64 /\ nbits <= w /\ nbits \in 0..64 /\ bit_offset \in Nat
        /\ ilen \in Nat /\ bit_offset <= 8 * ilen
    BY <2>1, Numbers DEF BitsInv
  <2>3. 8 * byte_offset + bit_in_byte = bit_offset + (w - nbits)
    BY <2>1 DEF BitsInv, LoopAt
  <2>. HIDE DEF w
  <2>. QED  BY <2>1, <2>2, <2>3
<1>2. CASE i = byte_offset
  <2>1. c < bit_in_byte
    BY <1>1, <1>2
  <2>. QED  BY <1>2, <2>1, ChunkByte
<1>3. CASE i # byte_offset
  <2>1. i < ilen
    BY <1>1
  <2>. QED  BY <1>3, <2>1, OtherBytes DEF BitsInv
<1>. QED  BY <1>2, <1>3

LEMMA BitsInit == Init => BitsInv
BY EncodeConstants DEF EncodeConstants, Init, BitsInv, InArray, LoopAt, ClearBehind, LoopBits, LoopField

(* The other steps. *)
LEMMA BitsStep ==
    ASSUME EncodeInv, FieldsAtBytes, BitsInv, Next
    PROVE  BitsInv'
<1>. USE DEF BitsInv
<1>1. ASSUME UNCHANGED <<array, ilen, bit_offset>>, pc' # "loop", pc # "loop",
             pc = "client" => pc' = "client"
      PROVE  BitsInv'
  <2>1. pc' # "client" => Position' = Position /\ pc # "client"
    BY <1>1 DEF Position
  <2>. QED  BY <1>1, <2>1 DEF InArray, LoopAt, ClearBehind, LoopBits, LoopField
<1>2. CASE Client
  <2>1. CASE \E n \in ILens : Encode(n)
    <3>1. PICK n \in ILens : Encode(n)
      BY <2>1
    <3>2. n \in 0..ArrayBytes /\ ilen' = n /\ bit_offset' = 0 /\ pc' = "bind"
      BY <3>1, EncodeConstants DEF Encode, EncodeConstants
    <3>. QED  BY <3>2 DEF InArray, LoopAt, ClearBehind, LoopBits, LoopField, Position
  <2>2. CASE ~\E n \in ILens : Encode(n)
    <3>1. pc' = "client" /\ ilen' = ilen
      BY <1>2, <2>2 DEF Client, NewRequest, Refill, EncodeNop, EncodeRefuses, Idle, request
    <3>. QED  BY <3>1 DEF InArray, LoopAt, ClearBehind, LoopBits, LoopField
  <2>. QED  BY <2>1, <2>2
<1>3. CASE Try \/ Choose \/ BindFails \/ EmitTooShort \/ RuleDone \/ RuleFails \/ EncodeReturns
  <2>1. /\ UNCHANGED <<array, ilen, bit_offset>> /\ pc' # "loop" /\ pc # "loop"
        /\ pc # "client"
    BY <1>3 DEF Try, Choose, BindFails, EmitTooShort, Emitting, RuleDone, RuleEnds, RuleFails, Fail,
                EncodeReturns, request
  <2>. QED  BY <1>1, <2>1
<1>4. CASE EmitBytes
  <2>1. /\ ~TooShort(Field) /\ Emitting /\ Aligned(Field) /\ Field.bits \in 1..64
        /\ bit_offset \in Nat
    BY <1>4, FieldType, Numbers DEF EmitBytes
  <2>2. bit_offset % 8 = 0 /\ Field.bits % 8 = 0
    BY <2>1 DEF FieldsAtBytes, Aligned
  <2>3. /\ pc' = "emit" /\ ilen' = ilen /\ Position' = bit_offset + Field.bits
    BY <1>4, <2>1 DEF EmitBytes, Emitting, Position
  <2>4. ASSUME NEW i \in Nat, NEW c \in 0..7, 8 * i < Position', Position' <= 8 * i + c
        PROVE  FALSE
    <3>1. PICK a \in Nat : bit_offset = 8 * a
      BY <2>1, <2>2, BytesOfBits
    <3>. DEFINE v == Field.bits
    <3>2. v \in Nat /\ v % 8 = 0 /\ Position' = bit_offset + v
      BY <2>1, <2>2, <2>3
    <3>. HIDE DEF v
    <3>3. PICK w \in Nat : v = 8 * w
      BY <3>2, BytesOfBits
    <3>. QED  BY <2>4, <3>1, <3>2, <3>3
  <2>. QED  BY <2>3, <2>4 DEF InArray, LoopAt, ClearBehind, LoopBits, LoopField
<1>5. CASE EmitBits
  <2>1. /\ Emitting /\ Field.bits \in 1..64 /\ bit_offset \in Nat
    BY <1>5, FieldType, Numbers DEF EmitBits
  <2>2. /\ pc # "client" /\ pc' = "loop" /\ UNCHANGED <<array, ilen, bit_offset, rules>>
        /\ nbits' = Field.bits /\ byte_offset' = bit_offset \div 8
        /\ bit_in_byte' = bit_offset % 8 /\ processed_bits' = 0
    BY <1>5, <2>1 DEF EmitBits, Emitting, request
  <2>3. Field' = Field
    BY <2>2 DEF Field
  <2>4. Position = bit_offset /\ Position' = bit_offset
    <3>. DEFINE w == Field.bits
    <3>1. Position = bit_offset /\ Position' = bit_offset + (w - w)
      BY <2>1, <2>2, <2>3 DEF Position, Emitting
    <3>2. w \in 1..64 /\ bit_offset \in Nat
      BY <2>1
    <3>. HIDE DEF w
    <3>. QED  BY <3>1, <3>2
  <2>5. LoopAt'
    <3>1. 8 * byte_offset' + bit_in_byte' = bit_offset
      BY <2>1, <2>2, BytesOfBits
    <3>. QED  BY <2>1, <2>2, <2>3, <3>1 DEF LoopAt
  <2>6. LoopBits'
    BY <2>1, <2>2, <2>4 DEF LoopBits
  <2>7. LoopField'
    BY <1>5, <2>1, <2>3 DEF EmitBits, FieldsAtBytes, Aligned, LoopField
  <2>. QED  BY <2>2, <2>4, <2>5, <2>6, <2>7 DEF InArray, ClearBehind
<1>6. CASE EmitChunk
  BY <1>6, BitsChunk
<1>7. CASE EmitBitsEnd
  <2>1. /\ pc = "loop" /\ nbits = 0 /\ pc' = "emit" /\ UNCHANGED <<array, ilen>>
        /\ bit_offset' = bit_offset + Field.bits
    BY <1>7 DEF EmitBitsEnd
  <2>2. Position' = Position
    <3>. DEFINE w == Field.bits
    <3>1. Position = bit_offset + (w - 0) /\ Position' = bit_offset + w
      BY <2>1 DEF Position
    <3>2. w \in 1..64 /\ bit_offset \in Nat
      BY <2>1, Numbers
    <3>. HIDE DEF w
    <3>. QED  BY <3>1, <3>2
  <2>. QED  BY <2>1, <2>2 DEF InArray, LoopAt, ClearBehind, LoopBits, LoopField
<1>. QED  BY <1>2, <1>3, <1>4, <1>5, <1>6, <1>7 DEF Next, Step

(* And none. *)
LEMMA BitsStutter ==
    ASSUME BitsInv, UNCHANGED vars
    PROVE  BitsInv'
<1>1. /\ UNCHANGED <<array, ilen, bit_offset, pc, nbits, byte_offset, bit_in_byte, processed_bits, rules>>
  BY DEF vars, request, cursor
<1>2. Field' = Field
  BY <1>1 DEF Field
<1>3. Position' = Position
  BY <1>1, <1>2 DEF Position
<1>. QED  BY <1>1, <1>2, <1>3 DEF BitsInv, InArray, LoopAt, ClearBehind, LoopBits, LoopField

-----------------------------------------------------------------------------
(* Strings of bits. *)
StringOf(a, n) == [p \in 1..n |-> a[(p - 1) \div 8][7 - ((p - 1) % 8)]]

(* Arrays that agree on the first n bits have the same string of n bits. *)
LEMMA SameString ==
    ASSUME NEW a, NEW b, NEW n \in Nat,
           \A i \in Nat, c \in 0..7 : 8 * i + c < n => b[i][7 - c] = a[i][7 - c]
    PROVE  StringOf(b, n) = StringOf(a, n)
<1>1. ASSUME NEW p \in 1..n
      PROVE  b[(p - 1) \div 8][7 - ((p - 1) % 8)] = a[(p - 1) \div 8][7 - ((p - 1) % 8)]
  <2>1. p - 1 \in Nat
    OBVIOUS
  <2>2. /\ (p - 1) % 8 \in 0..7 /\ (p - 1) \div 8 \in Nat
        /\ 8 * ((p - 1) \div 8) + ((p - 1) % 8) = p - 1
    BY <2>1, BytesOfBits
  <2>3. 8 * ((p - 1) \div 8) + ((p - 1) % 8) < n
    BY <2>2
  <2>. QED  BY <2>2, <2>3
<1>. QED  BY <1>1 DEF StringOf

(* Functions on 1..n are sequences. *)
LEMMA IsSequence ==
    ASSUME NEW n \in Nat, NEW S, NEW q \in [1..n -> S]
    PROVE  q \in Seq(S) /\ Len(q) = n
OBVIOUS

(* What a sequence put behind another one is, position by position. *)
LEMMA IsConcat ==
    ASSUME NEW S, NEW s \in Seq(S), NEW t \in Seq(S), NEW u \in Seq(S),
           Len(u) = Len(s) + Len(t),
           \A p \in 1..Len(s) : u[p] = s[p],
           \A p \in 1..Len(t) : u[Len(s) + p] = t[p]
    PROVE  u = s \o t
<1>1. Len(s) \in Nat /\ Len(t) \in Nat
  OBVIOUS
<1>2. /\ s \o t \in Seq(S) /\ Len(s \o t) = Len(s) + Len(t)
      /\ \A p \in 1..Len(s) + Len(t) : (s \o t)[p] = IF p <= Len(s) THEN s[p] ELSE t[p - Len(s)]
  BY ConcatProperties
<1>3. ASSUME NEW p \in 1..Len(u)
      PROVE  u[p] = (s \o t)[p]
  <2>. DEFINE m == Len(s)
              n == Len(t)
  <2>1. m \in Nat /\ n \in Nat /\ p \in 1..m + n
    BY <1>1
  <2>2. (s \o t)[p] = IF p <= m THEN s[p] ELSE t[p - m]
    BY <1>2
  <2>3. (\A q \in 1..m : u[q] = s[q]) /\ (\A q \in 1..n : u[m + q] = t[q])
    OBVIOUS
  <2>. HIDE DEF m, n
  <2>4. CASE p <= m
    <3>1. p \in 1..m
      BY <2>1, <2>4
    <3>. QED  BY <2>2, <2>3, <2>4, <3>1
  <2>5. CASE ~(p <= m)
    <3>1. p - m \in 1..n /\ m + (p - m) = p
      BY <2>1, <2>5
    <3>2. u[m + (p - m)] = t[p - m]
      BY <2>3, <3>1
    <3>. QED  BY <2>2, <2>5, <3>1, <3>2
  <2>. QED  BY <2>4, <2>5
<1>. QED  BY <1>2, <1>3, SeqEqual

(* An array that agrees with another one on the first n bits, and holds    *)
(* the bits of the field behind them, has the string put on the wire.      *)
LEMMA StringGrows ==
    ASSUME NEW a, NEW b, NEW n \in Nat, NEW f, f.bits \in 1..64,
           \A i \in Nat, c \in 0..7 : 8 * i + c < n => b[i][7 - c] = a[i][7 - c],
           \A i \in Nat, c \in 0..7 : n <= 8 * i + c /\ 8 * i + c < n + f.bits =>
              b[i][7 - c] = Abstract!Wire(f)[(8 * i + c) - n + 1]
    PROVE  StringOf(b, n + f.bits) = StringOf(a, n) \o Abstract!Wire(f)
<1>. DEFINE w == f.bits
<1>a. w \in 1..64
  OBVIOUS
<1>0. /\ \A i \in Nat, c \in 0..7 : n <= 8 * i + c /\ 8 * i + c < n + w =>
            b[i][7 - c] = Abstract!Wire(f)[(8 * i + c) - n + 1]
      /\ DOMAIN Abstract!Wire(f) = 1..w /\ Abstract!Wire(f) = [p \in 1..w |-> Abstract!Wire(f)[p]]
  BY DEF Abstract!Wire
<1>. HIDE DEF w
<1>. DEFINE s == StringOf(a, n)
            t == Abstract!Wire(f)
            u == StringOf(b, n + w)
            S == {s[p] : p \in 1..n} \cup {t[p] : p \in 1..w} \cup {u[p] : p \in 1..n + w}
<1>1. /\ s = [p \in 1..n |-> s[p]]
      /\ u = [p \in 1..n + w |-> u[p]]
  BY DEF StringOf
<1>2. t = [p \in 1..w |-> t[p]]
  BY <1>0
<1>3. ASSUME NEW p \in 1..n + w
      PROVE  \E i \in Nat, c \in 0..7 : 8 * i + c = p - 1 /\ u[p] = b[i][7 - c]
  <2>1. p - 1 \in Nat
    BY <1>a
  <2>2. /\ (p - 1) % 8 \in 0..7 /\ (p - 1) \div 8 \in Nat
        /\ 8 * ((p - 1) \div 8) + ((p - 1) % 8) = p - 1
    BY <2>1, BytesOfBits
  <2>3. u[p] = b[(p - 1) \div 8][7 - ((p - 1) % 8)]
    BY DEF StringOf
  <2>. HIDE DEF u
  <2>. QED  BY <2>2, <2>3
<1>4. ASSUME NEW p \in 1..n
      PROVE  u[p] = s[p]
  <2>1. p - 1 \in Nat /\ p \in 1..n + w
    BY <1>a
  <2>. DEFINE i == (p - 1) \div 8
              c == (p - 1) % 8
  <2>2. c \in 0..7 /\ i \in Nat /\ 8 * i + c = p - 1
    BY <2>1, BytesOfBits
  <2>3. u[p] = b[i][7 - c]
    BY <2>1 DEF StringOf
  <2>4. s[p] = a[i][7 - c]
    BY DEF StringOf
  <2>. HIDE DEF i, c, s, u
  <2>5. 8 * i + c < n
    BY <2>2
  <2>. QED  BY <2>2, <2>3, <2>4, <2>5
<1>5. ASSUME NEW p \in 1..w
      PROVE  u[n + p] = t[p]
  <2>1. n + p \in 1..n + w /\ (n + p) - 1 \in Nat
    BY <1>a
  <2>. HIDE DEF t, u
  <2>2. PICK i \in Nat, c \in 0..7 : 8 * i + c = (n + p) - 1 /\ u[n + p] = b[i][7 - c]
    BY <1>3, <2>1
  <2>3. n <= 8 * i + c /\ 8 * i + c < n + w /\ (8 * i + c) - n + 1 = p
    BY <1>a, <2>2
  <2>4. b[i][7 - c] = t[(8 * i + c) - n + 1]
    BY <1>0, <2>3 DEF t
  <2>. QED  BY <2>2, <2>3, <2>4
<1>. HIDE DEF s, t, u, w
<1>6. s \in [1..n -> S]
  BY <1>1
<1>7. t \in [1..w -> S]
  BY <1>2
<1>8. u \in [1..n + w -> S]
  BY <1>1
<1>9. w \in Nat /\ n + w \in Nat
  BY <1>a
<1>. HIDE DEF S
<1>10. s \in Seq(S) /\ Len(s) = n
  BY <1>6, IsSequence
<1>11. t \in Seq(S) /\ Len(t) = w
  BY <1>7, <1>9, IsSequence
<1>12. u \in Seq(S) /\ Len(u) = n + w
  BY <1>8, <1>9, IsSequence
<1>13. /\ Len(u) = Len(s) + Len(t)
       /\ \A p \in 1..Len(s) : u[p] = s[p]
       /\ \A p \in 1..Len(t) : u[Len(s) + p] = t[p]
  BY <1>4, <1>5, <1>10, <1>11, <1>12
<1>14. u = s \o t
  BY <1>10, <1>11, <1>12, <1>13, IsConcat
<1>. QED  BY <1>14 DEF s, t, u, w

(* The bits of a store of whole bytes, and those of the loop. *)
LEMMA WireOfBytes ==
    ASSUME NEW f, f.bits \in 1..64, f.bits % 8 = 0,
           NEW i \in Nat, NEW c \in 0..7, 8 * i + c < f.bits
    PROVE  Abstract!Wire(f)[8 * i + c + 1] = <<f.val, 8 * i + (7 - c)>>
<1>1. 8 * i + c + 1 \in 1..f.bits /\ (8 * i + c + 1) - 1 = 8 * i + c
  OBVIOUS
<1>2. (8 * i + c) \div 8 = i /\ (8 * i + c) % 8 = c
  OBVIOUS
<1>3. 8 * (((8 * i + c + 1) - 1) \div 8) + 7 - (((8 * i + c + 1) - 1) % 8) = 8 * i + (7 - c)
  BY <1>1, <1>2
<1>. QED  BY <1>1, <1>3 DEF Abstract!Wire

LEMMA WireOfBits ==
    ASSUME NEW f, f.bits \in 1..64, f.bits % 8 # 0 \/ f.bits = 8, NEW p \in 1..f.bits
    PROVE  Abstract!Wire(f)[p] = <<f.val, f.bits - p>>
<1>1. CASE f.bits = 8
  <2>1. (p - 1) \div 8 = 0 /\ (p - 1) % 8 = p - 1
    BY <1>1
  <2>. QED  BY <1>1, <2>1 DEF Abstract!Wire
<1>2. CASE f.bits % 8 # 0
  BY <1>2 DEF Abstract!Wire
<1>. QED  BY <1>1, <1>2

-----------------------------------------------------------------------------
(* What the refinement sees: the string and the room of the call. *)
String == IF pc = "client" THEN <<>> ELSE Stream(bit_offset)
Room == IF pc = "client" THEN 0 ELSE 8 * ilen

LEMMA StreamIsString ==
    /\ Stream(bit_offset) = StringOf(array, bit_offset)
    /\ Stream(bit_offset)' = StringOf(array', bit_offset')
BY DEF Stream, StringOf

(* A step that puts bits behind the string puts the whole field there. *)
LEMMA StringPut ==
    ASSUME EncodeInv, BitsInv, EmitBytes \/ EmitBitsEnd, FieldsAtBytes
    PROVE  /\ Field \in Fields /\ bit_offset \in Nat /\ ilen \in Nat
           /\ bit_offset + Field.bits <= 8 * ilen
           /\ pc # "client" /\ pc' # "client" /\ ilen' = ilen
           /\ bit_offset' = bit_offset + Field.bits
           /\ StringOf(array', bit_offset') = StringOf(array, bit_offset) \o Abstract!Wire(Field)
<1>0. rules \in Seq(Rules) /\ rules # <<>> /\ Head(rules).fields # <<>>
  BY FieldType DEF EmitBytes, EmitBitsEnd
<1>1. Field.bits \in 1..64 /\ bit_offset \in Nat /\ ilen \in Nat
  BY FieldType DEF EmitBytes, EmitBitsEnd
<1>2. Field \in Fields
  <2>1. Head(rules).fields \in Seq(Fields)
    BY <1>0, RuleType
  <2>. QED  BY <1>0, <2>1, HeadTailProperties DEF Field
<1>3. bit_offset + Field.bits <= 8 * ilen
  <2>1. CASE EmitBytes
    BY <2>1, <1>1, RoomForField DEF EmitBytes, TooShort
  <2>2. CASE EmitBitsEnd
    BY <2>2 DEF EmitBitsEnd, EncodeInv, LoopRoom
  <2>. QED  BY <2>1, <2>2
<1>4. /\ pc # "client" /\ pc' # "client" /\ ilen' = ilen
      /\ bit_offset' = bit_offset + Field.bits
  BY DEF EmitBytes, EmitBitsEnd, Emitting
<1>5. StringOf(array', bit_offset') = StringOf(array, bit_offset) \o Abstract!Wire(Field)
  <2>1. CASE EmitBytes
    <3>1. bit_offset % 8 = 0 /\ Field.bits % 8 = 0
      BY <2>1 DEF EmitBytes, FieldsAtBytes, Aligned
    <3>2. /\ bit_offset \div 8 \in Nat /\ bit_offset = 8 * (bit_offset \div 8)
          /\ Field.bits \div 8 \in Nat /\ Field.bits = 8 * (Field.bits \div 8)
      <4>. DEFINE w == Field.bits
      <4>1. w \in Nat /\ w % 8 = 0 /\ bit_offset \in Nat /\ bit_offset % 8 = 0
        BY <1>1, <3>1
      <4>. HIDE DEF w
      <4>2. w \div 8 \in Nat /\ 8 * (w \div 8) + (w % 8) = w
        BY <4>1, BytesOfBits
      <4>3. bit_offset \div 8 \in Nat /\ 8 * (bit_offset \div 8) + (bit_offset % 8) = bit_offset
        BY <4>1, BytesOfBits
      <4>. QED  BY <4>1, <4>2, <4>3 DEF w
    <3>. DEFINE first == bit_offset \div 8
                wide == Field.bits \div 8
    <3>3. DOMAIN array = 0..ArrayBytes - 1 /\ ilen \in 0..ArrayBytes /\ ArrayBytes \in Nat
      BY Numbers DEF BitsInv
    <3>4. array' = [i \in DOMAIN array |->
                       IF i \in first .. first + wide - 1
                         THEN [b \in 0..7 |-> <<Field.val, 8 * (i - first) + b>>] ELSE array[i]]
      BY <2>1 DEF EmitBytes
    <3>. HIDE DEF first, wide
    <3>5. /\ first \in Nat /\ wide \in Nat /\ bit_offset = 8 * first /\ Field.bits = 8 * wide
      BY <3>2 DEF first, wide
    <3>6. ASSUME NEW i \in Nat, NEW c \in 0..7, 8 * i + c < bit_offset
          PROVE  array'[i][7 - c] = array[i][7 - c]
      <4>1. i \in DOMAIN array /\ i \notin first .. first + wide - 1
        BY <1>3, <3>3, <3>5, <3>6
      <4>. QED  BY <3>4, <4>1
    <3>7. ASSUME NEW i \in Nat, NEW c \in 0..7,
                 bit_offset <= 8 * i + c, 8 * i + c < bit_offset + Field.bits
          PROVE  array'[i][7 - c] = Abstract!Wire(Field)[(8 * i + c) - bit_offset + 1]
      <4>1. i \in DOMAIN array /\ i \in first .. first + wide - 1
        BY <1>3, <3>3, <3>5, <3>7
      <4>2. array'[i][7 - c] = <<Field.val, 8 * (i - first) + (7 - c)>>
        BY <3>4, <4>1
      <4>3. i - first \in Nat /\ 8 * (i - first) + c < Field.bits
        BY <3>5, <3>7, <4>1
      <4>4. Abstract!Wire(Field)[8 * (i - first) + c + 1] = <<Field.val, 8 * (i - first) + (7 - c)>>
        BY <1>1, <3>1, <4>3, WireOfBytes
      <4>5. 8 * (i - first) + c + 1 = (8 * i + c) - bit_offset + 1
        BY <3>5
      <4>. QED  BY <4>2, <4>4, <4>5
    <3>8. /\ \A i \in Nat, c \in 0..7 : 8 * i + c < bit_offset => array'[i][7 - c] = array[i][7 - c]
          /\ \A i \in Nat, c \in 0..7 : bit_offset <= 8 * i + c /\ 8 * i + c < bit_offset + Field.bits =>
                array'[i][7 - c] = Abstract!Wire(Field)[(8 * i + c) - bit_offset + 1]
      BY <3>6, <3>7
    <3>9. StringOf(array', bit_offset + Field.bits) = StringOf(array, bit_offset) \o Abstract!Wire(Field)
      <4>. DEFINE f == Field
      <4>1. f.bits \in 1..64 /\ bit_offset \in Nat
        BY <1>1
      <4>2. /\ \A i \in Nat, c \in 0..7 : 8 * i + c < bit_offset => array'[i][7 - c] = array[i][7 - c]
            /\ \A i \in Nat, c \in 0..7 : bit_offset <= 8 * i + c /\ 8 * i + c < bit_offset + f.bits =>
                  array'[i][7 - c] = Abstract!Wire(f)[(8 * i + c) - bit_offset + 1]
        BY <3>8
      <4>. HIDE DEF f
      <4>3. StringOf(array', bit_offset + f.bits) = StringOf(array, bit_offset) \o Abstract!Wire(f)
        BY <4>1, <4>2, StringGrows, ZenonT(60)
      <4>. QED  BY <4>3 DEF f
    <3>. QED  BY <1>4, <3>9
  <2>2. CASE EmitBitsEnd
    <3>1. /\ pc = "loop" /\ nbits = 0 /\ array' = array
      BY <2>2 DEF EmitBitsEnd
    <3>2. Position = bit_offset + Field.bits
      <4>. DEFINE w == Field.bits
      <4>1. Position = bit_offset + (w - 0)
        BY <3>1 DEF Position
      <4>2. w \in 1..64 /\ bit_offset \in Nat
        BY <1>1
      <4>. HIDE DEF w
      <4>. QED  BY <4>1, <4>2 DEF w
    <3>3. Field.bits % 8 # 0 \/ Field.bits = 8
      BY <3>1 DEF BitsInv, LoopField
    <3>4. ASSUME NEW i \in Nat, NEW c \in 0..7,
                 bit_offset <= 8 * i + c, 8 * i + c < bit_offset + Field.bits
          PROVE  array'[i][7 - c] = Abstract!Wire(Field)[(8 * i + c) - bit_offset + 1]
      <4>1. array[i][7 - c] = <<Field.val, (bit_offset + Field.bits) - 1 - (8 * i + c)>>
        BY <3>1, <3>2, <3>4 DEF BitsInv, LoopBits
      <4>. DEFINE p == (8 * i + c) - bit_offset + 1
      <4>2. p \in 1..Field.bits /\ Field.bits - p = (bit_offset + Field.bits) - 1 - (8 * i + c)
        <5>. DEFINE w == Field.bits
        <5>1. /\ w \in 1..64 /\ bit_offset \in Nat
              /\ bit_offset <= 8 * i + c /\ 8 * i + c < bit_offset + w
          BY <1>1, <3>4
        <5>. HIDE DEF w
        <5>2. p \in 1..w /\ w - p = (bit_offset + w) - 1 - (8 * i + c)
          BY <5>1
        <5>. QED  BY <5>2 DEF w
      <4>. HIDE DEF p
      <4>3. Abstract!Wire(Field)[p] = <<Field.val, Field.bits - p>>
        BY <1>1, <3>3, <4>2, WireOfBits
      <4>. QED  BY <3>1, <4>1, <4>2, <4>3 DEF p
    <3>5. StringOf(array', bit_offset + Field.bits) = StringOf(array, bit_offset) \o Abstract!Wire(Field)
      <4>. DEFINE f == Field
      <4>1. f.bits \in 1..64 /\ bit_offset \in Nat
        BY <1>1
      <4>2. /\ \A i \in Nat, c \in 0..7 : 8 * i + c < bit_offset => array'[i][7 - c] = array[i][7 - c]
            /\ \A i \in Nat, c \in 0..7 : bit_offset <= 8 * i + c /\ 8 * i + c < bit_offset + f.bits =>
                  array'[i][7 - c] = Abstract!Wire(f)[(8 * i + c) - bit_offset + 1]
        BY <3>1, <3>4
      <4>. HIDE DEF f
      <4>3. StringOf(array', bit_offset + f.bits) = StringOf(array, bit_offset) \o Abstract!Wire(f)
        BY <4>1, <4>2, StringGrows, ZenonT(60)
      <4>. QED  BY <4>3 DEF f
    <3>. QED  BY <1>4, <3>5
  <2>. QED  BY <2>1, <2>2
<1>. QED  BY <1>1, <1>2, <1>3, <1>4, <1>5

(* It is a step of the abstraction. *)
LEMMA PutsField ==
    ASSUME EncodeInv, BitsInv, EmitBytes \/ EmitBitsEnd, FieldsAtBytes
    PROVE  Abstract!Next
<1>1. /\ Field \in Fields /\ bit_offset \in Nat
      /\ bit_offset + Field.bits <= 8 * ilen
      /\ pc # "client" /\ pc' # "client" /\ ilen' = ilen
      /\ StringOf(array', bit_offset') = StringOf(array, bit_offset) \o Abstract!Wire(Field)
  BY StringPut
<1>2. Len(StringOf(array, bit_offset)) = bit_offset
  BY <1>1 DEF StringOf
<1>3. Abstract!Put(Field)
  <2>1. /\ String = StringOf(array, bit_offset) /\ String' = StringOf(array', bit_offset')
        /\ Room = 8 * ilen /\ Room' = Room
    BY <1>1, StreamIsString DEF String, Room
  <2>. QED  BY <1>1, <1>2, <2>1 DEF Abstract!Put, String, Room
<1>. QED  BY <1>1, <1>3 DEF Abstract!Next

(* Every step of the encoder maps to one of the abstraction or a stutter. *)
LEMMA RefinementStep ==
    ASSUME EncodeInv, BitsInv, FieldsAtBytes, Next
    PROVE  Abstract!Next \/ (UNCHANGED <<String, Room>>)
<1>1. CASE EmitBytes \/ EmitBitsEnd
  BY <1>1, PutsField
<1>2. CASE EmitChunk
  <2>1. pc = "loop" /\ pc' = "loop" /\ UNCHANGED <<bit_offset, ilen>> /\ bit_offset \in Nat
    BY <1>2, Numbers DEF EmitChunk, request, BitsInv
  <2>2. StringOf(array', bit_offset) = StringOf(array, bit_offset)
    BY <1>2, <2>1, ChunkKeeps, SameString
  <2>. QED  BY <2>1, <2>2, StreamIsString DEF String, Room
<1>3. CASE Client
  <2>1. CASE \E n \in ILens : Encode(n)
    <3>1. PICK n \in ILens : Encode(n)
      BY <2>1
    <3>2. /\ pc = "client" /\ pc' = "bind" /\ ilen' = n /\ bit_offset' = 0 /\ n \in Nat /\ n > 0
      BY <3>1, EncodeConstants DEF Encode, Idle, EncodeConstants
    <3>3. String' = <<>>
      BY <3>2 DEF String, Stream
    <3>4. Room' > 0 /\ Room' % 8 = 0
      BY <3>2 DEF Room
    <3>5. Abstract!Open
      BY <3>3, <3>4 DEF Abstract!Open, String, Room
    <3>. QED  BY <3>5 DEF Abstract!Next
  <2>2. CASE ~\E n \in ILens : Encode(n)
    <3>1. pc = "client" /\ pc' = "client"
      BY <1>3, <2>2 DEF Client, NewRequest, Refill, EncodeNop, EncodeRefuses, Idle
    <3>. QED  BY <3>1 DEF String, Room
  <2>. QED  BY <2>1, <2>2
<1>4. CASE Try \/ Choose \/ EmitTooShort \/ EmitBits \/ RuleDone
  <2>1. pc # "client" /\ pc' # "client" /\ UNCHANGED <<array, bit_offset, ilen>>
    BY <1>4 DEF Try, Choose, EmitTooShort, EmitBits, Emitting, RuleDone, RuleEnds, request
  <2>. QED  BY <2>1, StreamIsString DEF String, Room
<1>5. CASE BindFails \/ RuleFails \/ EncodeReturns
  <2>1. pc' = "client"
    BY <1>5 DEF BindFails, RuleFails, Fail, EncodeReturns
  <2>2. Abstract!Close
    BY <2>1 DEF Abstract!Close
  <2>. QED  BY <2>2 DEF Abstract!Next
<1>. QED  BY <1>1, <1>2, <1>3, <1>4, <1>5 DEF Next, Step

(* The emitter implements a string of bits that grows by whole fields: for *)
(* every array, every client and all fields the generated functions emit,  *)
(* as long as those of several bytes start at a byte.                      *)
THEOREM EmitterImplementsString ==
    ASSUME BindAnswers
    PROVE  Spec /\ []FieldsAtBytes => EmitsABitString
<1>1. Init => BitsInv
  BY BitsInit
<1>2. EncodeInv /\ FieldsAtBytes /\ BitsInv /\ [Next]_vars => BitsInv'
  BY BitsStep, BitsStutter
<1>3. Init => Abstract!Init
  BY DEF Init, Abstract!Init
<1>4. EncodeInv /\ FieldsAtBytes /\ BitsInv /\ [Next]_vars
        => [Abstract!Next]_<<IF pc = "client" THEN <<>> ELSE Stream(bit_offset),
                             IF pc = "client" THEN 0 ELSE 8 * ilen>>
  <2>1. ASSUME UNCHANGED vars
        PROVE  UNCHANGED <<String, Room>>
    BY <2>1, StreamIsString DEF String, Room, vars, request
  <2>. QED  BY <2>1, RefinementStep DEF String, Room
<1>5. Spec => []EncodeInv
  BY EncodeInvariant
<1>. QED  BY <1>1, <1>2, <1>3, <1>4, <1>5, PTL DEF Spec, EmitsABitString, Abstract!Spec

-----------------------------------------------------------------------------
(* Recursion over sequences.  The library's induction theorems take a      *)
(* predicate, these lemmas the set of what satisfies it.                   *)
LEMMA LeastLength ==
    ASSUME NEW T, T \subseteq Nat, T # {}
    PROVE  \E x \in T : \A y \in T : x <= y
<1>1. PICK x \in T : \A y \in T : ~(<<y, x>> \in OpToRel(<, Nat))
  BY NatLessThanWellFounded, WFMin
<1>2. \A y \in T : ~(y < x)
  BY <1>1 DEF OpToRel
<1>. QED  BY <1>2

(* A set that has the empty sequence, and a sequence whenever it has its   *)
(* tail, has all sequences.                                                *)
LEMMA AllSequences ==
    ASSUME NEW S, NEW P, <<>> \in P,
           \A q \in Seq(S) : q # <<>> /\ Tail(q) \in P => q \in P
    PROVE  Seq(S) \subseteq P
<1>. SUFFICES ASSUME NEW s \in Seq(S), s \notin P
              PROVE  FALSE
  OBVIOUS
<1>. DEFINE T == {Len(q) : q \in Seq(S) \ P}
<1>1. T \subseteq Nat /\ T # {}
  <2>1. \A q \in Seq(S) : Len(q) \in Nat
    OBVIOUS
  <2>2. Len(s) \in T
    OBVIOUS
  <2>3. T \subseteq Nat
    <3>. SUFFICES ASSUME NEW q \in Seq(S) \ P
                  PROVE  Len(q) \in Nat
      OBVIOUS
    <3>. QED  BY <2>1
  <2>. QED  BY <2>2, <2>3
<1>2. PICK n \in T : \A y \in T : n <= y
  BY <1>1, LeastLength
<1>3. PICK q \in Seq(S) \ P : n = Len(q)
  BY <1>2
<1>4. q # <<>> /\ Tail(q) \in Seq(S) /\ Len(Tail(q)) = Len(q) - 1
  OBVIOUS
<1>5. Tail(q) \in P
  <2>1. ASSUME Tail(q) \notin P
        PROVE  FALSE
    <3>1. Tail(q) \in Seq(S) \ P /\ Len(q) \in Nat
      BY <1>4, <2>1
    <3>2. Len(Tail(q)) \in T
      BY <3>1, Zenon
    <3>3. n <= Len(Tail(q))
      BY <1>2, <3>2
    <3>. QED  BY <1>3, <1>4, <3>1, <3>3
  <2>. QED  BY <2>1
<1>. QED  BY <1>3, <1>4, <1>5

(* A function over sequences may be defined from its value at the tail.    *)
FoldsOf(S, T, base, op) ==
    {g \in [Seq(S) -> T] :
       /\ g[<<>>] = base
       /\ \A q \in Seq(S) : q # <<>> => g[q] = op[<<Head(q), g[Tail(q)]>>]}

LEMMA FoldExists ==
    ASSUME NEW S, NEW T, NEW base \in T, NEW op \in [S \X T -> T]
    PROVE  FoldsOf(S, T, base, op) # {}
<1>. DEFINE All == Seq(S) \X T
            Closed(Z) == /\ <<(<<>>), base>> \in Z
                         /\ \A q \in Seq(S), t \in T :
                               q # <<>> /\ <<Tail(q), t>> \in Z => <<q, op[<<Head(q), t>>]>> \in Z
            R == {p \in All : \A Z \in SUBSET All : Closed(Z) => p \in Z}
            Only(q) == \E t \in T : <<q, t>> \in R /\ \A u \in T : <<q, u>> \in R => u = t
            P == {q \in Seq(S) : Only(q)}
<1>0. <<>> \in Seq(S) /\ \A q \in Seq(S) : q # <<>> => Head(q) \in S /\ Tail(q) \in Seq(S)
  OBVIOUS
<1>1. /\ R \subseteq All /\ Closed(R)
      /\ \A Z \in SUBSET All : Closed(Z) => R \subseteq Z
  <2>1. <<(<<>>), base>> \in R
    BY <1>0
  <2>2. ASSUME NEW q \in Seq(S), NEW t \in T, q # <<>>, <<Tail(q), t>> \in R
        PROVE  <<q, op[<<Head(q), t>>]>> \in R
    <3>1. op[<<Head(q), t>>] \in T
      BY <1>0, <2>2
    <3>2. ASSUME NEW Z \in SUBSET All, Closed(Z)
          PROVE  <<q, op[<<Head(q), t>>]>> \in Z
      BY <2>2, <3>2
    <3>. QED  BY <3>1, <3>2
  <2>. QED  BY <2>1, <2>2
<1>. HIDE DEF R
<1>2. <<>> \in P
  <2>1. ASSUME NEW u \in T, <<(<<>>), u>> \in R, u # base
        PROVE  FALSE
    <3>. DEFINE Z == R \ {<<(<<>>), u>>}
    <3>1. Z \in SUBSET All
      BY <1>1
    <3>2. Closed(Z)
      BY <1>1, <2>1
    <3>3. R \subseteq Z
      BY <1>1, <3>1, <3>2
    <3>. QED  BY <2>1, <3>3
  <2>2. <<(<<>>), base>> \in R
    BY <1>1
  <2>. QED  BY <1>0, <2>1, <2>2
<1>3. ASSUME NEW q \in Seq(S), q # <<>>, Tail(q) \in P
      PROVE  q \in P
  <2>1. PICK t \in T : <<Tail(q), t>> \in R /\ \A u \in T : <<Tail(q), u>> \in R => u = t
    BY <1>3
  <2>. DEFINE v == op[<<Head(q), t>>]
  <2>2. v \in T /\ <<q, v>> \in R
    BY <1>0, <1>1, <1>3, <2>1
  <2>3. ASSUME NEW u \in T, <<q, u>> \in R, u # v
        PROVE  FALSE
    <3>. DEFINE Z == R \ {<<q, u>>}
    <3>1. Z \in SUBSET All
      BY <1>1
    <3>2. Closed(Z)
      <4>1. <<(<<>>), base>> \in Z
        BY <1>1, <1>3
      <4>2. ASSUME NEW r \in Seq(S), NEW w \in T, r # <<>>, <<Tail(r), w>> \in Z
            PROVE  <<r, op[<<Head(r), w>>]>> \in Z
        <5>1. <<r, op[<<Head(r), w>>]>> \in R
          BY <1>1, <4>2
        <5>2. CASE r = q
          BY <2>1, <2>3, <4>2, <5>1, <5>2
        <5>3. CASE r # q
          BY <5>1, <5>3
        <5>. QED  BY <5>2, <5>3
      <4>. QED  BY <4>1, <4>2
    <3>3. R \subseteq Z
      BY <1>1, <3>1, <3>2
    <3>. QED  BY <2>3, <3>3
  <2>. HIDE DEF v
  <2>. QED  BY <2>2, <2>3
<1>4. Seq(S) \subseteq P
  <2>. HIDE DEF P
  <2>. QED  BY <1>2, <1>3, AllSequences
<1>. DEFINE g == [q \in Seq(S) |-> CHOOSE t \in T : <<q, t>> \in R]
<1>5. ASSUME NEW q \in Seq(S)
      PROVE  g[q] \in T /\ <<q, g[q]>> \in R /\ \A u \in T : <<q, u>> \in R => u = g[q]
  BY <1>4
<1>6. g \in [Seq(S) -> T]
  BY <1>5
<1>7. g[<<>>] = base
  BY <1>0, <1>1, <1>5
<1>8. ASSUME NEW q \in Seq(S), q # <<>>
      PROVE  g[q] = op[<<Head(q), g[Tail(q)]>>]
  <2>1. Tail(q) \in Seq(S) /\ Head(q) \in S
    BY <1>0, <1>8
  <2>2. <<Tail(q), g[Tail(q)]>> \in R /\ g[Tail(q)] \in T
    BY <1>5, <2>1
  <2>. HIDE DEF g
  <2>3. op[<<Head(q), g[Tail(q)]>>] \in T
    BY <2>1, <2>2
  <2>4. <<q, op[<<Head(q), g[Tail(q)]>>]>> \in R
    BY <1>1, <1>8, <2>1, <2>2
  <2>. QED  BY <1>5, <2>3, <2>4
<1>. HIDE DEF g
<1>. QED  BY <1>6, <1>7, <1>8 DEF FoldsOf

(* The bits of fields are a number, and those of the first come on top. *)
LEMMA SumFacts ==
    /\ Sum[<<>>] = 0
    /\ \A q \in Seq(Fields) :
          /\ Sum[q] \in Nat
          /\ q # <<>> => Sum[q] = Head(q).bits + Sum[Tail(q)]
<1>. DEFINE step == [p \in Fields \X Nat |-> p[1].bits + p[2]]
            def(h) == [q \in Seq(Fields) |-> IF q = <<>> THEN 0 ELSE Head(q).bits + h[Tail(q)]]
<1>1. \A f \in Fields, t \in Nat : f.bits + t \in Nat
  BY EncodeConstants DEF EncodeConstants
<1>2. \A q \in Seq(Fields) : q # <<>> => Head(q) \in Fields /\ Tail(q) \in Seq(Fields)
  OBVIOUS
<1>3. step \in [Fields \X Nat -> Nat] /\ \A f \in Fields, t \in Nat : step[<<f, t>>] = f.bits + t
  BY <1>1
<1>. HIDE DEF step
<1>4. PICK g \in FoldsOf(Fields, Nat, 0, step) : TRUE
  <2>1. 0 \in Nat /\ step \in [Fields \X Nat -> Nat]
    BY <1>3
  <2>. QED  BY <2>1, FoldExists
<1>4a. /\ g \in [Seq(Fields) -> Nat] /\ g[<<>>] = 0
       /\ \A q \in Seq(Fields) : q # <<>> => g[q] = step[<<Head(q), g[Tail(q)]>>]
  BY <1>4 DEF FoldsOf
<1>5. \A q \in Seq(Fields) : q # <<>> => g[q] = Head(q).bits + g[Tail(q)]
  BY <1>2, <1>3, <1>4a
<1>6. g = def(g)
  BY <1>4a, <1>5
<1>7. Sum = def(Sum)
  BY <1>6, Zenon DEF Sum
<1>8. \A q \in Seq(Fields) :
         Sum[q] = IF q = <<>> THEN 0 ELSE Head(q).bits + Sum[Tail(q)]
  BY <1>7, Zenon
<1>. DEFINE P == {q \in Seq(Fields) : Sum[q] \in Nat}
<1>9. <<>> \in Seq(Fields) /\ Sum[<<>>] = 0
  <2>1. <<>> \in Seq(Fields)
    OBVIOUS
  <2>. QED  BY <1>8, <2>1, Zenon
<1>10. ASSUME NEW q \in Seq(Fields), q # <<>>, Tail(q) \in P
       PROVE  q \in P
  <2>1. Sum[q] = Head(q).bits + Sum[Tail(q)]
    BY <1>8, <1>10
  <2>. QED  BY <1>1, <1>2, <1>10, <2>1
<1>11. Seq(Fields) \subseteq P
  <2>1. <<>> \in P
    BY <1>4a, <1>9
  <2>. HIDE DEF P
  <2>. QED  BY <1>10, <2>1, AllSequences
<1>. QED  BY <1>8, <1>9, <1>11

(* The bits of rules. *)
LEMMA BitsFacts ==
    /\ Bits[<<>>] = 0
    /\ \A q \in Seq(Rules) :
          /\ Bits[q] \in Nat
          /\ q # <<>> => Bits[q] = Sum[Head(q).fields] + Bits[Tail(q)]
<1>. DEFINE step == [p \in Rules \X Nat |-> Sum[p[1].fields] + p[2]]
            def(h) == [q \in Seq(Rules) |-> IF q = <<>> THEN 0 ELSE Sum[Head(q).fields] + h[Tail(q)]]
<1>1. \A r \in Rules, t \in Nat : Sum[r.fields] + t \in Nat
  <2>1. \A r \in Rules : r.fields \in Seq(Fields)
    BY DEF Rules
  <2>. QED  BY <2>1, SumFacts
<1>2. \A q \in Seq(Rules) : q # <<>> => Head(q) \in Rules /\ Tail(q) \in Seq(Rules)
  OBVIOUS
<1>3. step \in [Rules \X Nat -> Nat] /\ \A r \in Rules, t \in Nat : step[<<r, t>>] = Sum[r.fields] + t
  BY <1>1
<1>. HIDE DEF step
<1>4. PICK g \in FoldsOf(Rules, Nat, 0, step) : TRUE
  <2>1. 0 \in Nat /\ step \in [Rules \X Nat -> Nat]
    BY <1>3
  <2>. QED  BY <2>1, FoldExists
<1>4a. /\ g \in [Seq(Rules) -> Nat] /\ g[<<>>] = 0
       /\ \A q \in Seq(Rules) : q # <<>> => g[q] = step[<<Head(q), g[Tail(q)]>>]
  BY <1>4 DEF FoldsOf
<1>5. \A q \in Seq(Rules) : q # <<>> => g[q] = Sum[Head(q).fields] + g[Tail(q)]
  BY <1>2, <1>3, <1>4a
<1>6. g = def(g)
  BY <1>4a, <1>5
<1>7. Bits = def(Bits)
  BY <1>6, Zenon DEF Bits
<1>8. \A q \in Seq(Rules) :
         Bits[q] = IF q = <<>> THEN 0 ELSE Sum[Head(q).fields] + Bits[Tail(q)]
  BY <1>7, Zenon
<1>. DEFINE P == {q \in Seq(Rules) : Bits[q] \in Nat}
<1>9. <<>> \in Seq(Rules) /\ Bits[<<>>] = 0
  <2>1. <<>> \in Seq(Rules)
    OBVIOUS
  <2>. QED  BY <1>8, <2>1, Zenon
<1>10. ASSUME NEW q \in Seq(Rules), q # <<>>, Tail(q) \in P
       PROVE  q \in P
  <2>1. Bits[q] = Sum[Head(q).fields] + Bits[Tail(q)]
    BY <1>8, <1>10
  <2>. QED  BY <1>1, <1>2, <1>10, <2>1
<1>11. Seq(Rules) \subseteq P
  <2>1. <<>> \in P
    BY <1>4a, <1>9
  <2>. HIDE DEF P
  <2>. QED  BY <1>10, <2>1, AllSequences
<1>. QED  BY <1>8, <1>9, <1>11

(* The bits of the rules of the first two stages. *)
LEMMA PrefixBitsFacts ==
    /\ PrefixBits[<<>>] = 0
    /\ \A q \in Seq(Rules) :
          /\ PrefixBits[q] \in Nat
          /\ q # <<>> => PrefixBits[q] = (IF Head(q).stage \in {"prefix", "rex"} THEN Sum[Head(q).fields] ELSE 0) + PrefixBits[Tail(q)]
<1>. DEFINE step == [p \in Rules \X Nat |-> (IF p[1].stage \in {"prefix", "rex"} THEN Sum[p[1].fields] ELSE 0) + p[2]]
            def(h) == [q \in Seq(Rules) |-> IF q = <<>> THEN 0 ELSE (IF Head(q).stage \in {"prefix", "rex"} THEN Sum[Head(q).fields] ELSE 0) + h[Tail(q)]]
<1>1. \A r \in Rules, t \in Nat : (IF r.stage \in {"prefix", "rex"} THEN Sum[r.fields] ELSE 0) + t \in Nat
  <2>1. \A r \in Rules : r.fields \in Seq(Fields)
    BY DEF Rules
  <2>. QED  BY <2>1, SumFacts
<1>2. \A q \in Seq(Rules) : q # <<>> => Head(q) \in Rules /\ Tail(q) \in Seq(Rules)
  OBVIOUS
<1>3. step \in [Rules \X Nat -> Nat] /\ \A r \in Rules, t \in Nat : step[<<r, t>>] = (IF r.stage \in {"prefix", "rex"} THEN Sum[r.fields] ELSE 0) + t
  BY <1>1
<1>. HIDE DEF step
<1>4. PICK g \in FoldsOf(Rules, Nat, 0, step) : TRUE
  <2>1. 0 \in Nat /\ step \in [Rules \X Nat -> Nat]
    BY <1>3
  <2>. QED  BY <2>1, FoldExists
<1>4a. /\ g \in [Seq(Rules) -> Nat] /\ g[<<>>] = 0
       /\ \A q \in Seq(Rules) : q # <<>> => g[q] = step[<<Head(q), g[Tail(q)]>>]
  BY <1>4 DEF FoldsOf
<1>5. \A q \in Seq(Rules) : q # <<>> => g[q] = (IF Head(q).stage \in {"prefix", "rex"} THEN Sum[Head(q).fields] ELSE 0) + g[Tail(q)]
  BY <1>2, <1>3, <1>4a
<1>6. g = def(g)
  BY <1>4a, <1>5
<1>7. PrefixBits = def(PrefixBits)
  BY <1>6, Zenon DEF PrefixBits
<1>8. \A q \in Seq(Rules) :
         PrefixBits[q] = IF q = <<>> THEN 0 ELSE (IF Head(q).stage \in {"prefix", "rex"} THEN Sum[Head(q).fields] ELSE 0) + PrefixBits[Tail(q)]
  BY <1>7, Zenon
<1>. DEFINE P == {q \in Seq(Rules) : PrefixBits[q] \in Nat}
<1>9. <<>> \in Seq(Rules) /\ PrefixBits[<<>>] = 0
  <2>1. <<>> \in Seq(Rules)
    OBVIOUS
  <2>. QED  BY <1>8, <2>1, Zenon
<1>10. ASSUME NEW q \in Seq(Rules), q # <<>>, Tail(q) \in P
       PROVE  q \in P
  <2>1. PrefixBits[q] = (IF Head(q).stage \in {"prefix", "rex"} THEN Sum[Head(q).fields] ELSE 0) + PrefixBits[Tail(q)]
    BY <1>8, <1>10
  <2>. QED  BY <1>1, <1>2, <1>10, <2>1
<1>11. Seq(Rules) \subseteq P
  <2>1. <<>> \in P
    BY <1>4a, <1>9
  <2>. HIDE DEF P
  <2>. QED  BY <1>10, <2>1, AllSequences
<1>. QED  BY <1>8, <1>9, <1>11

(* The bits of the fields, from which encodings are made. *)
WireBits == {f.val : f \in Fields} \X Int

(* A field has its bits on the wire. *)
LEMMA WireType ==
    ASSUME NEW f \in Fields
    PROVE  Abstract!Wire(f) \in Seq(WireBits) /\ Len(Abstract!Wire(f)) = f.bits
<1>1. f.bits \in 1..64
  BY EncodeConstants DEF EncodeConstants
<1>. DEFINE place(p) == IF f.bits % 8 = 0 THEN 8 * ((p - 1) \div 8) + 7 - ((p - 1) % 8)
                                          ELSE f.bits - p
<1>2. \A p \in 1..f.bits : place(p) \in Int
  BY <1>1
<1>. HIDE DEF place
<1>3. \A p \in 1..f.bits : <<f.val, place(p)>> \in WireBits
  BY <1>2 DEF WireBits
<1>4. Abstract!Wire(f) = [p \in 1..f.bits |-> <<f.val, place(p)>>]
  BY DEF Abstract!Wire, place
<1>5. Abstract!Wire(f) \in [1..f.bits -> WireBits]
  BY <1>3, <1>4
<1>6. f.bits \in Nat
  BY <1>1
<1>. QED  BY <1>5, <1>6, IsSequence, Zenon

(* The bits fields have on the wire. *)
LEMMA WiresFacts ==
    /\ Wires[<<>>] = <<>>
    /\ \A q \in Seq(Fields) :
          /\ Wires[q] \in Seq(WireBits)
          /\ q # <<>> => Wires[q] = Abstract!Wire(Head(q)) \o Wires[Tail(q)]
<1>. DEFINE step == [p \in Fields \X Seq(WireBits) |-> Abstract!Wire(p[1]) \o p[2]]
            def(h) == [q \in Seq(Fields) |-> IF q = <<>> THEN <<>> ELSE Abstract!Wire(Head(q)) \o h[Tail(q)]]
<1>1. \A f \in Fields, t \in Seq(WireBits) : Abstract!Wire(f) \o t \in Seq(WireBits)
  BY WireType, ConcatProperties
<1>2. \A q \in Seq(Fields) : q # <<>> => Head(q) \in Fields /\ Tail(q) \in Seq(Fields)
  OBVIOUS
<1>3. step \in [Fields \X Seq(WireBits) -> Seq(WireBits)] /\ \A f \in Fields, t \in Seq(WireBits) : step[<<f, t>>] = Abstract!Wire(f) \o t
  BY <1>1
<1>. HIDE DEF step
<1>4. PICK g \in FoldsOf(Fields, Seq(WireBits), <<>>, step) : TRUE
  <2>1. <<>> \in Seq(WireBits) /\ step \in [Fields \X Seq(WireBits) -> Seq(WireBits)]
    BY <1>3
  <2>. QED  BY <2>1, FoldExists
<1>4a. /\ g \in [Seq(Fields) -> Seq(WireBits)] /\ g[<<>>] = <<>>
       /\ \A q \in Seq(Fields) : q # <<>> => g[q] = step[<<Head(q), g[Tail(q)]>>]
  BY <1>4 DEF FoldsOf
<1>5. \A q \in Seq(Fields) : q # <<>> => g[q] = Abstract!Wire(Head(q)) \o g[Tail(q)]
  BY <1>2, <1>3, <1>4a
<1>6. g = def(g)
  BY <1>4a, <1>5
<1>7. Wires = def(Wires)
  BY <1>6, Zenon DEF Wires
<1>8. \A q \in Seq(Fields) :
         Wires[q] = IF q = <<>> THEN <<>> ELSE Abstract!Wire(Head(q)) \o Wires[Tail(q)]
  BY <1>7, Zenon
<1>. DEFINE P == {q \in Seq(Fields) : Wires[q] \in Seq(WireBits)}
<1>9. <<>> \in Seq(Fields) /\ Wires[<<>>] = <<>>
  <2>1. <<>> \in Seq(Fields)
    OBVIOUS
  <2>. QED  BY <1>8, <2>1, Zenon
<1>10. ASSUME NEW q \in Seq(Fields), q # <<>>, Tail(q) \in P
       PROVE  q \in P
  <2>1. Wires[q] = Abstract!Wire(Head(q)) \o Wires[Tail(q)]
    BY <1>8, <1>10
  <2>. QED  BY <1>1, <1>2, <1>10, <2>1
<1>11. Seq(Fields) \subseteq P
  <2>1. <<>> \in P
    BY <1>4a, <1>9
  <2>. HIDE DEF P
  <2>. QED  BY <1>10, <2>1, AllSequences
<1>. QED  BY <1>8, <1>9, <1>11

(* The bits rules have on the wire. *)
LEMMA EncodingFacts ==
    /\ Encoding[<<>>] = <<>>
    /\ \A q \in Seq(Rules) :
          /\ Encoding[q] \in Seq(WireBits)
          /\ q # <<>> => Encoding[q] = Wires[Head(q).fields] \o Encoding[Tail(q)]
<1>. DEFINE step == [p \in Rules \X Seq(WireBits) |-> Wires[p[1].fields] \o p[2]]
            def(h) == [q \in Seq(Rules) |-> IF q = <<>> THEN <<>> ELSE Wires[Head(q).fields] \o h[Tail(q)]]
<1>1. \A r \in Rules, t \in Seq(WireBits) : Wires[r.fields] \o t \in Seq(WireBits)
  <2>1. \A r \in Rules : r.fields \in Seq(Fields)
    BY DEF Rules
  <2>. QED  BY <2>1, WiresFacts, ConcatProperties
<1>2. \A q \in Seq(Rules) : q # <<>> => Head(q) \in Rules /\ Tail(q) \in Seq(Rules)
  OBVIOUS
<1>3. step \in [Rules \X Seq(WireBits) -> Seq(WireBits)] /\ \A r \in Rules, t \in Seq(WireBits) : step[<<r, t>>] = Wires[r.fields] \o t
  BY <1>1
<1>. HIDE DEF step
<1>4. PICK g \in FoldsOf(Rules, Seq(WireBits), <<>>, step) : TRUE
  <2>1. <<>> \in Seq(WireBits) /\ step \in [Rules \X Seq(WireBits) -> Seq(WireBits)]
    BY <1>3
  <2>. QED  BY <2>1, FoldExists
<1>4a. /\ g \in [Seq(Rules) -> Seq(WireBits)] /\ g[<<>>] = <<>>
       /\ \A q \in Seq(Rules) : q # <<>> => g[q] = step[<<Head(q), g[Tail(q)]>>]
  BY <1>4 DEF FoldsOf
<1>5. \A q \in Seq(Rules) : q # <<>> => g[q] = Wires[Head(q).fields] \o g[Tail(q)]
  BY <1>2, <1>3, <1>4a
<1>6. g = def(g)
  BY <1>4a, <1>5
<1>7. Encoding = def(Encoding)
  BY <1>6, Zenon DEF Encoding
<1>8. \A q \in Seq(Rules) :
         Encoding[q] = IF q = <<>> THEN <<>> ELSE Wires[Head(q).fields] \o Encoding[Tail(q)]
  BY <1>7, Zenon
<1>. DEFINE P == {q \in Seq(Rules) : Encoding[q] \in Seq(WireBits)}
<1>9. <<>> \in Seq(Rules) /\ Encoding[<<>>] = <<>>
  <2>1. <<>> \in Seq(Rules)
    OBVIOUS
  <2>. QED  BY <1>8, <2>1, Zenon
<1>10. ASSUME NEW q \in Seq(Rules), q # <<>>, Tail(q) \in P
       PROVE  q \in P
  <2>1. Encoding[q] = Wires[Head(q).fields] \o Encoding[Tail(q)]
    BY <1>8, <1>10
  <2>. QED  BY <1>1, <1>2, <1>10, <2>1
<1>11. Seq(Rules) \subseteq P
  <2>1. <<>> \in P
    BY <1>4a, <1>9
  <2>. HIDE DEF P
  <2>. QED  BY <1>10, <2>1, AllSequences
<1>. QED  BY <1>8, <1>9, <1>11

-----------------------------------------------------------------------------
(* A rule before others. *)
LEMMA RuleBefore ==
    ASSUME NEW r \in Rules, NEW t \in Seq(Rules)
    PROVE  LET q == <<r>> \o t
           IN  /\ q \in Seq(Rules) /\ q # <<>> /\ Head(q) = r /\ Tail(q) = t
               /\ Len(q) = Len(t) + 1 /\ q[1] = r
               /\ \A k \in 1..Len(t) : q[k + 1] = t[k]
<1>1. <<r>> \in Seq(Rules) /\ Len(<<r>>) = 1 /\ <<r>>[1] = r
  OBVIOUS
<1>. DEFINE q == <<r>> \o t
<1>2. /\ q \in Seq(Rules) /\ Len(q) = Len(t) + 1 /\ q[1] = r
      /\ \A k \in 1..Len(t) : q[k + 1] = t[k]
  BY <1>1, ConcatProperties
<1>. HIDE DEF q
<1>3. q # <<>> /\ Head(q) = r
  BY <1>2
<1>4. Tail(q) = t
  <2>1. Tail(q) \in Seq(Rules) /\ Len(Tail(q)) = Len(t)
    BY <1>2, <1>3
  <2>2. \A k \in 1..Len(t) : Tail(q)[k] = t[k]
    BY <1>2, <1>3
  <2>. QED  BY <2>1, <2>2, SeqEqual
<1>. QED  BY <1>2, <1>3, <1>4 DEF q

(* Rules are the first before the others. *)
LEMMA HeadAndRest ==
    ASSUME NEW rs \in Seq(Rules), rs # <<>>
    PROVE  rs = <<Head(rs)>> \o Tail(rs)
<1>. DEFINE q == <<Head(rs)>> \o Tail(rs)
<1>1. Head(rs) \in Rules /\ Tail(rs) \in Seq(Rules)
  BY RuleType
<1>2. /\ q \in Seq(Rules) /\ Len(q) = Len(Tail(rs)) + 1 /\ q[1] = Head(rs)
      /\ \A k \in 1..Len(Tail(rs)) : q[k + 1] = Tail(rs)[k]
  BY <1>1, RuleBefore
<1>. HIDE DEF q
<1>3. /\ Len(Tail(rs)) = Len(rs) - 1 /\ Head(rs) = rs[1] /\ Len(rs) \in Nat
      /\ \A k \in 1..Len(rs) - 1 : Tail(rs)[k] = rs[k + 1]
  OBVIOUS
<1>4. Len(q) = Len(rs)
  BY <1>2, <1>3
<1>5. ASSUME NEW k \in 1..Len(rs)
      PROVE  q[k] = rs[k]
  <2>1. CASE k = 1
    BY <1>2, <1>3, <2>1
  <2>2. CASE k # 1
    <3>1. k - 1 \in 1..Len(rs) - 1 /\ (k - 1) + 1 = k
      BY <1>3, <2>2
    <3>. QED  BY <1>2, <1>3, <3>1
  <2>. QED  BY <2>1, <2>2
<1>6. q = rs
  BY <1>2, <1>4, <1>5, SeqEqual
<1>. QED  BY <1>6 DEF q

(* What is behind the first elements of a sequence. *)
LEMMA BehindIs ==
    ASSUME NEW S, NEW p \in Seq(S), NEW j \in 1..Len(p) + 1
    PROVE  /\ Behind(p, j) \in Seq(S) /\ Len(Behind(p, j)) = Len(p) - j + 1
           /\ \A i \in 1..Len(p) - j + 1 : Behind(p, j)[i] = p[j + i - 1]
BY SubSeqProperties DEF Behind

LEMMA BehindFirst ==
    ASSUME NEW S, NEW q \in Seq(S), q # <<>>
    PROVE  /\ Behind(q, 1) = q /\ Behind(q, 2) = Tail(q)
           /\ \A j \in 1..Len(q) : Behind(Tail(q), j) = Behind(q, j + 1)
           /\ \A j \in 1..Len(q) + 1 : Behind(q, j) \in Seq(S)
<1>1. Len(q) \in Nat /\ Len(q) >= 1 /\ Tail(q) \in Seq(S) /\ Len(Tail(q)) = Len(q) - 1
  OBVIOUS
<1>2. \A k \in 1..Len(q) - 1 : Tail(q)[k] = q[k + 1]
  OBVIOUS
<1>3. \A j \in 1..Len(q) + 1 :
         /\ Behind(q, j) \in Seq(S) /\ Len(Behind(q, j)) = Len(q) - j + 1
         /\ \A i \in 1..Len(q) - j + 1 : Behind(q, j)[i] = q[j + i - 1]
  BY BehindIs
<1>4. Behind(q, 1) = q
  <2>1. /\ Behind(q, 1) \in Seq(S) /\ Len(Behind(q, 1)) = Len(q)
        /\ \A i \in 1..Len(q) : Behind(q, 1)[i] = q[i]
    <3>1. 1 \in 1..Len(q) + 1 /\ Len(q) - 1 + 1 = Len(q) /\ \A i \in 1..Len(q) : 1 + i - 1 = i
      BY <1>1
    <3>. QED  BY <1>3, <3>1
  <2>. QED  BY <2>1, SeqEqual
<1>5. Behind(q, 2) = Tail(q)
  <2>1. /\ Behind(q, 2) \in Seq(S) /\ Len(Behind(q, 2)) = Len(q) - 1
        /\ \A i \in 1..Len(q) - 1 : Behind(q, 2)[i] = q[i + 1]
    <3>1. /\ 2 \in 1..Len(q) + 1 /\ Len(q) - 2 + 1 = Len(q) - 1
          /\ \A i \in 1..Len(q) - 1 : 2 + i - 1 = i + 1
      BY <1>1
    <3>2. /\ Behind(q, 2) \in Seq(S) /\ Len(Behind(q, 2)) = Len(q) - 2 + 1
          /\ \A i \in 1..Len(q) - 2 + 1 : Behind(q, 2)[i] = q[2 + i - 1]
      BY <1>3, <3>1, Zenon
    <3>. QED  BY <3>1, <3>2
  <2>. QED  BY <1>1, <1>2, <2>1, SeqEqual
<1>6. ASSUME NEW j \in 1..Len(q)
      PROVE  Behind(Tail(q), j) = Behind(q, j + 1)
  <2>1. /\ Behind(Tail(q), j) \in Seq(S) /\ Len(Behind(Tail(q), j)) = Len(q) - j
        /\ \A i \in 1..Len(q) - j : Behind(Tail(q), j)[i] = Tail(q)[j + i - 1]
    <3>1. j \in 1..Len(Tail(q)) + 1 /\ Len(Tail(q)) - j + 1 = Len(q) - j
      BY <1>1
    <3>. QED  BY <1>1, <3>1, BehindIs
  <2>2. /\ Behind(q, j + 1) \in Seq(S) /\ Len(Behind(q, j + 1)) = Len(q) - j
        /\ \A i \in 1..Len(q) - j : Behind(q, j + 1)[i] = q[j + i]
    <3>1. j + 1 \in 1..Len(q) + 1 /\ Len(q) - (j + 1) + 1 = Len(q) - j
      BY <1>1
    <3>2. \A i \in 1..Len(q) - j : (j + 1) + i - 1 = j + i
      BY <1>1
    <3>3. /\ Behind(q, j + 1) \in Seq(S) /\ Len(Behind(q, j + 1)) = Len(q) - (j + 1) + 1
          /\ \A i \in 1..Len(q) - (j + 1) + 1 : Behind(q, j + 1)[i] = q[(j + 1) + i - 1]
      BY <1>3, <3>1
    <3>. QED  BY <3>1, <3>2, <3>3
  <2>3. \A i \in 1..Len(q) - j : Tail(q)[j + i - 1] = q[j + i]
    <3>. SUFFICES ASSUME NEW i \in 1..Len(q) - j
                  PROVE  Tail(q)[j + i - 1] = q[j + i]
      OBVIOUS
    <3>1. j + i - 1 \in 1..Len(q) - 1 /\ (j + i - 1) + 1 = j + i
      BY <1>1
    <3>. QED  BY <1>2, <3>1
  <2>. QED  BY <2>1, <2>2, <2>3, SeqEqual
<1>. QED  BY <1>3, <1>4, <1>5, <1>6

(* The place in its byte of each field of a rule with n bits behind it. *)
RuleInBytes(r, n) ==
    \A j \in DOMAIN r.fields : InByte(r.fields[j], (-(Sum[Behind(r.fields, j)] + n)) % 8)

(* Fields are at their places if those of the first rule are and the rest. *)
LEMMA InBytesBefore ==
    ASSUME NEW r \in Rules, NEW t \in Seq(Rules)
    PROVE  InBytes(<<r>> \o t) <=> RuleInBytes(r, Bits[t]) /\ InBytes(t)
<1>. DEFINE q == <<r>> \o t
<1>1. /\ q \in Seq(Rules) /\ q # <<>> /\ Head(q) = r /\ Tail(q) = t
      /\ Len(q) = Len(t) + 1 /\ q[1] = r
      /\ \A k \in 1..Len(t) : q[k + 1] = t[k]
  BY RuleBefore
<1>. HIDE DEF q
<1>2. Len(t) \in Nat /\ DOMAIN t = 1..Len(t) /\ DOMAIN q = 1..Len(t) + 1
  BY <1>1
<1>3. Behind(q, 1 + 1) = t /\ \A k \in 1..Len(t) : Behind(q, (k + 1) + 1) = Behind(t, k + 1)
  <2>1. /\ Behind(q, 2) = Tail(q)
        /\ \A j \in 1..Len(q) : Behind(Tail(q), j) = Behind(q, j + 1)
    BY <1>1, BehindFirst
  <2>2. \A k \in 1..Len(t) : k + 1 \in 1..Len(q)
    BY <1>1, <1>2
  <2>3. 1 + 1 = 2
    OBVIOUS
  <2>. QED  BY <1>1, <2>1, <2>2, <2>3
<1>. DEFINE ok(p, k) == RuleInBytes(p[k], Bits[Behind(p, k + 1)])
<1>4. ok(q, 1) <=> RuleInBytes(r, Bits[t])
  BY <1>1, <1>3
<1>5. \A k \in 1..Len(t) : ok(q, k + 1) <=> ok(t, k)
  BY <1>1, <1>3
<1>6. InBytes(q) <=> \A k \in 1..Len(t) + 1 : ok(q, k)
  BY <1>2, Zenon DEF InBytes, RuleInBytes
<1>7. InBytes(t) <=> \A k \in 1..Len(t) : ok(t, k)
  BY <1>2, Zenon DEF InBytes, RuleInBytes
<1>. HIDE DEF ok
<1>8. (\A k \in 1..Len(t) + 1 : ok(q, k)) <=> ok(q, 1) /\ \A k \in 1..Len(t) : ok(q, k + 1)
  <2>1. ASSUME ok(q, 1), \A k \in 1..Len(t) : ok(q, k + 1), NEW k \in 1..Len(t) + 1
        PROVE  ok(q, k)
    <3>1. CASE k = 1
      BY <2>1, <3>1
    <3>2. CASE k # 1
      <4>1. k - 1 \in 1..Len(t) /\ (k - 1) + 1 = k
        BY <1>2, <3>2
      <4>. QED  BY <2>1, <4>1
    <3>. QED  BY <3>1, <3>2
  <2>2. 1 \in 1..Len(t) + 1 /\ \A k \in 1..Len(t) : k + 1 \in 1..Len(t) + 1
    BY <1>2
  <2>. QED  BY <2>1, <2>2
<1>9. (\A k \in 1..Len(t) : ok(q, k + 1)) <=> \A k \in 1..Len(t) : ok(t, k)
  BY <1>5, Zenon
<1>. QED  BY <1>4, <1>6, <1>7, <1>8, <1>9 DEF q

(* The first of the rules without its first field. *)
FieldLess(rs) == <<[Head(rs) EXCEPT !.fields = Tail(@)]>> \o Tail(rs)

(* What is left of rules when their first field has been emitted. *)
LEMMA FieldTaken ==
    ASSUME NEW rs \in Seq(Rules), rs # <<>>, Head(rs).fields # <<>>
    PROVE  LET f == Head(Head(rs).fields)
           IN  /\ f \in Fields /\ Abstract!Wire(f) \in Seq(WireBits)
               /\ FieldLess(rs) \in Seq(Rules)
               /\ Tail(FieldLess(rs)) = Tail(rs)
               /\ FieldLess(rs) # <<>> /\ Head(FieldLess(rs)).stage = Head(rs).stage
               /\ Bits[rs] = f.bits + Bits[FieldLess(rs)]
               /\ Encoding[rs] = Abstract!Wire(f) \o Encoding[FieldLess(rs)]
               /\ PrefixBits[rs] <= f.bits + PrefixBits[FieldLess(rs)]
               /\ InBytes(rs) => InByte(f, (-Bits[rs]) % 8) /\ InBytes(FieldLess(rs))
<1>. DEFINE fs == Head(rs).fields
            f == Head(fs)
            r == [Head(rs) EXCEPT !.fields = Tail(fs)]
            t == Tail(rs)
<1>1. /\ Head(rs) \in Rules /\ t \in Seq(Rules) /\ fs \in Seq(Fields)
      /\ f.bits \in 1..64 /\ Tail(fs) \in Seq(Fields)
  BY RuleType
<1>2. f \in Fields /\ fs # <<>>
  BY <1>1, HeadTailProperties
<1>3. r \in Rules /\ r.stage = Head(rs).stage /\ r.fields = Tail(fs)
  BY <1>1 DEF Rules
<1>4. FieldLess(rs) = <<r>> \o t
  BY DEF FieldLess
<1>. HIDE DEF r
<1>5. /\ FieldLess(rs) \in Seq(Rules) /\ FieldLess(rs) # <<>>
      /\ Head(FieldLess(rs)) = r /\ Tail(FieldLess(rs)) = t
  BY <1>1, <1>3, <1>4, RuleBefore
<1>6. /\ Sum[fs] = f.bits + Sum[Tail(fs)] /\ Sum[Tail(fs)] \in Nat
      /\ Wires[fs] = Abstract!Wire(f) \o Wires[Tail(fs)] /\ Wires[Tail(fs)] \in Seq(WireBits)
  BY <1>1, <1>2, SumFacts, WiresFacts
<1>7. /\ Bits[rs] = Sum[fs] + Bits[t] /\ Bits[t] \in Nat
      /\ Bits[FieldLess(rs)] = Sum[Tail(fs)] + Bits[t]
  BY <1>1, <1>3, <1>5, BitsFacts
<1>8. /\ Encoding[rs] = Wires[fs] \o Encoding[t] /\ Encoding[t] \in Seq(WireBits)
      /\ Encoding[FieldLess(rs)] = Wires[Tail(fs)] \o Encoding[t]
  BY <1>1, <1>3, <1>5, EncodingFacts
<1>9. Abstract!Wire(f) \in Seq(WireBits)
  BY <1>2, WireType
<1>10. Encoding[rs] = Abstract!Wire(f) \o Encoding[FieldLess(rs)]
  <2>. DEFINE a == Abstract!Wire(f)
              b == Wires[Tail(fs)]
              d == Encoding[t]
  <2>1. a \in Seq(WireBits) /\ b \in Seq(WireBits) /\ d \in Seq(WireBits)
    BY <1>6, <1>8, <1>9
  <2>2. Encoding[rs] = (a \o b) \o d /\ Encoding[FieldLess(rs)] = b \o d
    BY <1>6, <1>8
  <2>. HIDE DEF a, b, d
  <2>3. (a \o b) \o d = a \o (b \o d)
    BY <2>1, ConcatAssociative
  <2>. QED  BY <2>2, <2>3 DEF a
<1>11. PrefixBits[rs] <= f.bits + PrefixBits[FieldLess(rs)]
  <2>. DEFINE c == Head(rs).stage \in {"prefix", "rex"}
  <2>1. /\ PrefixBits[rs] = (IF c THEN Sum[fs] ELSE 0) + PrefixBits[t]
        /\ PrefixBits[FieldLess(rs)] = (IF c THEN Sum[Tail(fs)] ELSE 0) + PrefixBits[t]
        /\ PrefixBits[t] \in Nat
    BY <1>1, <1>3, <1>5, PrefixBitsFacts
  <2>. DEFINE w == f.bits
              u == Sum[Tail(fs)]
              v == PrefixBits[t]
  <2>a. w \in 1..64 /\ u \in Nat /\ v \in Nat /\ Sum[fs] = w + u
    BY <1>1, <1>6, <2>1
  <2>. HIDE DEF w, u, v
  <2>2. CASE c
    <3>1. PrefixBits[rs] = (w + u) + v /\ PrefixBits[FieldLess(rs)] = u + v
      BY <2>1, <2>2, <2>a DEF u, v
    <3>2. PrefixBits[rs] <= w + PrefixBits[FieldLess(rs)]
      BY <2>a, <3>1
    <3>. QED  BY <3>2 DEF w
  <2>3. CASE ~c
    <3>1. PrefixBits[rs] = 0 + v /\ PrefixBits[FieldLess(rs)] = 0 + v
      BY <2>1, <2>3 DEF v
    <3>2. PrefixBits[rs] <= w + PrefixBits[FieldLess(rs)]
      BY <2>a, <3>1
    <3>. QED  BY <3>2 DEF w
  <2>. QED  BY <2>2, <2>3
<1>12. ASSUME InBytes(rs)
       PROVE  InByte(f, (-Bits[rs]) % 8) /\ InBytes(FieldLess(rs))
  <2>1. rs = <<Head(rs)>> \o t
    BY HeadAndRest
  <2>2. RuleInBytes(Head(rs), Bits[t]) /\ InBytes(t)
    BY <1>1, <1>12, <2>1, InBytesBefore
  <2>3. /\ Behind(fs, 1) = fs
        /\ \A j \in 1..Len(fs) : Behind(Tail(fs), j) = Behind(fs, j + 1)
    BY <1>1, <1>2, BehindFirst
  <2>4. /\ DOMAIN fs = 1..Len(fs) /\ DOMAIN Tail(fs) = 1..Len(fs) - 1 /\ Len(fs) \in Nat /\ Len(fs) >= 1
        /\ fs[1] = f /\ \A j \in 1..Len(fs) - 1 : Tail(fs)[j] = fs[j + 1]
    BY <1>1, <1>2
  <2>5. InByte(f, (-Bits[rs]) % 8)
    BY <1>7, <2>2, <2>3, <2>4 DEF RuleInBytes
  <2>6. RuleInBytes(r, Bits[t])
    <3>. SUFFICES ASSUME NEW j \in DOMAIN Tail(fs)
                  PROVE  InByte(Tail(fs)[j], (-(Sum[Behind(Tail(fs), j)] + Bits[t])) % 8)
      BY <1>3 DEF RuleInBytes
    <3>1. j + 1 \in DOMAIN fs /\ j \in 1..Len(fs) /\ j \in 1..Len(fs) - 1
      BY <2>4
    <3>2. InByte(fs[j + 1], (-(Sum[Behind(fs, j + 1)] + Bits[t])) % 8)
      BY <2>2, <3>1 DEF RuleInBytes
    <3>. QED  BY <2>3, <2>4, <3>1, <3>2
  <2>. QED  BY <1>1, <1>3, <1>4, <2>2, <2>5, <2>6, InBytesBefore
<1>13. Bits[rs] = f.bits + Bits[FieldLess(rs)]
  <2>. DEFINE w == f.bits
              u == Sum[Tail(fs)]
              v == Bits[t]
  <2>1. w \in 1..64 /\ u \in Nat /\ v \in Nat
    BY <1>1, <1>6, <1>7
  <2>2. Bits[rs] = (w + u) + v /\ Bits[FieldLess(rs)] = u + v
    BY <1>6, <1>7
  <2>. HIDE DEF w, u, v
  <2>3. Bits[rs] = w + Bits[FieldLess(rs)]
    BY <2>1, <2>2
  <2>. QED  BY <2>3 DEF w
<1>. QED  BY <1>2, <1>3, <1>5, <1>9, <1>10, <1>11, <1>12, <1>13

(* A rule at its end, and one whose fields are dropped. *)
LEMMA RuleEnded ==
    ASSUME NEW rs \in Seq(Rules), rs # <<>>, Head(rs).fields = <<>>
    PROVE  /\ Bits[Tail(rs)] = Bits[rs] /\ Encoding[Tail(rs)] = Encoding[rs]
           /\ PrefixBits[Tail(rs)] = PrefixBits[rs]
           /\ InBytes(rs) => InBytes(Tail(rs))
<1>. DEFINE t == Tail(rs)
<1>1. Head(rs) \in Rules /\ t \in Seq(Rules)
  BY RuleType
<1>2. Bits[rs] = 0 + Bits[t] /\ Bits[t] \in Nat
  BY <1>1, BitsFacts, SumFacts
<1>3. PrefixBits[rs] = 0 + PrefixBits[t] /\ PrefixBits[t] \in Nat
  <2>1. PrefixBits[rs] = (IF Head(rs).stage \in {"prefix", "rex"} THEN 0 ELSE 0) + PrefixBits[t]
    BY <1>1, PrefixBitsFacts, SumFacts
  <2>2. PrefixBits[t] \in Nat
    BY <1>1, PrefixBitsFacts
  <2>. QED  BY <2>1, <2>2
<1>4. Encoding[rs] = <<>> \o Encoding[t] /\ Encoding[t] \in Seq(WireBits)
  BY <1>1, EncodingFacts, WiresFacts
<1>5. InBytes(rs) => InBytes(t)
  <2>1. rs = <<Head(rs)>> \o t
    BY HeadAndRest
  <2>. QED  BY <1>1, <2>1, InBytesBefore
<1>. QED  BY <1>2, <1>3, <1>4, <1>5, ConcatEmptySeq

FieldsDropped(rs) == <<[Head(rs) EXCEPT !.fields = <<>>]>> \o Tail(rs)

(* What is left when the fields of the first rule are dropped. *)
LEMMA RuleDropped ==
    ASSUME NEW rs \in Seq(Rules), rs # <<>>
    PROVE  /\ FieldsDropped(rs) \in Seq(Rules) /\ FieldsDropped(rs) # <<>>
           /\ Tail(FieldsDropped(rs)) = Tail(rs)
           /\ Len(FieldsDropped(rs)) = Len(rs)
           /\ \A k \in 1..Len(rs) : FieldsDropped(rs)[k].stage = rs[k].stage
           /\ Bits[rs] = Sum[Head(rs).fields] + Bits[FieldsDropped(rs)]
           /\ InBytes(rs) => InBytes(FieldsDropped(rs))
<1>. DEFINE t == Tail(rs)
            r == [Head(rs) EXCEPT !.fields = <<>>]
<1>1. Head(rs) \in Rules /\ t \in Seq(Rules) /\ Head(rs).fields \in Seq(Fields)
  BY RuleType
<1>2. r \in Rules /\ r.fields = <<>> /\ r.stage = Head(rs).stage
  <2>1. <<>> \in Seq(Fields)
    OBVIOUS
  <2>. QED  BY <1>1, <2>1 DEF Rules
<1>. HIDE DEF r
<1>. DEFINE q == FieldsDropped(rs)
<1>3. q = <<r>> \o t
  BY DEF FieldsDropped, r
<1>. HIDE DEF q
<1>4. /\ q \in Seq(Rules) /\ q # <<>> /\ Head(q) = r /\ Tail(q) = t
      /\ Len(q) = Len(t) + 1 /\ q[1] = r
      /\ \A k \in 1..Len(t) : q[k + 1] = t[k]
  BY <1>1, <1>2, <1>3, RuleBefore
<1>5. /\ Len(t) = Len(rs) - 1 /\ Head(rs) = rs[1] /\ Len(rs) \in Nat
      /\ \A k \in 1..Len(rs) - 1 : t[k] = rs[k + 1]
  OBVIOUS
<1>6. ASSUME NEW k \in 1..Len(rs)
      PROVE  q[k].stage = rs[k].stage
  <2>1. CASE k = 1
    BY <1>2, <1>4, <1>5, <2>1
  <2>2. CASE k # 1
    <3>1. k - 1 \in 1..Len(rs) - 1 /\ (k - 1) + 1 = k
      BY <1>5, <2>2
    <3>. QED  BY <1>4, <1>5, <3>1
  <2>. QED  BY <2>1, <2>2
<1>7. Bits[rs] = Sum[Head(rs).fields] + Bits[q]
  <2>1. Bits[rs] = Sum[Head(rs).fields] + Bits[t] /\ Bits[t] \in Nat /\ Sum[Head(rs).fields] \in Nat
    BY <1>1, BitsFacts, SumFacts
  <2>2. Bits[q] = 0 + Bits[t]
    <3>1. Bits[q] = Sum[Head(q).fields] + Bits[Tail(q)]
      BY <1>4, BitsFacts
    <3>. QED  BY <1>2, <1>4, <3>1, SumFacts
  <2>. QED  BY <2>1, <2>2
<1>8. ASSUME InBytes(rs)
      PROVE  InBytes(q)
  <2>1. rs = <<Head(rs)>> \o t
    BY HeadAndRest
  <2>2. InBytes(t)
    BY <1>1, <1>8, <2>1, InBytesBefore
  <2>3. RuleInBytes(r, Bits[t])
    BY <1>2 DEF RuleInBytes
  <2>. QED  BY <1>1, <1>2, <1>3, <2>2, <2>3, InBytesBefore
<1>9. Len(q) = Len(rs)
  BY <1>4, <1>5
<1>. QED  BY <1>4, <1>6, <1>7, <1>8, <1>9 DEF q

(* Of rules of whole bytes the others are too. *)
LEMMA WholeTail ==
    ASSUME NEW rs \in Seq(Rules), WholeRules(rs), rs # <<>>
    PROVE  /\ WholeRules(Tail(rs))
           /\ Head(rs).stage \in {"prefix", "rex", "instruction"} \/ Sum[Head(rs).fields] % 8 = 0
<1>1. /\ Head(rs) = rs[1] /\ 1 \in DOMAIN rs
      /\ \A i \in DOMAIN Tail(rs) : i + 1 \in DOMAIN rs /\ Tail(rs)[i] = rs[i + 1]
  BY HeadAndTail
<1>. QED  BY <1>1 DEF WholeRules

(* The first attempt of an answer, and the others. *)
LEMMA EmitsBytesTail ==
    ASSUME NEW as \in Seq(Attempts), EmitsBytes(as), as # <<>>
    PROVE  /\ EmitsBytes(Tail(as))
           /\ Head(as).outcome = "bound" =>
                 /\ Bits[Head(as).rules] % 8 = 0
                 /\ InBytes(Head(as).rules) /\ WholeRules(Head(as).rules)
<1>1. /\ Head(as) = as[1] /\ 1 \in DOMAIN as
      /\ \A i \in DOMAIN Tail(as) : i + 1 \in DOMAIN as /\ Tail(as)[i] = as[i + 1]
  BY HeadAndTail
<1>. QED  BY <1>1 DEF EmitsBytes

-----------------------------------------------------------------------------
(* Encodings are made of bytes: what has been emitted and what is left     *)
(* make up whole bytes, unless the array is full and nothing more goes in. *)
ByteInv ==
    /\ pc = "bind" => EmitsBytes(attempts) /\ bit_offset = 0
    /\ pc \in {"emit", "loop"} =>
          /\ bit_offset = 8 * ilen \/ (bit_offset + Bits[rules]) % 8 = 0
          /\ InBytes(rules)
          /\ rules # <<>> => WholeRules(Tail(rules))

(* A field that is refused is one of bytes, or there is no room at all. *)
LEMMA RefusedField ==
    ASSUME NEW f \in Fields, NEW n \in Nat, NEW b \in 0..8 * n, NEW total \in Nat,
           (b + total) % 8 = 0, InByte(f, (-total) % 8), b + f.bits > 8 * n
    PROVE  b = 8 * n \/ f.bits % 8 = 0
<1>. DEFINE w == f.bits
<1>1. w \in 1..64 /\ b + w > 8 * n
  BY EncodeConstants DEF EncodeConstants
<1>2. CASE f.whole \/ w % 8 = 0
  <2>1. w \in {8, 16, 32, 64}
    BY <1>2 DEF InByte
  <2>. HIDE DEF w
  <2>2. w % 8 = 0
    BY <2>1
  <2>. QED  BY <2>2 DEF w
<1>3. CASE ~(f.whole \/ w % 8 = 0)
  <2>1. ((-total) % 8) + w <= 8
    BY <1>3 DEF InByte
  <2>. HIDE DEF w
  <2>2. (-total) % 8 = b % 8
    OBVIOUS
  <2>3. b = 8 * n
    BY <1>1, <2>1, <2>2
  <2>. QED  BY <2>3
<1>. QED  BY <1>2, <1>3

(* Emitted or refused, a field leaves whole bytes. *)
LEMMA PlacesKept ==
    ASSUME NEW f \in Fields, NEW b \in Nat, NEW total \in Nat, NEW rest \in Nat,
           total = f.bits + rest, (b + total) % 8 = 0
    PROVE  /\ ((b + f.bits) + rest) % 8 = 0
           /\ f.bits % 8 = 0 => (b + rest) % 8 = 0
<1>. DEFINE w == f.bits
<1>1. w \in 1..64 /\ total = w + rest
  BY EncodeConstants DEF EncodeConstants
<1>. HIDE DEF w
<1>2. ((b + w) + rest) % 8 = 0 /\ (w % 8 = 0 => (b + rest) % 8 = 0)
  BY <1>1
<1>. QED  BY <1>2 DEF w

(* The places of the fields, action by action. *)
LEMMA ByteInit == Init => ByteInv
BY DEF Init, ByteInv

LEMMA ByteStep ==
    ASSUME EncodeInv, BindEmitsBytes, ByteInv, Next
    PROVE  ByteInv'
<1>0. rules \in Seq(Rules) /\ attempts \in Seq(Attempts) /\ IsAnswer(attempts)
  BY DEF EncodeInv, PlanType, IsAnswer
<1>1. CASE Client
  <2>1. CASE \E n \in ILens : Encode(n)
    <3>1. PICK n \in ILens : Encode(n)
      BY <2>1
    <3>2. IsRequest(operands')
      BY <3>1, PreconditionIsRequest DEF Encode, EncodeInv, RequestType
    <3>3. pc' = "bind" /\ bit_offset' = 0 /\ attempts' = Bind(operands')
      BY <3>1 DEF Encode
    <3>. QED  BY <3>2, <3>3 DEF ByteInv, BindEmitsBytes
  <2>2. CASE ~\E n \in ILens : Encode(n)
    <3>1. pc' = "client"
      BY <1>1, <2>2 DEF Client, NewRequest, Refill, EncodeNop, EncodeRefuses, Idle
    <3>. QED  BY <3>1 DEF ByteInv
  <2>. QED  BY <2>1, <2>2
<1>2. CASE Try
  <2>1. pc = "bind" /\ pc' = "bind" /\ attempts # <<>> /\ attempts' = Tail(attempts) /\ bit_offset' = bit_offset
    BY <1>2 DEF Try
  <2>. QED  BY <1>0, <2>1, EmitsBytesTail DEF ByteInv
<1>3. CASE Choose
  <2>1. /\ pc = "bind" /\ pc' = "emit" /\ attempts # <<>> /\ Head(attempts).outcome = "bound"
        /\ rules' = Head(attempts).rules /\ bit_offset' = bit_offset
    BY <1>3 DEF Choose, request
  <2>2. bit_offset = 0 /\ EmitsBytes(attempts) /\ rules' \in Seq(Rules)
    BY <1>0, <2>1, AnswerType DEF ByteInv
  <2>3. Bits[rules'] % 8 = 0 /\ InBytes(rules') /\ WholeRules(rules')
    BY <1>0, <2>1, <2>2, EmitsBytesTail
  <2>4. rules' # <<>> => WholeRules(Tail(rules'))
    BY <2>2, <2>3, WholeTail
  <2>5. (bit_offset' + Bits[rules']) % 8 = 0
    <3>1. Bits[rules'] \in Nat
      BY <2>2, BitsFacts
    <3>. QED  BY <2>1, <2>2, <2>3, <3>1
  <2>. QED  BY <2>1, <2>3, <2>4, <2>5 DEF ByteInv
<1>4. CASE BindFails \/ RuleFails \/ EncodeReturns
  <2>1. pc' = "client"
    BY <1>4 DEF BindFails, RuleFails, Fail, EncodeReturns
  <2>. QED  BY <2>1 DEF ByteInv
<1>5. CASE EmitTooShort \/ EmitBytes \/ EmitBitsEnd
  <2>1. /\ rules # <<>> /\ Head(rules).fields # <<>> /\ Field.bits \in 1..64
        /\ ilen \in Nat /\ bit_offset \in 0..8 * ilen
    BY <1>5, FieldType DEF EmitTooShort, EmitBytes, EmitBitsEnd
  <2>2. /\ pc \in {"emit", "loop"} /\ pc' = "emit" /\ ilen' = ilen /\ rules' = FieldLess(rules)
    BY <1>5 DEF EmitTooShort, EmitBytes, EmitBitsEnd, Emitting, NextField, FieldLess
  <2>3. /\ Field \in Fields /\ Bits[rules] = Field.bits + Bits[rules']
        /\ rules' \in Seq(Rules) /\ rules' # <<>> /\ Tail(rules') = Tail(rules)
        /\ InBytes(rules) => InByte(Field, (-Bits[rules]) % 8) /\ InBytes(rules')
    BY <1>0, <2>1, <2>2, FieldTaken DEF Field
  <2>4. Bits[rules] \in Nat /\ Bits[rules'] \in Nat
    BY <1>0, <2>3, BitsFacts
  <2>5. InBytes(rules') /\ InByte(Field, (-Bits[rules]) % 8) /\ WholeRules(Tail(rules'))
    BY <2>1, <2>2, <2>3 DEF ByteInv
  <2>6. bit_offset' = 8 * ilen \/ (bit_offset' + Bits[rules']) % 8 = 0
    <3>1. bit_offset = 8 * ilen \/ (bit_offset + Bits[rules]) % 8 = 0
      BY <2>2 DEF ByteInv
    <3>2. CASE EmitTooShort
      <4>1. bit_offset' = bit_offset /\ bit_offset + Field.bits > 8 * ilen
        BY <3>2 DEF EmitTooShort, TooShort
      <4>2. CASE bit_offset = 8 * ilen
        BY <4>1, <4>2
      <4>3. CASE bit_offset # 8 * ilen
        <5>1. Field.bits % 8 = 0
          BY <2>1, <2>3, <2>4, <2>5, <3>1, <4>1, <4>3, RefusedField
        <5>2. (bit_offset + Bits[rules']) % 8 = 0
          BY <2>1, <2>3, <2>4, <3>1, <4>3, <5>1, PlacesKept
        <5>. QED  BY <4>1, <5>2
      <4>. QED  BY <4>2, <4>3
    <3>3. CASE EmitBytes \/ EmitBitsEnd
      <4>1. bit_offset' = bit_offset + Field.bits
        BY <3>3 DEF EmitBytes, EmitBitsEnd
      <4>2. ~(bit_offset + Field.bits > 8 * ilen)
        <5>1. CASE EmitBytes
          BY <5>1 DEF EmitBytes, TooShort
        <5>2. CASE EmitBitsEnd
          <6>. DEFINE w == Field.bits
          <6>1. bit_offset + w <= 8 * ilen
            BY <5>2 DEF EmitBitsEnd, EncodeInv, LoopRoom
          <6>2. w \in 1..64
            BY <2>1
          <6>. HIDE DEF w
          <6>3. ~(bit_offset + w > 8 * ilen)
            BY <2>1, <6>1, <6>2
          <6>. QED  BY <6>3 DEF w
        <5>. QED  BY <3>3, <5>1, <5>2
      <4>3. bit_offset # 8 * ilen
        <5>. DEFINE w == Field.bits
        <5>1. w \in 1..64 /\ ~(bit_offset + w > 8 * ilen)
          BY <2>1, <4>2
        <5>. HIDE DEF w
        <5>. QED  BY <2>1, <5>1
      <4>4. ((bit_offset + Field.bits) + Bits[rules']) % 8 = 0
        BY <2>1, <2>3, <2>4, <3>1, <4>3, PlacesKept
      <4>. QED  BY <4>1, <4>4
    <3>. QED  BY <1>5, <3>2, <3>3
  <2>. QED  BY <2>2, <2>5, <2>6 DEF ByteInv
<1>6. CASE EmitBits \/ EmitChunk
  <2>1. /\ pc \in {"emit", "loop"} /\ pc' # "bind" /\ UNCHANGED <<bit_offset, ilen, rules>>
    BY <1>6 DEF EmitBits, EmitChunk, Emitting, request
  <2>. QED  BY <2>1 DEF ByteInv
<1>7. CASE RuleDone
  <2>1. /\ pc = "emit" /\ pc' = "emit" /\ rules # <<>> /\ Head(rules).fields = <<>>
        /\ UNCHANGED <<bit_offset, ilen>>
    BY <1>7 DEF RuleDone, RuleEnds, request
  <2>2. /\ Bits[Tail(rules)] = Bits[rules] /\ InBytes(Tail(rules)) /\ Tail(rules) \in Seq(Rules)
        /\ WholeRules(Tail(rules))
        /\ bit_offset = 8 * ilen \/ (bit_offset + Bits[rules]) % 8 = 0
        /\ bit_offset \in Nat
    BY <1>0, <2>1, RuleEnded, RuleType DEF ByteInv, EncodeInv, RunType
  <2>3. Tail(rules) # <<>> => WholeRules(Tail(Tail(rules)))
    BY <2>2, WholeTail
  <2>4. CASE rules' = Tail(rules)
    BY <2>1, <2>2, <2>3, <2>4 DEF ByteInv
  <2>5. CASE rules' # Tail(rules)
    <3>. DEFINE t == Tail(rules)
    <3>1. operands.error # "NONE" /\ rules' = SkipNonterminal(t)
      BY <1>7, <2>5 DEF RuleDone
    <3>2. ~Checked(Stage)
      BY <1>7, <3>1 DEF RuleDone
    <3>3. /\ t # <<>> /\ Head(t).stage = Stage /\ Stage # "instruction"
          /\ rules' = FieldsDropped(t)
      BY <2>5, <3>1 DEF SkipNonterminal, FieldsDropped
    <3>4. Sum[Head(t).fields] % 8 = 0
      <4>1. Head(t).stage \notin {"prefix", "rex", "instruction"}
        BY <3>2, <3>3 DEF Checked
      <4>. QED  BY <2>2, <3>3, <4>1, WholeTail
    <3>5. /\ Tail(rules') = Tail(t) /\ Bits[t] = Sum[Head(t).fields] + Bits[rules']
          /\ InBytes(rules') /\ rules' \in Seq(Rules)
      BY <2>2, <3>3, RuleDropped
    <3>6. bit_offset = 8 * ilen \/ (bit_offset + Bits[rules']) % 8 = 0
      <4>1. Bits[rules'] \in Nat /\ Sum[Head(t).fields] \in Nat
        BY <2>2, <3>3, <3>5, BitsFacts, SumFacts, RuleType
      <4>. DEFINE x == Bits[rules']
                  y == Sum[Head(t).fields]
                  z == Bits[rules]
      <4>2. x \in Nat /\ y \in Nat /\ y % 8 = 0 /\ z = y + x
        BY <2>2, <3>4, <3>5, <4>1
      <4>3. bit_offset = 8 * ilen \/ (bit_offset + z) % 8 = 0
        BY <2>2
      <4>. HIDE DEF x, y, z
      <4>4. bit_offset = 8 * ilen \/ (bit_offset + x) % 8 = 0
        BY <2>2, <4>2, <4>3
      <4>. QED  BY <4>4 DEF x
    <3>. QED  BY <2>1, <2>3, <3>3, <3>5, <3>6 DEF ByteInv
  <2>. QED  BY <2>4, <2>5
<1>. QED  BY <1>1, <1>2, <1>3, <1>4, <1>5, <1>6, <1>7 DEF Next, Step

(* What the code asserts follows from the places of the fields. *)
LEMMA BytesMeanAssertions == EncodeInv /\ ByteInv => AssertionsHold
<1>. SUFFICES ASSUME EncodeInv, ByteInv
              PROVE  AssertionsHold
  OBVIOUS
<1>0. rules \in Seq(Rules) /\ ilen \in Nat /\ bit_offset \in 0..8 * ilen
  BY DEF EncodeInv, PlanType, RunType
<1>1. ASSUME Emitting, ~TooShort(Field)
      PROVE  /\ Field.whole \/ Field.bits % 8 = 0 =>
                   bit_offset % 8 = 0 /\ Field.bits % 8 = 0 /\ Field.bits \in {8, 16, 32, 64}
             /\ Field.bits \in 1..64
  <2>1. rules # <<>> /\ Head(rules).fields # <<>> /\ Field.bits \in 1..64
    BY <1>1, FieldType
  <2>2. (bit_offset = 8 * ilen \/ (bit_offset + Bits[rules]) % 8 = 0) /\ InBytes(rules)
    BY <1>1 DEF Emitting, ByteInv
  <2>3. InByte(Field, (-Bits[rules]) % 8) /\ Bits[rules] \in Nat
    BY <1>0, <2>1, <2>2, FieldTaken, BitsFacts DEF Field
  <2>4. bit_offset # 8 * ilen
    <3>. DEFINE w == Field.bits
    <3>1. w \in 1..64 /\ ~(bit_offset + w > 8 * ilen)
      BY <1>1, <2>1 DEF TooShort
    <3>. HIDE DEF w
    <3>. QED  BY <1>0, <3>1
  <2>5. (-Bits[rules]) % 8 = bit_offset % 8
    BY <1>0, <2>2, <2>3, <2>4, SMTT(30)
  <2>6. ASSUME Field.whole \/ Field.bits % 8 = 0
        PROVE  bit_offset % 8 = 0 /\ Field.bits % 8 = 0 /\ Field.bits \in {8, 16, 32, 64}
    <3>1. bit_offset % 8 = 0 /\ Field.bits \in {8, 16, 32, 64}
      BY <2>3, <2>5, <2>6 DEF InByte
    <3>. DEFINE w == Field.bits
    <3>2. w \in {8, 16, 32, 64}
      BY <3>1
    <3>. HIDE DEF w
    <3>3. w % 8 = 0
      BY <3>2
    <3>. QED  BY <3>1, <3>3 DEF w
  <2>. QED  BY <2>1, <2>6
<1>2. FieldsAtBytes
  BY <1>1 DEF FieldsAtBytes
<1>3. Emitting /\ ~TooShort(Field) /\ Aligned(Field) => Field.bits \in {8, 16, 32, 64}
  BY <1>1 DEF Aligned
<1>4. ASSUME pc = "emit", rules = <<>>
      PROVE  bit_offset % 8 = 0 /\ 8 * ilen >= bit_offset
  <2>1. bit_offset = 8 * ilen \/ (bit_offset + 0) % 8 = 0
    BY <1>4, BitsFacts DEF ByteInv
  <2>. QED  BY <1>0, <2>1
<1>. QED  BY <1>2, <1>3, <1>4 DEF AssertionsHold

(* Whatever fields were refused, those that are emitted start at the place *)
(* in a byte that they have in the encoding: the invariant on which the    *)
(* assertions of the encoder rest.                                         *)
THEOREM EncodingsAreBytes ==
    ASSUME BindAnswers, BindEmitsBytes
    PROVE  Spec => []ByteInv
<1>1. EncodeInv /\ ByteInv /\ [Next]_vars => ByteInv'
  <2>1. ASSUME ByteInv, UNCHANGED vars
        PROVE  ByteInv'
    BY <2>1 DEF ByteInv, vars, request
  <2>. QED  BY <2>1, ByteStep
<1>. QED  BY <1>1, ByteInit, EncodeInvariant, PTL DEF Spec

(* No assertion of the encoder fails, for all encodings made of bytes and  *)
(* arrays of every length: xed_encoder_request_emit_bytes starts at bytes  *)
(* and has a store of the size, the loop is never given several bytes, and *)
(* xed_encode ends at a byte within the array.                             *)
THEOREM EncoderAssertions ==
    ASSUME BindAnswers, BindEmitsBytes
    PROVE  Spec => []AssertionsHold
BY BytesMeanAssertions, EncodeInvariant, EncodingsAreBytes, PTL

(* So the emitter implements the string of bits with nothing assumed of    *)
(* the run: for all encodings that are made of bytes.                      *)
THEOREM EncoderImplementsString ==
    ASSUME BindAnswers, BindEmitsBytes
    PROVE  Spec => EmitsABitString
<1>1. AssertionsHold => FieldsAtBytes
  BY DEF AssertionsHold
<1>. QED  BY <1>1, EncoderAssertions, EmitterImplementsString, PTL

-----------------------------------------------------------------------------
(* What has been emitted, with what is left, is the encoding that was      *)
(* chosen, as long as no field was refused.  Once one was, the encoding    *)
(* does not fit, and if not even its prefixes do, there is a rule left     *)
(* that asks for the error.                                                *)
HasChecked(rs) == \E k \in DOMAIN rs : Checked(rs[k].stage)
Emitted == StringOf(array, bit_offset)

BindInv ==
    pc = "bind" =>
       /\ chosen = <<>> /\ ErrorIsLast(attempts) /\ bit_offset = 0
       /\ opened.error = "NONE" /\ operands.error # "NONE" =>
             \A i \in DOMAIN attempts : attempts[i].outcome # "bound"

WholeSoFar ==
    pc \in {"emit", "loop"} /\ operands.error = "NONE" =>
       /\ bit_offset + Bits[rules] = Bits[chosen]
       /\ Emitted \o Encoding[rules] = Encoding[chosen]
       /\ bit_offset + PrefixBits[rules] >= PrefixBits[chosen]

RefusedOnlyWhenShort ==
    pc \in {"emit", "loop"} /\ opened.error = "NONE" /\ operands.error # "NONE" =>
       /\ operands.error = "BUFFER_TOO_SHORT"
       /\ Bits[chosen] > 8 * ilen
       /\ PrefixBits[chosen] > 8 * ilen => HasChecked(rules)

RoomInv ==
    /\ chosen \in Seq(Rules)
    /\ BindInv /\ WholeSoFar /\ RefusedOnlyWhenShort

(* Where there are bits of the first two stages there is such a rule. *)
LEMMA CheckedRule ==
    ASSUME NEW rs \in Seq(Rules), PrefixBits[rs] > 0
    PROVE  HasChecked(rs)
<1>. DEFINE P == {q \in Seq(Rules) : PrefixBits[q] > 0 => HasChecked(q)}
<1>1. <<>> \in P
  BY PrefixBitsFacts
<1>2. ASSUME NEW q \in Seq(Rules), q # <<>>, Tail(q) \in P
      PROVE  q \in P
  <2>1. /\ Head(q) = q[1] /\ 1 \in DOMAIN q
        /\ \A i \in DOMAIN Tail(q) : i + 1 \in DOMAIN q /\ Tail(q)[i] = q[i + 1]
    BY <1>2, HeadAndTail
  <2>2. CASE Checked(Head(q).stage)
    BY <2>1, <2>2 DEF HasChecked
  <2>3. CASE ~Checked(Head(q).stage)
    <3>1. PrefixBits[q] = 0 + PrefixBits[Tail(q)] /\ PrefixBits[Tail(q)] \in Nat
      <4>1. Head(q).stage \notin {"prefix", "rex"} /\ Tail(q) \in Seq(Rules)
        BY <1>2, <2>3 DEF Checked
      <4>. QED  BY <1>2, <4>1, PrefixBitsFacts
    <3>2. PrefixBits[q] = PrefixBits[Tail(q)]
      BY <3>1
    <3>3. HasChecked(Tail(q)) => HasChecked(q)
      BY <2>1 DEF HasChecked
    <3>. QED  BY <1>2, <3>2, <3>3
  <2>. QED  BY <2>2, <2>3
<1>. HIDE DEF P
<1>3. rs \in P
  BY <1>1, <1>2, AllSequences
<1>. QED  BY <1>3 DEF P

(* A rule asks for the error if the first does or one behind it. *)
LEMMA CheckedFirst ==
    ASSUME NEW rs \in Seq(Rules), rs # <<>>
    PROVE  HasChecked(rs) <=> Checked(Head(rs).stage) \/ HasChecked(Tail(rs))
<1>1. /\ Head(rs) = rs[1] /\ 1 \in DOMAIN rs /\ Len(rs) \in Nat
      /\ DOMAIN rs = 1..Len(rs) /\ DOMAIN Tail(rs) = 1..Len(rs) - 1
      /\ \A i \in DOMAIN Tail(rs) : i + 1 \in DOMAIN rs /\ Tail(rs)[i] = rs[i + 1]
  BY HeadAndTail
<1>2. ASSUME NEW k \in DOMAIN rs, Checked(rs[k].stage), ~Checked(Head(rs).stage)
      PROVE  HasChecked(Tail(rs))
  <2>1. k # 1
    BY <1>1, <1>2
  <2>2. k - 1 \in DOMAIN Tail(rs) /\ (k - 1) + 1 = k
    BY <1>1, <2>1
  <2>. QED  BY <1>1, <1>2, <2>2 DEF HasChecked
<1>. QED  BY <1>1, <1>2 DEF HasChecked

(* The stages of the rules stay when fields are emitted or dropped. *)
LEMMA CheckedKept ==
    ASSUME NEW rs \in Seq(Rules), rs # <<>>
    PROVE  /\ Head(rs).fields # <<>> => (HasChecked(FieldLess(rs)) <=> HasChecked(rs))
           /\ HasChecked(FieldsDropped(rs)) <=> HasChecked(rs)
<1>1. HasChecked(FieldsDropped(rs)) <=> HasChecked(rs)
  <2>1. DOMAIN FieldsDropped(rs) = DOMAIN rs /\ DOMAIN rs = 1..Len(rs)
    BY RuleDropped
  <2>2. \A k \in DOMAIN rs : FieldsDropped(rs)[k].stage = rs[k].stage
    BY <2>1, RuleDropped
  <2>. QED  BY <2>1, <2>2 DEF HasChecked
<1>2. ASSUME Head(rs).fields # <<>>
      PROVE  HasChecked(FieldLess(rs)) <=> HasChecked(rs)
  <2>1. /\ FieldLess(rs) \in Seq(Rules) /\ FieldLess(rs) # <<>>
        /\ Head(FieldLess(rs)).stage = Head(rs).stage /\ Tail(FieldLess(rs)) = Tail(rs)
    BY <1>2, FieldTaken
  <2>. QED  BY <2>1, CheckedFirst
<1>. QED  BY <1>1, <1>2

(* The invariant, action by action. *)
LEMMA RoomInit == Init => RoomInv
<1>1. <<>> \in Seq(Rules)
  OBVIOUS
<1>. QED  BY <1>1 DEF Init, RoomInv, BindInv, WholeSoFar, RefusedOnlyWhenShort

(* What the array holds of an encoding is a sequence. *)
LEMMA EmittedType ==
    ASSUME NEW n \in Nat, NEW a
    PROVE  \E S : WireBits \subseteq S /\ StringOf(a, n) \in Seq(S)
<1>. DEFINE S == WireBits \cup {StringOf(a, n)[p] : p \in 1..n}
<1>1. StringOf(a, n) \in [1..n -> S]
  BY DEF StringOf
<1>2. StringOf(a, n) \in Seq(S)
  <2>. HIDE DEF S
  <2>. QED  BY <1>1, IsSequence
<1>. QED  BY <1>2

(* Nothing before a string, and a string between two. *)
LEMMA EmittedConcat ==
    ASSUME NEW n \in Nat, NEW a, NEW w \in Seq(WireBits), NEW e \in Seq(WireBits)
    PROVE  /\ (StringOf(a, n) \o w) \o e = StringOf(a, n) \o (w \o e)
           /\ StringOf(a, n) \o <<>> = StringOf(a, n)
           /\ StringOf(a, 0) \o e = e
<1>1. PICK S : WireBits \subseteq S /\ StringOf(a, n) \in Seq(S)
  BY EmittedType
<1>2. w \in Seq(S) /\ e \in Seq(S)
  BY <1>1
<1>3. StringOf(a, 0) = <<>>
  BY DEF StringOf
<1>. QED  BY <1>1, <1>2, <1>3, ConcatAssociative, ConcatEmptySeq

(* What the proofs of the steps use of the invariants. *)
LEMMA EmitFacts ==
    ASSUME EncodeInv, RoomInv
    PROVE  /\ rules \in Seq(Rules) /\ attempts \in Seq(Attempts) /\ IsAnswer(attempts)
           /\ ilen \in Nat /\ bit_offset \in 0..8 * ilen
           /\ Bits[rules] \in Nat /\ PrefixBits[rules] \in Nat
           /\ Encoding[rules] \in Seq(WireBits)
           /\ Bits[chosen] \in Nat /\ PrefixBits[chosen] \in Nat
<1>1. /\ rules \in Seq(Rules) /\ attempts \in Seq(Attempts) /\ IsAnswer(attempts)
      /\ ilen \in Nat /\ bit_offset \in 0..8 * ilen /\ chosen \in Seq(Rules)
  BY DEF EncodeInv, PlanType, RunType, IsAnswer, RoomInv
<1>. QED  BY <1>1, BitsFacts, PrefixBitsFacts, EncodingFacts

(* The calls. *)
LEMMA RoomClient ==
    ASSUME EncodeInv, RoomInv, BindErrorIsLast, Client
    PROVE  RoomInv'
<1>0. <<>> \in Seq(Rules)
  OBVIOUS
<1>1. CASE \E n \in ILens : Encode(n)
  <2>1. PICK n \in ILens : Encode(n)
    BY <1>1
  <2>2. IsRequest(operands') /\ operands'.error = opened'.error
    BY <2>1, PreconditionIsRequest DEF Encode, EncodeInv, RequestType
  <2>3. /\ pc' = "bind" /\ bit_offset' = 0 /\ attempts' = Bind(operands') /\ chosen' = <<>>
    BY <2>1 DEF Encode
  <2>. QED  BY <1>0, <2>2, <2>3 DEF RoomInv, BindInv, WholeSoFar, RefusedOnlyWhenShort, BindErrorIsLast
<1>2. CASE ~\E n \in ILens : Encode(n)
  <2>1. pc' = "client" /\ (chosen' = chosen \/ chosen' = <<>>)
    BY <1>2 DEF Client, NewRequest, Refill, EncodeNop, EncodeRefuses, Idle, history
  <2>. QED  BY <1>0, <2>1 DEF RoomInv, BindInv, WholeSoFar, RefusedOnlyWhenShort
<1>. QED  BY <1>1, <1>2

(* After an attempt that failed with an error none binds. *)
LEMMA ErrorIsLastTail ==
    ASSUME NEW as \in Seq(Attempts), ErrorIsLast(as), as # <<>>
    PROVE  /\ ErrorIsLast(Tail(as))
           /\ Head(as).outcome = "next" /\ Head(as).error =>
                 \A i \in DOMAIN Tail(as) : Tail(as)[i].outcome # "bound"
<1>0. /\ Head(as) = as[1] /\ 1 \in DOMAIN as /\ Tail(as) \in Seq(Attempts)
      /\ \A i \in DOMAIN Tail(as) : i + 1 \in DOMAIN as /\ Tail(as)[i] = as[i + 1]
  BY HeadAndTail
<1>1. DOMAIN Tail(as) \subseteq Nat \ {0}
  <2>. DEFINE t == Tail(as)
  <2>1. t \in Seq(Attempts)
    BY <1>0
  <2>. HIDE DEF t
  <2>2. DOMAIN t = 1..Len(t) /\ Len(t) \in Nat
    BY <2>1
  <2>3. DOMAIN t \subseteq Nat \ {0}
    BY <2>2
  <2>. QED  BY <2>3 DEF t
<1>2. ErrorIsLast(Tail(as))
  <2>. SUFFICES ASSUME NEW i \in DOMAIN Tail(as), NEW j \in DOMAIN Tail(as), i < j,
                       Tail(as)[i].outcome = "next", Tail(as)[i].error
                PROVE  Tail(as)[j].outcome # "bound"
    BY DEF ErrorIsLast
  <2>1. i + 1 < j + 1
    BY <1>1
  <2>. QED  BY <1>0, <2>1 DEF ErrorIsLast
<1>3. ASSUME Head(as).outcome = "next", Head(as).error, NEW i \in DOMAIN Tail(as)
      PROVE  Tail(as)[i].outcome # "bound"
  <2>1. 1 < i + 1
    BY <1>1
  <2>. QED  BY <1>0, <1>3, <2>1 DEF ErrorIsLast
<1>. QED  BY <1>2, <1>3

(* The attempts. *)
LEMMA RoomBind ==
    ASSUME EncodeInv, RoomInv, Try \/ Choose \/ BindFails
    PROVE  RoomInv'
<1>0. rules \in Seq(Rules) /\ attempts \in Seq(Attempts) /\ IsAnswer(attempts)
  BY EmitFacts
<1>1. CASE Try
  <2>1. /\ pc = "bind" /\ pc' = "bind" /\ attempts # <<>> /\ attempts' = Tail(attempts)
        /\ Head(attempts).outcome = "next" /\ UNCHANGED <<chosen, opened, bit_offset>>
    BY <1>1 DEF Try, history
  <2>2. chosen = <<>> /\ ErrorIsLast(attempts) /\ bit_offset = 0
    BY <2>1 DEF RoomInv, BindInv
  <2>3. ErrorIsLast(attempts')
    BY <1>0, <2>1, <2>2, ErrorIsLastTail
  <2>4. ASSUME opened.error = "NONE", operands'.error # "NONE", NEW i \in DOMAIN attempts'
        PROVE  attempts'[i].outcome # "bound"
    <3>1. CASE Head(attempts).error
      BY <1>0, <2>1, <2>2, <2>4, <3>1, ErrorIsLastTail
    <3>2. CASE ~Head(attempts).error
      <4>1. operands' = operands
        BY <1>1, <3>2 DEF Try
      <4>2. i + 1 \in DOMAIN attempts /\ attempts'[i] = attempts[i + 1]
        BY <1>0, <2>1, <2>4, HeadAndTail
      <4>. QED  BY <2>1, <2>4, <4>1, <4>2 DEF RoomInv, BindInv
    <3>. QED  BY <3>1, <3>2
  <2>. QED  BY <2>1, <2>2, <2>3, <2>4 DEF RoomInv, BindInv, WholeSoFar, RefusedOnlyWhenShort
<1>2. CASE Choose
  <2>1. /\ pc = "bind" /\ pc' = "emit" /\ attempts # <<>> /\ Head(attempts).outcome = "bound"
        /\ rules' = Head(attempts).rules /\ chosen' = rules'
        /\ UNCHANGED <<operands, array, bit_offset, ilen, opened>>
    BY <1>2 DEF Choose, request
  <2>2. bit_offset = 0 /\ rules' \in Seq(Rules)
    BY <1>0, <2>1, AnswerType DEF RoomInv, BindInv
  <2>3. Bits[rules'] \in Nat /\ PrefixBits[rules'] \in Nat /\ Encoding[rules'] \in Seq(WireBits)
    BY <2>2, BitsFacts, PrefixBitsFacts, EncodingFacts
  <2>4. WholeSoFar'
    <3>1. Emitted' \o Encoding[rules'] = Encoding[chosen']
      BY <2>1, <2>2, <2>3, EmittedConcat DEF Emitted
    <3>2. bit_offset' + Bits[rules'] = Bits[chosen'] /\ bit_offset' + PrefixBits[rules'] >= PrefixBits[chosen']
      BY <2>1, <2>2, <2>3
    <3>. QED  BY <3>1, <3>2 DEF WholeSoFar
  <2>5. opened.error = "NONE" => operands.error = "NONE"
    <3>1. Head(attempts) = attempts[1] /\ 1 \in DOMAIN attempts
      BY <1>0, <2>1, HeadAndTail
    <3>. QED  BY <2>1, <3>1 DEF RoomInv, BindInv
  <2>. QED  BY <2>1, <2>2, <2>4, <2>5 DEF RoomInv, BindInv, RefusedOnlyWhenShort
<1>3. CASE BindFails
  <2>1. pc' = "client" /\ chosen' = chosen
    BY <1>3 DEF BindFails, Fail, history
  <2>. QED  BY <2>1 DEF RoomInv, BindInv, WholeSoFar, RefusedOnlyWhenShort
<1>. QED  BY <1>1, <1>2, <1>3

(* An emitted field moves its bits from what is left to what is emitted. *)
LEMMA RoomPut ==
    ASSUME EncodeInv, BitsInv, FieldsAtBytes, RoomInv, EmitBytes \/ EmitBitsEnd
    PROVE  RoomInv'
<1>1. /\ Field \in Fields /\ bit_offset \in Nat /\ ilen' = ilen
      /\ bit_offset' = bit_offset + Field.bits
      /\ Emitted' = Emitted \o Abstract!Wire(Field)
  BY StringPut DEF Emitted
<1>2. /\ pc \in {"emit", "loop"} /\ pc' = "emit" /\ rules' = FieldLess(rules)
      /\ rules # <<>> /\ Head(rules).fields # <<>> /\ Field.bits \in 1..64
      /\ UNCHANGED <<operands, opened, chosen>>
  BY FieldType DEF EmitBytes, EmitBitsEnd, Emitting, NextField, FieldLess, history
<1>3. rules \in Seq(Rules) /\ Bits[chosen] \in Nat /\ PrefixBits[chosen] \in Nat
  BY EmitFacts
<1>4. /\ rules' \in Seq(Rules) /\ Abstract!Wire(Field) \in Seq(WireBits)
      /\ Bits[rules] = Field.bits + Bits[rules']
      /\ Encoding[rules] = Abstract!Wire(Field) \o Encoding[rules']
      /\ PrefixBits[rules] <= Field.bits + PrefixBits[rules']
  BY <1>2, <1>3, FieldTaken DEF Field
<1>5. /\ Bits[rules'] \in Nat /\ PrefixBits[rules'] \in Nat /\ Encoding[rules'] \in Seq(WireBits)
      /\ PrefixBits[rules] \in Nat /\ Bits[rules] \in Nat
  BY <1>3, <1>4, BitsFacts, PrefixBitsFacts, EncodingFacts
<1>6. WholeSoFar'
  <2>. SUFFICES ASSUME operands.error = "NONE"
                PROVE  /\ bit_offset' + Bits[rules'] = Bits[chosen]
                       /\ Emitted' \o Encoding[rules'] = Encoding[chosen]
                       /\ bit_offset' + PrefixBits[rules'] >= PrefixBits[chosen]
    BY <1>2 DEF WholeSoFar
  <2>1. /\ bit_offset + Bits[rules] = Bits[chosen]
        /\ Emitted \o Encoding[rules] = Encoding[chosen]
        /\ bit_offset + PrefixBits[rules] >= PrefixBits[chosen]
    BY <1>2 DEF RoomInv, WholeSoFar
  <2>2. Emitted' \o Encoding[rules'] = Encoding[chosen]
    <3>. DEFINE v == Abstract!Wire(Field)
                e == Encoding[rules']
    <3>1. v \in Seq(WireBits) /\ e \in Seq(WireBits) /\ Encoding[rules] = v \o e
      BY <1>4, <1>5
    <3>2. Emitted' = Emitted \o v
      BY <1>1
    <3>0. bit_offset \in Nat
      BY <1>1
    <3>. HIDE DEF v, e
    <3>3. (Emitted \o v) \o e = Emitted \o (v \o e)
      <4>1. (StringOf(array, bit_offset) \o v) \o e = StringOf(array, bit_offset) \o (v \o e)
        BY <3>0, <3>1, EmittedConcat
      <4>. QED  BY <4>1 DEF Emitted
    <3>. QED  BY <2>1, <3>1, <3>2, <3>3 DEF e
  <2>. DEFINE w == Field.bits
  <2>3. /\ w \in 1..64 /\ bit_offset' = bit_offset + w /\ Bits[rules] = w + Bits[rules']
        /\ PrefixBits[rules] <= w + PrefixBits[rules']
    BY <1>1, <1>2, <1>4
  <2>. HIDE DEF w
  <2>3a. bit_offset \in Nat
    BY <1>1
  <2>4. bit_offset' + Bits[rules'] = Bits[chosen]
    <3>. DEFINE x == Bits[rules]
                y == Bits[rules']
                z == Bits[chosen]
    <3>1. x \in Nat /\ y \in Nat /\ z \in Nat
      BY <1>3, <1>5
    <3>2. bit_offset + x = z
      BY <2>1
    <3>3. bit_offset' = bit_offset + w /\ w \in 1..64 /\ x = w + y
      BY <2>3
    <3>. HIDE DEF x, y, z
    <3>4. bit_offset' + y = z
      BY <2>3a, <3>1, <3>2, <3>3
    <3>. QED  BY <3>4 DEF y, z
  <2>5. bit_offset' + PrefixBits[rules'] >= PrefixBits[chosen]
    <3>. DEFINE x == PrefixBits[rules]
                y == PrefixBits[rules']
                z == PrefixBits[chosen]
    <3>1. /\ x \in Nat /\ y \in Nat /\ z \in Nat /\ x <= w + y /\ bit_offset + x >= z
          /\ bit_offset' = bit_offset + w /\ w \in 1..64
      BY <1>3, <1>5, <2>1, <2>3
    <3>. HIDE DEF x, y, z
    <3>2. bit_offset' + y >= z
      BY <2>3a, <3>1
    <3>. QED  BY <3>2 DEF y, z
  <2>. QED  BY <2>2, <2>4, <2>5
<1>7. RefusedOnlyWhenShort'
  BY <1>1, <1>2, <1>3, CheckedKept DEF RefusedOnlyWhenShort, RoomInv
<1>. QED  BY <1>2, <1>6, <1>7 DEF RoomInv, BindInv

(* A field is only refused when the encoding does not fit, and a rule that *)
(* asks for the error is left if not even the prefixes do.                 *)
LEMMA RoomRefused ==
    ASSUME EncodeInv, RoomInv, EmitTooShort
    PROVE  RoomInv'
<1>1. /\ pc = "emit" /\ pc' = "emit" /\ rules' = FieldLess(rules)
      /\ rules # <<>> /\ Head(rules).fields # <<>> /\ Field.bits \in 1..64
      /\ bit_offset + Field.bits > 8 * ilen
      /\ UNCHANGED <<ilen, opened, chosen>>
  BY FieldType DEF EmitTooShort, TooShort, Emitting, NextField, FieldLess, history
<1>2. operands'.error = "BUFFER_TOO_SHORT"
  BY SetErrorIsRequest DEF EmitTooShort, EncodeInv, Errors
<1>3. /\ rules \in Seq(Rules) /\ ilen \in Nat /\ bit_offset \in 0..8 * ilen
      /\ PrefixBits[rules] \in Nat /\ Bits[chosen] \in Nat /\ PrefixBits[chosen] \in Nat
  BY EmitFacts
<1>4. rules' \in Seq(Rules) /\ Bits[rules] = Field.bits + Bits[rules'] /\ Bits[rules'] \in Nat
  <2>1. rules' \in Seq(Rules) /\ Bits[rules] = Field.bits + Bits[rules']
    BY <1>1, <1>3, FieldTaken DEF Field
  <2>. QED  BY <2>1, BitsFacts
<1>5. HasChecked(rules') <=> HasChecked(rules)
  BY <1>1, <1>3, CheckedKept
<1>6. ASSUME opened.error = "NONE"
      PROVE  Bits[chosen] > 8 * ilen /\ (PrefixBits[chosen] > 8 * ilen => HasChecked(rules))
  <2>1. CASE operands.error = "NONE"
    <3>1. /\ bit_offset + Bits[rules] = Bits[chosen]
          /\ bit_offset + PrefixBits[rules] >= PrefixBits[chosen]
      BY <1>1, <2>1 DEF RoomInv, WholeSoFar
    <3>2. Bits[chosen] > 8 * ilen
      <4>. DEFINE w == Field.bits
      <4>1. w \in 1..64 /\ bit_offset + w > 8 * ilen /\ Bits[rules] = w + Bits[rules']
        BY <1>1, <1>4
      <4>2. Bits[rules'] \in Nat
        BY <1>4
      <4>. HIDE DEF w
      <4>. QED  BY <1>3, <3>1, <4>1, <4>2
    <3>3. PrefixBits[chosen] > 8 * ilen => PrefixBits[rules] > 0
      BY <1>3, <3>1
    <3>. QED  BY <1>3, <3>2, <3>3, CheckedRule
  <2>2. CASE operands.error # "NONE"
    BY <1>1, <1>6, <2>2 DEF RoomInv, RefusedOnlyWhenShort
  <2>. QED  BY <2>1, <2>2
<1>. QED  BY <1>1, <1>2, <1>5, <1>6 DEF RoomInv, BindInv, WholeSoFar, RefusedOnlyWhenShort

(* A rule ends: the next one is begun, or its fields are dropped. *)
LEMMA RoomRule ==
    ASSUME EncodeInv, RoomInv, RuleDone
    PROVE  RoomInv'
<1>1. /\ pc = "emit" /\ pc' = "emit" /\ rules # <<>> /\ Head(rules).fields = <<>>
      /\ UNCHANGED <<operands, array, bit_offset, ilen, opened, chosen>>
  BY DEF RuleDone, RuleEnds, request, history
<1>2. rules \in Seq(Rules) /\ Tail(rules) \in Seq(Rules)
  BY <1>1, EmitFacts, RuleType
<1>3. CASE operands.error = "NONE"
  <2>1. rules' = Tail(rules)
    BY <1>3 DEF RuleDone
  <2>2. /\ Bits[rules'] = Bits[rules] /\ Encoding[rules'] = Encoding[rules]
        /\ PrefixBits[rules'] = PrefixBits[rules]
    BY <1>1, <1>2, <2>1, RuleEnded
  <2>3. WholeSoFar'
    BY <1>1, <2>2 DEF RoomInv, WholeSoFar, Emitted
  <2>. QED  BY <1>1, <1>3, <2>3 DEF RoomInv, BindInv, RefusedOnlyWhenShort
<1>4. CASE operands.error # "NONE"
  <2>1. ~Checked(Head(rules).stage)
    BY <1>4 DEF RuleDone, Stage
  <2>2. HasChecked(Tail(rules)) <=> HasChecked(rules)
    BY <1>1, <1>2, <2>1, CheckedFirst
  <2>3. HasChecked(rules') <=> HasChecked(Tail(rules))
    <3>1. rules' = SkipNonterminal(Tail(rules))
      BY <1>4 DEF RuleDone
    <3>2. rules' = Tail(rules) \/ (Tail(rules) # <<>> /\ rules' = FieldsDropped(Tail(rules)))
      BY <3>1 DEF SkipNonterminal, FieldsDropped
    <3>. QED  BY <1>2, <3>2, CheckedKept
  <2>. QED  BY <1>1, <1>4, <2>2, <2>3 DEF RoomInv, BindInv, WholeSoFar, RefusedOnlyWhenShort
<1>. QED  BY <1>3, <1>4

(* Every step. *)
LEMMA RoomStep ==
    ASSUME EncodeInv, BitsInv, FieldsAtBytes, RoomInv, BindErrorIsLast, Next
    PROVE  RoomInv'
<1>1. CASE EmitBits \/ EmitChunk
  <2>1. /\ pc \in {"emit", "loop"} /\ pc' = "loop" /\ UNCHANGED <<operands, bit_offset, ilen, rules, opened, chosen>>
    BY <1>1 DEF EmitBits, EmitChunk, Emitting, request, history
  <2>2. Emitted' = Emitted
    <3>1. CASE EmitBits
      BY <2>1, <3>1 DEF EmitBits, Emitted, request
    <3>2. CASE EmitChunk
      <4>1. bit_offset \in Nat
        BY EmitFacts
      <4>2. StringOf(array', bit_offset) = StringOf(array, bit_offset)
        BY <3>2, <4>1, ChunkKeeps, SameString
      <4>. QED  BY <2>1, <4>2 DEF Emitted
    <3>. QED  BY <1>1, <3>1, <3>2
  <2>. QED  BY <2>1, <2>2 DEF RoomInv, BindInv, WholeSoFar, RefusedOnlyWhenShort
<1>2. CASE RuleFails \/ EncodeReturns
  <2>1. pc' = "client" /\ chosen' = chosen
    BY <1>2 DEF RuleFails, Fail, EncodeReturns, history
  <2>. QED  BY <2>1 DEF RoomInv, BindInv, WholeSoFar, RefusedOnlyWhenShort
<1>. QED  BY <1>1, <1>2, RoomClient, RoomBind, RoomPut, RoomRefused, RoomRule DEF Next, Step

(* What the call reports of it. *)
LEMMA ReportStep ==
    ASSUME EncodeInv, AssertionsHold, RoomInv, RoomIsEnough, ShortForPrefixes, Next
    PROVE  RoomIsEnough' /\ ShortForPrefixes'
<1>0. /\ ilen \in Nat /\ bit_offset \in 0..8 * ilen /\ (pc # "client" => given = ilen)
      /\ Bits[chosen] \in Nat /\ PrefixBits[chosen] \in Nat
  BY EmitFacts DEF EncodeInv, RunType
<1>1. CASE pc' # "client" \/ chosen' = <<>>
  BY <1>1 DEF RoomIsEnough, ShortForPrefixes, Encoded
<1>2. CASE Client /\ ~(pc' # "client" \/ chosen' = <<>>)
  <2>1. /\ pc = "client" /\ pc' = "client"
        /\ UNCHANGED <<array, olen, returned, given, opened, chosen>>
    BY <1>2 DEF Client, NewRequest, Refill, Encode, EncodeNop, EncodeRefuses, Idle, result, history
  <2>2. Encoded' = Encoded /\ Whole' = Whole
    BY <2>1 DEF Encoded, Whole, Stream
  <2>. QED  BY <2>1, <2>2 DEF RoomIsEnough, ShortForPrefixes
<1>3. CASE BindFails
  <2>1. chosen' = <<>>
    BY <1>3 DEF BindFails, Fail, RoomInv, BindInv, history
  <2>. QED  BY <1>1, <2>1
<1>4. CASE RuleFails
  <2>1. /\ pc = "emit" /\ operands.error # "NONE" /\ returned' = operands.error
        /\ UNCHANGED <<given, opened, chosen>>
    BY <1>4 DEF RuleFails, RuleEnds, Fail, history
  <2>2. opened.error = "NONE" => operands.error = "BUFFER_TOO_SHORT" /\ Bits[chosen] > 8 * ilen
    BY <2>1 DEF RoomInv, RefusedOnlyWhenShort
  <2>3. Bits[chosen] > 8 * ilen => ~(8 * given' >= Bits[chosen'])
    BY <1>0, <2>1
  <2>. QED  BY <2>1, <2>2, <2>3 DEF RoomIsEnough, ShortForPrefixes
<1>5. CASE EncodeReturns
  <2>1. /\ pc = "emit" /\ rules = <<>> /\ olen' = bit_offset \div 8 /\ returned' = "NONE"
        /\ UNCHANGED <<array, given, opened, chosen>>
    BY <1>5 DEF EncodeReturns, history
  <2>2. 8 * olen' = bit_offset
    <3>1. bit_offset % 8 = 0
      BY <2>1 DEF AssertionsHold
    <3>. QED  BY <1>0, <2>1, <3>1
  <2>3. CASE operands.error = "NONE"
    <3>1. /\ bit_offset + 0 = Bits[chosen] /\ Emitted \o <<>> = Encoding[chosen]
          /\ bit_offset + 0 >= PrefixBits[chosen]
      BY <2>1, <2>3, BitsFacts, EncodingFacts, PrefixBitsFacts DEF RoomInv, WholeSoFar
    <3>2. Whole'
      <4>1. <<>> \in Seq(WireBits) /\ bit_offset \in Nat
        BY <1>0
      <4>2. Emitted = Encoding[chosen]
        BY <3>1, <4>1, EmittedConcat DEF Emitted
      <4>3. bit_offset = Bits[chosen]
        BY <3>1, <4>1
      <4>. QED  BY <2>1, <2>2, <4>2, <4>3 DEF Whole, Stream, Emitted, StringOf
    <3>3. ~(8 * given' < PrefixBits[chosen'])
      BY <1>0, <2>1, <3>1
    <3>. QED  BY <2>1, <3>2, <3>3 DEF RoomIsEnough, ShortForPrefixes
  <2>4. CASE operands.error # "NONE"
    <3>1. ~HasChecked(rules)
      BY <2>1 DEF HasChecked
    <3>2. opened.error = "NONE" => Bits[chosen] > 8 * ilen /\ ~(PrefixBits[chosen] > 8 * ilen)
      BY <2>1, <2>4, <3>1 DEF RoomInv, RefusedOnlyWhenShort
    <3>3. opened'.error = "NONE" => ~(8 * given' >= Bits[chosen']) /\ ~(8 * given' < PrefixBits[chosen'])
      BY <1>0, <2>1, <3>2
    <3>. QED  BY <3>3 DEF RoomIsEnough, ShortForPrefixes
  <2>. QED  BY <2>3, <2>4
<1>6. CASE ~(Client \/ BindFails \/ RuleFails \/ EncodeReturns)
  <2>1. pc' # "client"
    BY <1>6 DEF Next, Step, Try, Choose, EmitTooShort, EmitBytes, EmitBits, EmitChunk, EmitBitsEnd,
                RuleDone, RuleEnds, Emitting
  <2>. QED  BY <1>1, <2>1
<1>. QED  BY <1>1, <1>2, <1>3, <1>4, <1>5, <1>6

(* The inductive invariant of what a call reports: the places of fields,   *)
(* the string of bits, and how it adds up to the encoding chosen.          *)
ReportInv == EncodeInv /\ ByteInv /\ BitsInv /\ RoomInv /\ RoomIsEnough /\ ShortForPrefixes

(* It holds in every reachable state. *)
THEOREM EncoderReports ==
    ASSUME BindAnswers, BindEmitsBytes, BindErrorIsLast
    PROVE  Spec => []ReportInv
<1>1. Init => ReportInv
  <2>. SUFFICES ASSUME Init
                PROVE  ReportInv
    OBVIOUS
  <2>1. EncodeInv /\ ByteInv /\ BitsInv /\ RoomInv
    BY InvInit, ByteInit, BitsInit, RoomInit
  <2>2. RoomIsEnough /\ ShortForPrefixes
    BY DEF Init, RoomIsEnough, ShortForPrefixes, Encoded
  <2>. QED  BY <2>1, <2>2 DEF ReportInv
<1>2. ReportInv /\ [Next]_vars => ReportInv'
  <2>. SUFFICES ASSUME ReportInv, [Next]_vars
                PROVE  ReportInv'
    OBVIOUS
  <2>1. EncodeInv /\ ByteInv /\ BitsInv /\ RoomInv /\ RoomIsEnough /\ ShortForPrefixes
    BY DEF ReportInv
  <2>2. AssertionsHold /\ FieldsAtBytes
    BY <2>1, BytesMeanAssertions DEF AssertionsHold
  <2>3. EncodeInv'
    BY <2>1, InvNext
  <2>4. CASE Next
    BY <2>1, <2>2, <2>3, <2>4, ByteStep, BitsStep, RoomStep, ReportStep DEF ReportInv
  <2>5. CASE UNCHANGED vars
    <3>1. ByteInv' /\ BitsInv'
      BY <2>1, <2>5, BitsStutter DEF ByteInv, vars, request
    <3>2. RoomInv'
      BY <2>1, <2>5 DEF RoomInv, BindInv, WholeSoFar, RefusedOnlyWhenShort, Emitted, vars, request, history
    <3>3. RoomIsEnough' /\ ShortForPrefixes'
      BY <2>1, <2>5 DEF RoomIsEnough, ShortForPrefixes, Encoded, Whole, Stream, vars, request, history, result
    <3>. QED  BY <2>3, <3>1, <3>2, <3>3 DEF ReportInv
  <2>. QED  BY <2>4, <2>5
<1>. QED  BY <1>1, <1>2, PTL DEF Spec

(* An array with room for the encoding gets the whole of it, bit for bit,  *)
(* and success: for all requests, encodings and lengths of arrays, as long *)
(* as no attempt that failed has left its error behind.                    *)
THEOREM EnoughRoomSucceeds ==
    ASSUME BindAnswers, BindEmitsBytes, BindErrorIsLast
    PROVE  Spec => []RoomIsEnough
<1>1. ReportInv => RoomIsEnough
  BY DEF ReportInv
<1>. QED  BY <1>1, EncoderReports, PTL

(* An array too short for the prefixes is reported too short, however few  *)
(* of their bits are missing and whatever would fit of the rest.           *)
THEOREM ShortForPrefixesFails ==
    ASSUME BindAnswers, BindEmitsBytes, BindErrorIsLast
    PROVE  Spec => []ShortForPrefixes
<1>1. ReportInv => ShortForPrefixes
  BY DEF ReportInv
<1>. QED  BY <1>1, EncoderReports, PTL

-----------------------------------------------------------------------------
(* The generated bind functions match operands; none of them looks at the  *)
(* error operand, which they may only set.                                 *)
WithError(o, e) == [o EXCEPT !.error = e]
BindIgnoresError == \A o, e : IsRequest(o) => Bind(WithError(o, e)) = Bind(o)

(* What preconditioning leaves of the operands it does not write. *)
LEMMA PreconditionFields ==
    ASSUME NEW o, DOMAIN o = DOMAIN Zeroed
    PROVE  LET p == Precondition(o)
           IN  /\ DOMAIN p = DOMAIN Zeroed
               /\ \A f \in DOMAIN Zeroed \ {"vl", "has_egpr", "must_use_evex", "disp_width", "disp"} :
                     p[f] = o[f]
               /\ p.vl = VectorLength(o)
               /\ p.has_egpr = (o.has_egpr \/ UsesEgpr(o))
               /\ p.must_use_evex = (o.must_use_evex \/ o.nf)
               /\ p.disp_width = RipDisplacement(o).disp_width
               /\ p.disp = RipDisplacement(o).disp
<1>. DEFINE r == RipDisplacement(o)
<1>1. {"error", "vl", "has_egpr", "must_use_evex", "disp_width", "disp"} \subseteq DOMAIN Zeroed
  BY DEF Zeroed
<1>2. r = o \/ r = [o EXCEPT !.disp_width = 32, !.disp = "zero"] \/ r = [o EXCEPT !.disp_width = 32]
  BY DEF RipDisplacement
<1>. HIDE DEF r
<1>3. /\ DOMAIN r = DOMAIN Zeroed
      /\ \A f \in DOMAIN Zeroed \ {"disp_width", "disp"} : r[f] = o[f]
  BY <1>1, <1>2
<1>4. "has_egpr" \in DOMAIN Zeroed \ {"disp_width", "disp"}
      /\ "must_use_evex" \in DOMAIN Zeroed \ {"disp_width", "disp"}
  BY <1>1
<1>5. Precondition(o) = [r EXCEPT !.vl = VectorLength(o),
                                  !.has_egpr = r.has_egpr \/ UsesEgpr(o),
                                  !.must_use_evex = r.must_use_evex \/ o.nf]
  BY DEF Precondition, r
<1>6. r.has_egpr = o.has_egpr /\ r.must_use_evex = o.must_use_evex
  BY <1>3, <1>4
<1>. DEFINE p == Precondition(o)
<1>. HIDE DEF p
<1>7. p = [r EXCEPT !.vl = VectorLength(o),
                    !.has_egpr = r.has_egpr \/ UsesEgpr(o),
                    !.must_use_evex = r.must_use_evex \/ o.nf]
  BY <1>5 DEF p
<1>8. /\ DOMAIN p = DOMAIN Zeroed
      /\ \A f \in DOMAIN Zeroed \ {"vl", "has_egpr", "must_use_evex"} : p[f] = r[f]
      /\ p.vl = VectorLength(o)
      /\ p.has_egpr = (r.has_egpr \/ UsesEgpr(o))
      /\ p.must_use_evex = (r.must_use_evex \/ o.nf)
  BY <1>1, <1>3, <1>7
<1>9. p.disp_width = r.disp_width /\ p.disp = r.disp
  BY <1>1, <1>8
<1>10. \A f \in DOMAIN Zeroed \ {"vl", "has_egpr", "must_use_evex", "disp_width", "disp"} : p[f] = o[f]
  BY <1>3, <1>8
<1>. QED  BY <1>6, <1>8, <1>9, <1>10 DEF p, r

(* What preconditioning asks of a request does not depend on what it has   *)
(* written there before, nor on the error operand.                         *)
LEMMA PreconditionAgain ==
    ASSUME NEW o, IsRequest(o), o.vl \in 0..2, NEW e
    PROVE  Precondition(WithError(Precondition(o), e)) = WithError(Precondition(o), e)
<1>. DEFINE p == Precondition(o)
            q == WithError(p, e)
            s == Precondition(q)
            Kept == DOMAIN Zeroed \ {"vl", "has_egpr", "must_use_evex", "disp_width", "disp"}
<1>1. DOMAIN o = DOMAIN Zeroed
  BY DEF IsRequest
<1>2. /\ DOMAIN p = DOMAIN Zeroed /\ (\A f \in Kept : p[f] = o[f])
      /\ p.vl = VectorLength(o)
      /\ p.has_egpr = (o.has_egpr \/ UsesEgpr(o))
      /\ p.must_use_evex = (o.must_use_evex \/ o.nf)
      /\ p.disp_width = RipDisplacement(o).disp_width /\ p.disp = RipDisplacement(o).disp
  BY <1>1, PreconditionFields
<1>. HIDE DEF p
<1>3. "error" \in DOMAIN Zeroed /\ "error" \in Kept
  BY DEF Zeroed
<1>4. DOMAIN q = DOMAIN Zeroed /\ \A f \in DOMAIN Zeroed \ {"error"} : q[f] = p[f]
  BY <1>2, <1>3 DEF WithError
<1>. HIDE DEF q
<1>5. /\ DOMAIN s = DOMAIN Zeroed /\ (\A f \in Kept : s[f] = q[f])
      /\ s.vl = VectorLength(q)
      /\ s.has_egpr = (q.has_egpr \/ UsesEgpr(q))
      /\ s.must_use_evex = (q.must_use_evex \/ q.nf)
      /\ s.disp_width = RipDisplacement(q).disp_width /\ s.disp = RipDisplacement(q).disp
  BY <1>4, PreconditionFields
<1>. HIDE DEF s
<1>6. {"nf", "regs", "mem0", "mem_width", "base0", "base1", "index"} \subseteq Kept \ {"error"}
  BY DEF Zeroed
<1>7. {"vl", "has_egpr", "must_use_evex", "disp_width", "disp"} \subseteq DOMAIN Zeroed \ {"error"}
  BY DEF Zeroed
<1>8. /\ q.nf = o.nf /\ q.regs = o.regs /\ q.mem0 = o.mem0 /\ q.mem_width = o.mem_width
      /\ q.base0 = o.base0 /\ q.base1 = o.base1 /\ q.index = o.index
  BY <1>2, <1>4, <1>6
<1>9. /\ q.vl = p.vl /\ q.has_egpr = p.has_egpr /\ q.must_use_evex = p.must_use_evex
      /\ q.disp_width = p.disp_width /\ q.disp = p.disp
  BY <1>4, <1>7
<1>10. MemoryVL(q) = MemoryVL(o) /\ RegisterOperands(q) = RegisterOperands(o) /\ UsesEgpr(q) = UsesEgpr(o)
  BY <1>8 DEF MemoryVL, RegisterOperands, UsesEgpr
<1>11. s.vl = q.vl
  <2>1. CASE VectorLength(o) # 0
    BY <1>2, <1>5, <1>9, <2>1 DEF VectorLength
  <2>2. CASE VectorLength(o) = 0
    <3>1. q.vl = 0
      BY <1>2, <1>9, <2>2
    <3>2. CASE o.vl = 0
      <4>1. VectorLength(q) = VectorLength(o)
        BY <1>8, <1>10, <3>1, <3>2 DEF VectorLength
      <4>. QED  BY <1>5, <2>2, <3>1, <4>1
    <3>3. CASE o.vl # 0
      BY <2>2, <3>3 DEF VectorLength
    <3>. QED  BY <3>2, <3>3
  <2>. QED  BY <2>1, <2>2
<1>12. s.has_egpr = q.has_egpr
  BY <1>2, <1>5, <1>9, <1>10
<1>13. s.must_use_evex = q.must_use_evex
  BY <1>2, <1>5, <1>8, <1>9
<1>14. s.disp_width = q.disp_width /\ s.disp = q.disp
  <2>1. q.disp_width = RipDisplacement(o).disp_width /\ q.disp = RipDisplacement(o).disp
    BY <1>2, <1>9
  <2>2. CASE o.base0 # "RIP"
    BY <1>5, <1>8, <2>2 DEF RipDisplacement
  <2>3. CASE o.base0 = "RIP" /\ (o.disp_width = 0 \/ o.disp_width = 8)
    <3>1. "disp_width" \in DOMAIN o /\ "disp" \in DOMAIN o
      BY <1>1, <1>7
    <3>2. q.disp_width = 32
      BY <2>1, <2>3, <3>1 DEF RipDisplacement
    <3>3. RipDisplacement(q) = q
      BY <1>8, <2>3, <3>2 DEF RipDisplacement
    <3>. QED  BY <1>5, <3>3
  <2>4. CASE o.base0 = "RIP" /\ o.disp_width # 0 /\ o.disp_width # 8
    <3>1. q.disp_width = o.disp_width
      BY <2>1, <2>4 DEF RipDisplacement
    <3>2. RipDisplacement(q) = q
      BY <1>8, <2>4, <3>1 DEF RipDisplacement
    <3>. QED  BY <1>5, <3>2
  <2>. QED  BY <2>2, <2>3, <2>4
<1>15. \A f \in DOMAIN Zeroed : s[f] = q[f]
  BY <1>5, <1>11, <1>12, <1>13, <1>14
<1>16. s = [f \in DOMAIN Zeroed |-> s[f]] /\ q = [f \in DOMAIN Zeroed |-> q[f]]
  <2>1. q = [f \in DOMAIN Zeroed |-> q[f]]
    BY <1>2 DEF q, WithError
  <2>2. s = [f \in DOMAIN Zeroed |-> s[f]]
    <3>. DEFINE r == RipDisplacement(q)
    <3>1. r = q \/ r = [q EXCEPT !.disp_width = 32, !.disp = "zero"] \/ r = [q EXCEPT !.disp_width = 32]
      BY DEF RipDisplacement
    <3>. HIDE DEF r
    <3>2. DOMAIN r = DOMAIN Zeroed
      BY <1>4, <3>1
    <3>3. s = [r EXCEPT !.vl = VectorLength(q), !.has_egpr = r.has_egpr \/ UsesEgpr(q),
                        !.must_use_evex = r.must_use_evex \/ q.nf]
      BY DEF s, Precondition, r
    <3>. QED  BY <3>2, <3>3
  <2>. QED  BY <2>1, <2>2
<1>17. s = q
  BY <1>15, <1>16
<1>. QED  BY <1>17 DEF s, q, p

LEMMA ErrorKept ==
    ASSUME NEW o, DOMAIN o = DOMAIN Zeroed, o = [f \in DOMAIN Zeroed |-> o[f]]
    PROVE  o = WithError(o, o.error)
<1>1. "error" \in DOMAIN Zeroed
  BY DEF Zeroed
<1>. QED  BY <1>1 DEF WithError

LEMMA PreconditionIsRecord ==
    ASSUME NEW o, DOMAIN o = DOMAIN Zeroed
    PROVE  Precondition(o) = WithError(Precondition(o), Precondition(o).error)
<1>. DEFINE r == RipDisplacement(o)
            p == Precondition(o)
<1>1. r = o \/ r = [o EXCEPT !.disp_width = 32, !.disp = "zero"] \/ r = [o EXCEPT !.disp_width = 32]
  BY DEF RipDisplacement
<1>. HIDE DEF r
<1>2. DOMAIN r = DOMAIN Zeroed
  BY <1>1
<1>3. p = [r EXCEPT !.vl = VectorLength(o), !.has_egpr = r.has_egpr \/ UsesEgpr(o),
                    !.must_use_evex = r.must_use_evex \/ o.nf]
  BY DEF Precondition, r
<1>. HIDE DEF p
<1>4. DOMAIN p = DOMAIN Zeroed /\ p = [f \in DOMAIN Zeroed |-> p[f]]
  BY <1>2, <1>3
<1>5. p = WithError(p, p.error)
  BY <1>4, ErrorKept
<1>. QED  BY <1>5 DEF p

(* While xed_encode runs, the request is the client's, preconditioned, but *)
(* for the error operand.                                                  *)
Preconditioned ==
    pc # "client" =>
       /\ IsRequest(opened) /\ opened.error \in Errors /\ opened.vl \in 0..2
       /\ \E e : operands = WithError(Precondition(opened), e)

LEMMA PreconditionedStep ==
    ASSUME EncodeInv, Preconditioned, Next
    PROVE  Preconditioned'
<1>1. CASE Client
  <2>1. CASE \E n \in ILens : Encode(n)
    <3>1. /\ operands' = Precondition(operands) /\ opened' = operands
      BY <2>1 DEF Encode
    <3>2. IsRequest(operands) /\ operands.error \in Errors /\ operands.vl \in 0..2
      BY DEF EncodeInv, RequestType
    <3>3. operands' = WithError(Precondition(operands), Precondition(operands).error)
      BY <3>1, <3>2, PreconditionIsRecord DEF IsRequest
    <3>. QED  BY <3>1, <3>2, <3>3 DEF Preconditioned
  <2>2. CASE ~\E n \in ILens : Encode(n)
    BY <1>1, <2>2 DEF Client, NewRequest, Refill, EncodeNop, EncodeRefuses, Idle, Preconditioned
  <2>. QED  BY <2>1, <2>2
<1>2. ASSUME pc # "client", UNCHANGED opened,
             operands' = operands \/ \E e : operands' = [operands EXCEPT !.error = e]
      PROVE  Preconditioned'
  <2>1. PICK d : operands = WithError(Precondition(opened), d)
    BY <1>2 DEF Preconditioned
  <2>2. ASSUME NEW e, operands' = [operands EXCEPT !.error = e]
        PROVE  operands' = WithError(Precondition(opened), e)
    BY <2>1, <2>2 DEF WithError
  <2>3. \E e : operands' = WithError(Precondition(opened), e)
    BY <1>2, <2>1, <2>2
  <2>. QED  BY <1>2, <2>3 DEF Preconditioned
<1>3. CASE Try
  BY <1>2, <1>3 DEF Try, SetError, history
<1>4. CASE EmitTooShort
  BY <1>2, <1>4 DEF EmitTooShort, Emitting, SetError, history
<1>5. CASE Choose \/ EmitBytes \/ EmitBits \/ EmitChunk \/ EmitBitsEnd \/ RuleDone
  BY <1>2, <1>5 DEF Choose, EmitBytes, EmitBits, EmitChunk, EmitBitsEnd, Emitting, RuleDone, RuleEnds,
                    request, history
<1>6. CASE BindFails \/ RuleFails \/ EncodeReturns
  BY <1>6 DEF BindFails, RuleFails, Fail, EncodeReturns, Preconditioned
<1>. QED  BY <1>1, <1>3, <1>4, <1>5, <1>6 DEF Next, Step

(* A request that is encoded, and encoded again as the encoder has left    *)
(* it, has the same encodings tried: preconditioning changes nothing the   *)
(* second time (xed_encode, xed_encode_precondition).                      *)
THEOREM EncodesTheSame ==
    ASSUME BindAnswers, BindIgnoresError
    PROVE  Spec => []EncodesTheSameAgain
<1>1. Init => Preconditioned
  BY DEF Init, Preconditioned
<1>2. EncodeInv /\ Preconditioned /\ [Next]_vars => Preconditioned'
  <2>1. ASSUME Preconditioned, UNCHANGED vars
        PROVE  Preconditioned'
    BY <2>1 DEF Preconditioned, vars, request, history
  <2>. QED  BY <2>1, PreconditionedStep
<1>3. Preconditioned => EncodesTheSameAgain
  <2>. SUFFICES ASSUME Preconditioned, pc = "emit"
                PROVE  Bind(Precondition(operands)) = Bind(Precondition(opened))
    BY DEF EncodesTheSameAgain
  <2>1. IsRequest(opened) /\ opened.error \in Errors /\ opened.vl \in 0..2
    BY DEF Preconditioned
  <2>2. PICK e : operands = WithError(Precondition(opened), e)
    BY DEF Preconditioned
  <2>3. Precondition(operands) = WithError(Precondition(opened), e)
    BY <2>1, <2>2, PreconditionAgain
  <2>4. IsRequest(Precondition(opened))
    BY <2>1, PreconditionIsRequest
  <2>. QED  BY <2>3, <2>4 DEF BindIgnoresError
<1>. QED  BY <1>1, <1>2, <1>3, EncodeInvariant, PTL DEF Spec
=============================================================================
