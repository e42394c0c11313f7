----------------------------- MODULE XedEncode ------------------------------
(***************************************************************************)
(* The encoder: xed_encode and what it calls, over one encoder request     *)
(* that a client zeroes, fills in, encodes and may fill in and encode      *)
(* again, always into one array.                                           *)
(*                                                                         *)
(* The generated functions are the constant Bind: for the operands it      *)
(* gives the encodings xed_encode_group_N tries, in order, and for the     *)
(* chosen one the rules whose fields its emit functions emit.  Values are  *)
(* symbolic: bit b of the value v, from the lowest, is <<v, b>>.           *)
(***************************************************************************)
EXTENDS Integers, Sequences, SequencesExt, FiniteSetsExt

CONSTANTS
    Settings,       \* what a client may put into the operands of a request
    ILens,          \* array lengths a client may give
    ArrayBytes,     \* the bytes of the array, those after ilen included
    Fields,         \* records [val, bits, whole]: a value, how many of its bits, how emitted
    Bind(_),        \* operands -> sequence of attempts [outcome, error, rules]
    MaxCalls        \* bound on the calls of xed_encode and xed_encode_nop

ASSUME EncodeConstants ==
    /\ ArrayBytes \in Nat /\ ILens \subseteq 0..ArrayBytes
    /\ MaxCalls \in Nat
    /\ \A f \in Fields : f.bits \in 1..64 /\ f.whole \in BOOLEAN
    /\ \A s \in Settings : "error" \notin DOMAIN s /\ ("vl" \in DOMAIN s => s.vl \in 0..2)

VARIABLES
    operands,       \* the operand storage of the request, the error operand included
    array,          \* bytes, each a function from bit numbers to symbolic bits
    ilen, bit_offset,                              \* xed_encoder_vars_t
    nbits, byte_offset, bit_in_byte, processed_bits,  \* locals of the emit loop
    attempts,       \* encodings still to be tried
    rules,          \* rules still to be emitted, the first one perhaps in part
    pc,             \* "client", "bind", "emit" or "loop"
    olen, returned, \* what the last call gave back
    calls,          \* calls so far
    given,          \* history: the array length of the last call
    opened,         \* history: the operands when it was made
    chosen          \* history: all rules of the encoding chosen, if any

cursor == <<nbits, byte_offset, bit_in_byte, processed_bits>>
request == <<operands, ilen, bit_offset>>
result == <<olen, returned, calls>>
history == <<given, opened, chosen>>
vars == <<request, array, cursor, attempts, rules, pc, result, history>>

XMM == {"XMM0"}   YMM == {"YMM0"}   ZMM == {"ZMM0"}   EGPR == {"R16"}
Initial(i) == [b \in 0..7 |-> <<"array", 8 * i + b>>]
ZeroByte == [b \in 0..7 |-> <<"zero", 0>>]

(* memset of the request: every operand zero *)
Zeroed ==
    [iclass |-> "INVALID", error |-> "NONE", vl |-> 0, has_egpr |-> FALSE,
     must_use_evex |-> FALSE, nf |-> FALSE, regs |-> <<>>, mem0 |-> FALSE, mem_width |-> 0,
     base0 |-> "INVALID", base1 |-> "INVALID", index |-> "INVALID", disp_width |-> 0,
     disp |-> "zero"]

(* the client's setters *)
With(o, s) == [f \in DOMAIN o |-> IF f \in DOMAIN s THEN s[f] ELSE o[f]]

Init ==
    /\ operands = Zeroed /\ array = [i \in 0..ArrayBytes - 1 |-> Initial(i)]
    /\ ilen = 0 /\ bit_offset = 0
    /\ nbits = 0 /\ byte_offset = 0 /\ bit_in_byte = 0 /\ processed_bits = 0
    /\ attempts = <<>> /\ rules = <<>> /\ pc = "client"
    /\ olen = 0 /\ returned = "none" /\ calls = 0
    /\ given = 0 /\ opened = Zeroed /\ chosen = <<>>

-----------------------------------------------------------------------------
(* The preconditioning of the operands *)

(* the register operands up to the first that is not set *)
RegisterOperands(o) ==
    {o.regs[i] : i \in {k \in DOMAIN o.regs : \A j \in 1..k : o.regs[j] # "INVALID"}}

MemoryVL(o) == CASE o.mem0 /\ o.mem_width = 32 -> 1
                 [] o.mem0 /\ o.mem_width = 64 -> 2
                 [] OTHER -> 0

(* a vector length other than zero is taken to be the client's own *)
VectorLength(o) ==
    IF o.vl # 0 THEN o.vl
    ELSE LET seen == RegisterOperands(o) \cup {o.index}
         IN  Max({MemoryVL(o), IF seen \cap YMM # {} THEN 1 ELSE 0,
                               IF seen \cap ZMM # {} THEN 2 ELSE 0})

UsesEgpr(o) ==
    \/ RegisterOperands(o) \cap EGPR # {}
    \/ o.mem0 /\ {o.base0, o.base1, o.index} \cap EGPR # {}

(* relative to RIP a displacement has four bytes *)
RipDisplacement(o) ==
    IF o.base0 # "RIP" THEN o
    ELSE CASE o.disp_width = 0 -> [o EXCEPT !.disp_width = 32, !.disp = "zero"]
           [] o.disp_width = 8 -> [o EXCEPT !.disp_width = 32]
           [] OTHER -> o

(* mutant: the request for no flags is used up by the first call *)
PreconditionUsesNf(o) ==
    [RipDisplacement(o) EXCEPT
        !.vl = VectorLength(o),
        !.has_egpr = @ \/ UsesEgpr(o),
        !.must_use_evex = o.nf, !.nf = FALSE]

Precondition(o) ==
    [RipDisplacement(o) EXCEPT
        !.vl = VectorLength(o),
        !.has_egpr = @ \/ UsesEgpr(o),
        !.must_use_evex = @ \/ o.nf]

-----------------------------------------------------------------------------
(* The client *)

Idle == pc = "client" /\ calls < MaxCalls

NewRequest(s) ==
    /\ Idle
    /\ operands' = With(Zeroed, s)
    /\ UNCHANGED <<ilen, bit_offset, array, cursor, attempts, rules, pc, result, history>>

(* a request used before is filled in again without being zeroed *)
Refill(s) ==
    /\ Idle /\ calls > 0
    /\ operands' = With(operands, s)
    /\ UNCHANGED <<ilen, bit_offset, array, cursor, attempts, rules, pc, result, history>>

(* xed_encode with no array, no room or no instruction *)
EncodeRefuses(n, null) ==
    /\ Idle
    /\ operands.iclass = "INVALID" \/ n = 0 \/ null
    /\ returned' = "GENERAL_ERROR" /\ calls' = calls + 1
    /\ given' = n /\ opened' = operands /\ chosen' = <<>>
    /\ UNCHANGED <<request, array, cursor, attempts, rules, pc, olen>>

(* the ephemeral variables are zeroed; the error operand is not *)
Encode(n) ==
    /\ Idle
    /\ operands.iclass # "INVALID" /\ n > 0
    /\ ilen' = n /\ bit_offset' = 0
    /\ operands' = Precondition(operands)
    /\ attempts' = Bind(operands') /\ rules' = <<>> /\ pc' = "bind"
    /\ calls' = calls + 1 /\ given' = n /\ opened' = operands /\ chosen' = <<>>
    /\ UNCHANGED <<array, cursor, olen, returned>>

EncodeNop(n) ==
    /\ Idle
    /\ IF n \in 1..9
         THEN /\ array' = [i \in DOMAIN array |->
                             IF i < n THEN [b \in 0..7 |-> <<"nop", 8 * i + b>>] ELSE array[i]]
              /\ returned' = "NONE"
         ELSE returned' = "GENERAL_ERROR" /\ UNCHANGED array
    /\ calls' = calls + 1 /\ given' = n /\ opened' = Zeroed /\ chosen' = <<>>
    /\ UNCHANGED <<request, cursor, attempts, rules, pc, olen>>

-----------------------------------------------------------------------------
(* xed_encode when ISA_ENCODE answers no: the error operand, if there is one *)

Fail ==
    /\ returned' = IF operands.error # "NONE" THEN operands.error ELSE "GENERAL_ERROR"
    /\ pc' = "client"
    /\ UNCHANGED <<request, array, cursor, attempts, rules, olen, calls, history>>

SetError(e) == operands' = [operands EXCEPT !.error = e]

-----------------------------------------------------------------------------
(* ISA_BINDINGS.  An attempt matches and binds ("bound"), or it does not    *)
(* ("next"), perhaps having set the error operand, or it does but the       *)
(* prefixes do not go with it ("refused").  Nothing undoes an attempt.      *)

(* mutant: an attempt that fails is made again *)
TryForever ==
    /\ pc = "bind" /\ attempts # <<>>
    /\ Head(attempts).outcome = "next"
    /\ UNCHANGED vars

Try ==
    /\ pc = "bind" /\ attempts # <<>>
    /\ LET a == Head(attempts)
       IN  /\ a.outcome = "next"
           /\ IF a.error THEN SetError("GENERAL_ERROR") ELSE UNCHANGED operands
    /\ attempts' = Tail(attempts)
    /\ UNCHANGED <<ilen, bit_offset, array, cursor, rules, pc, result, history>>

Choose ==
    /\ pc = "bind" /\ attempts # <<>>
    /\ Head(attempts).outcome = "bound"
    /\ rules' = Head(attempts).rules /\ chosen' = rules' /\ pc' = "emit"
    /\ UNCHANGED <<request, array, cursor, attempts, result, given, opened>>

BindFails ==
    /\ pc = "bind"
    /\ attempts # <<>> => Head(attempts).outcome = "refused"
    /\ Fail

-----------------------------------------------------------------------------
(* ISA_EMIT.  A rule has a stage, "prefix", "rex", "instruction" for what   *)
(* the emit function of the encoding emits itself or else the nonterminal   *)
(* it calls, and fields [val, bits, whole]: whole when it is                *)
(* xed_encoder_request_emit_bytes that emits the field.                     *)

Emitting == pc = "emit" /\ rules # <<>> /\ Head(rules).fields # <<>>
Field == Head(Head(rules).fields)
NextField == rules' = <<[Head(rules) EXCEPT !.fields = Tail(@)]>> \o Tail(rules)

(* mutants: the room is counted in begun bytes, in bits with one too many, *)
(* with one too few, and by the byte the field starts in                   *)
TooShortInBytes(f) == bit_offset \div 8 + f.bits \div 8 > ilen
TooShortByOne(f) == bit_offset + f.bits > 8 * ilen + 1
TooShortWhenFull(f) == bit_offset + f.bits >= 8 * ilen
TooShortAtStart(f) == bit_offset > 8 * ilen

TooShort(f) == bit_offset + f.bits > 8 * ilen

CheckedPrefix(stage) == stage = "prefix"   \* mutant: REX, VEX and EVEX go on
CheckedNever(stage) == FALSE               \* mutant: every stage goes on
Checked(stage) == stage \in {"prefix", "rex"}

(* what Bind may answer: the prefix stage always has a rule, for no prefix too *)
Rules == [stage : STRING, fields : Seq(Fields)]
Attempts == [outcome : {"next", "bound", "refused"}, error : BOOLEAN, rules : Seq(Rules)]
IsAnswer(as) ==
    /\ as \in Seq(Attempts)
    /\ \A i \in DOMAIN as : as[i].outcome = "bound" =>
          as[i].rules # <<>> /\ as[i].rules[1].stage = "prefix"

(* what a request may hold: what the client set, or what the encoder writes *)
Errors == {"NONE", "BUFFER_TOO_SHORT", "GENERAL_ERROR"}
Written == [error |-> Errors, vl |-> 0..2, has_egpr |-> BOOLEAN, must_use_evex |-> BOOLEAN,
            disp_width |-> {32}, disp |-> {"zero"}]
IsRequest(o) ==
    /\ DOMAIN o = DOMAIN Zeroed
    /\ \A f \in DOMAIN Zeroed :
          \/ o[f] = Zeroed[f]
          \/ \E s \in Settings : f \in DOMAIN s /\ o[f] = s[f]
          \/ f \in DOMAIN Written /\ o[f] \in Written[f]
BindAnswers == \A o : IsRequest(o) => IsAnswer(Bind(o))

(* no room: the error operand is set and the caller goes on *)
EmitTooShort ==
    /\ Emitting /\ TooShort(Field)
    /\ SetError("BUFFER_TOO_SHORT") /\ NextField
    /\ UNCHANGED <<ilen, bit_offset, array, cursor, attempts, pc, result, history>>

Aligned(f) == f.whole \/ (f.bits % 8 = 0 /\ bit_offset % 8 = 0)

(* one store of the value, low byte first *)
EmitBytes ==
    /\ Emitting /\ ~TooShort(Field) /\ Aligned(Field)
    /\ LET first == bit_offset \div 8
       IN  array' = [i \in DOMAIN array |->
                        IF i \in first .. first + Field.bits \div 8 - 1
                          THEN [b \in 0..7 |-> <<Field.val, 8 * (i - first) + b>>] ELSE array[i]]
    /\ bit_offset' = bit_offset + Field.bits /\ NextField
    /\ UNCHANGED <<operands, ilen, cursor, attempts, pc, result, history>>

EmitBits ==
    /\ Emitting /\ ~TooShort(Field) /\ ~Aligned(Field)
    /\ nbits' = Field.bits /\ byte_offset' = bit_offset \div 8
    /\ bit_in_byte' = bit_offset % 8 /\ processed_bits' = 0
    /\ pc' = "loop"
    /\ UNCHANGED <<request, array, attempts, rules, result, history>>

(* the bits this byte takes, and how far the value is shifted to the right *)
ChunkBits == IF 8 - bit_in_byte >= nbits THEN nbits ELSE 8 - bit_in_byte
ChunkShift == IF 8 - bit_in_byte >= nbits THEN 0 ELSE Field.bits - processed_bits - ChunkBits

Or(x, y) == IF x = <<"zero", 0>> THEN y ELSE <<"mixed", 0>>

(* mutant: a byte begun is not cleared *)
EmittedByteOver(old) ==
    LET shift == 8 - bit_in_byte - ChunkBits
    IN  [b \in 0..7 |-> IF b \in shift .. shift + ChunkBits - 1
                          THEN Or(old[b], <<Field.val, ChunkShift + b - shift>>) ELSE old[b]]

(* a byte begun is cleared first, the chunk goes below what it holds *)
EmittedByte(old) ==
    LET base == IF bit_in_byte = 0 THEN ZeroByte ELSE old
        shift == 8 - bit_in_byte - ChunkBits
    IN  [b \in 0..7 |-> IF b \in shift .. shift + ChunkBits - 1
                          THEN Or(base[b], <<Field.val, ChunkShift + b - shift>>) ELSE base[b]]

EmitChunk ==
    /\ pc = "loop" /\ nbits > 0
    /\ array' = [i \in DOMAIN array |->
                    IF i = byte_offset THEN EmittedByte(array[i]) ELSE array[i]]
    /\ nbits' = nbits - ChunkBits
    /\ processed_bits' = processed_bits + (IF 8 - bit_in_byte >= nbits THEN 0 ELSE ChunkBits)
    /\ byte_offset' = byte_offset + 1 /\ bit_in_byte' = 0
    /\ UNCHANGED <<request, attempts, rules, pc, result, history>>

EmitBitsEnd ==
    /\ pc = "loop" /\ nbits = 0
    /\ bit_offset' = bit_offset + Field.bits /\ NextField /\ pc' = "emit"
    /\ nbits' = 0 /\ byte_offset' = 0 /\ bit_in_byte' = 0 /\ processed_bits' = 0
    /\ UNCHANGED <<operands, ilen, array, attempts, result, history>>

(* At its end a rule asks for the error operand.  An error ends the         *)
(* encoding in the first two stages, later only the nonterminal at work:    *)
(* the instruction's emit function goes on, and the answer is yes.          *)
RuleEnds == pc = "emit" /\ rules # <<>> /\ Head(rules).fields = <<>>
Stage == Head(rules).stage

SkipNonterminal(rs) ==
    IF rs # <<>> /\ Head(rs).stage = Stage /\ Stage # "instruction"
      THEN <<[Head(rs) EXCEPT !.fields = <<>>]>> \o Tail(rs) ELSE rs

RuleDone ==
    /\ RuleEnds
    /\ operands.error # "NONE" => ~Checked(Stage)
    /\ rules' = IF operands.error = "NONE" THEN Tail(rules) ELSE SkipNonterminal(Tail(rules))
    /\ UNCHANGED <<request, array, cursor, attempts, pc, result, history>>

RuleFails ==
    /\ RuleEnds
    /\ operands.error # "NONE" /\ Checked(Stage)
    /\ Fail

EncodeReturns ==
    /\ pc = "emit" /\ rules = <<>>
    /\ olen' = bit_offset \div 8 /\ returned' = "NONE" /\ pc' = "client"
    /\ UNCHANGED <<request, array, cursor, attempts, rules, calls, history>>

Step == \/ Try \/ Choose \/ BindFails
        \/ EmitTooShort \/ EmitBytes \/ EmitBits \/ EmitChunk \/ EmitBitsEnd
        \/ RuleDone \/ RuleFails \/ EncodeReturns

Client == \/ \E s \in Settings : NewRequest(s) \/ Refill(s)
          \/ \E n \in ILens : Encode(n) \/ EncodeNop(n) \/ \E null \in BOOLEAN : EncodeRefuses(n, null)

Next == Step \/ Client
Spec == Init /\ [][Next]_vars /\ WF_vars(Step)
=============================================================================
