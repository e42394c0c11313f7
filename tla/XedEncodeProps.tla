--------------------------- MODULE XedEncodeProps ---------------------------
(***************************************************************************)
(* What a client of the encoder may rely on.                               *)
(***************************************************************************)
EXTENDS XedEncode

(* The bits of fields, of rules, and of the rules of the first two stages. *)
(* Recursive functions, for the proofs: the folds of the community modules *)
(* take operators, about which nothing can be proved by induction.         *)
Sum[fs \in Seq(Fields)] ==
    IF fs = <<>> THEN 0 ELSE Head(fs).bits + Sum[Tail(fs)]
Bits[rs \in Seq(Rules)] ==
    IF rs = <<>> THEN 0 ELSE Sum[Head(rs).fields] + Bits[Tail(rs)]
PrefixBits[rs \in Seq(Rules)] ==
    IF rs = <<>> THEN 0
    ELSE (IF Head(rs).stage \in {"prefix", "rex"} THEN Sum[Head(rs).fields] ELSE 0)
         + PrefixBits[Tail(rs)]

(* the array as a processor reads it, from the highest bit of each byte *)
Stream(n) == [p \in 1..n |-> array[(p - 1) \div 8][7 - ((p - 1) % 8)]]

Abstract == INSTANCE XedBitString WITH
    string <- IF pc = "client" THEN <<>> ELSE Stream(bit_offset),
    room <- IF pc = "client" THEN 0 ELSE 8 * ilen

Wires[fs \in Seq(Fields)] ==
    IF fs = <<>> THEN <<>> ELSE Abstract!Wire(Head(fs)) \o Wires[Tail(fs)]
Encoding[rs \in Seq(Rules)] ==
    IF rs = <<>> THEN <<>> ELSE Wires[Head(rs).fields] \o Encoding[Tail(rs)]

(* xed_encode has chosen an encoding and returned *)
Encoded == pc = "client" /\ chosen # <<>>
Whole == 8 * olen = Bits[chosen] /\ Stream(8 * olen) = Encoding[chosen]

(* What the generated functions answer, beyond the types: an encoding is   *)
(* made of bytes.  A field of bytes has one of the sizes there is a store  *)
(* for and starts at a byte, fields of bits fill a byte without crossing   *)
(* its end, and where an error does not end the encoding but only a        *)
(* nonterminal, its rules emit whole bytes.                                *)
InByte(f, at) ==
    IF f.whole \/ f.bits % 8 = 0 THEN at = 0 /\ f.bits \in {8, 16, 32, 64}
                                ELSE at + f.bits <= 8
Behind(q, k) == SubSeq(q, k, Len(q))
InBytes(rs) ==
    \A k \in DOMAIN rs : \A j \in DOMAIN rs[k].fields :
       InByte(rs[k].fields[j], (-(Sum[Behind(rs[k].fields, j)] + Bits[Behind(rs, k + 1)])) % 8)
WholeRules(rs) ==
    \A k \in DOMAIN rs :
       rs[k].stage \in {"prefix", "rex", "instruction"} \/ Sum[rs[k].fields] % 8 = 0
EmitsBytes(as) ==
    \A i \in DOMAIN as : as[i].outcome = "bound" =>
       Bits[as[i].rules] % 8 = 0 /\ InBytes(as[i].rules) /\ WholeRules(as[i].rules)
BindEmitsBytes == \A o : IsRequest(o) => EmitsBytes(Bind(o))

(* No attempt binds after one that failed with an error: the error would   *)
(* stay, and end the encoding at its first rule.                           *)
ErrorIsLast(as) ==
    \A i, j \in DOMAIN as :
       i < j /\ as[i].outcome = "next" /\ as[i].error => as[j].outcome # "bound"
BindErrorIsLast == \A o : IsRequest(o) => ErrorIsLast(Bind(o))

(* The type invariant. *)
TypeOKEncode ==
    /\ pc \in {"client", "bind", "emit", "loop"}
    /\ IsRequest(operands) /\ operands.error \in Errors /\ operands.vl \in 0..2
    /\ DOMAIN array = 0..ArrayBytes - 1
    /\ IsAnswer(attempts) /\ rules \in Seq(Rules)
    /\ bit_offset \in 0..8 * ilen
    /\ nbits \in 0..64 /\ bit_in_byte \in 0..7 /\ processed_bits \in 0..64
    /\ pc = "loop" => byte_offset <= ilen /\ nbits + processed_bits <= Field.bits

(* No byte of the array beyond the length the client gave is written, by   *)
(* either way of emitting a field and in the middle of the loop too.       *)
WithinArray == [][\A i \in DOMAIN array : array'[i] # array[i] => i < given']_vars

(* The emitter (xed_encoder_request_encode_emit) implements a string of    *)
(* bits that grows by whole fields, whether by one store or by the loop,   *)
(* within a byte or across bytes: what the array held before, bits of a    *)
(* value beyond its field and fields that are refused leave no trace.      *)
EmitsABitString == Abstract!Spec

(* What the emitter takes for granted: xed_encoder_request_emit_bytes that  *)
(* it starts at a byte, the loop of xed_encoder_request_encode_emit that    *)
(* it is for "inputs that are not multiples of 8-bits", or for one byte:    *)
(* it would emit the bytes of a longer value in the wrong order.            *)
FieldsAtBytes ==
    Emitting /\ ~TooShort(Field) =>
       /\ Field.whole => bit_offset % 8 = 0 /\ Field.bits % 8 = 0
       /\ Field.bits > 8 /\ Field.bits % 8 = 0 => bit_offset % 8 = 0

(* The assertions of xed_encode, xed_encoder_request_emit_bytes and        *)
(* xed_encoder_request_encode_emit: a field of bytes starts at a byte and  *)
(* is of a size there is a store for, and an encoding that succeeds ends   *)
(* at a byte within the array, even when fields of it were refused.        *)
AssertionsHold ==
    /\ FieldsAtBytes
    /\ Emitting /\ ~TooShort(Field) /\ Aligned(Field) => Field.bits \in {8, 16, 32, 64}
    /\ pc = "emit" /\ rules = <<>> => bit_offset % 8 = 0 /\ 8 * ilen >= bit_offset

(* An array with room for the whole encoding gets it: no field is refused  *)
(* that fits, no rule in between gives up, and none is left out.           *)
RoomIsEnough ==
    Encoded /\ opened.error = "NONE" /\ 8 * given >= Bits[chosen] =>
       returned = "NONE" /\ Whole

(* An array too short for the prefixes is an error, however few of their   *)
(* bits are missing and whatever would fit of the rest.                    *)
ShortForPrefixes ==
    Encoded /\ opened.error = "NONE"
       /\ 8 * given < PrefixBits[chosen] =>
       returned = "BUFFER_TOO_SHORT"

(* The error operand is never cleared, and a call that starts with an      *)
(* error in it does not report success, whatever the room: a client that   *)
(* has given too short an array has to zero the request.                   *)
StaleErrorFails ==
    pc = "client" /\ opened.error # "NONE" => returned # "NONE"

(* Preconditioning writes what it finds into the client's request, and     *)
(* leaves it such that the request, encoded again into a longer array for  *)
(* instance, has the same encodings tried as in the call that is running.  *)
EncodesTheSameAgain ==
    pc = "emit" => Bind(Precondition(operands)) = Bind(Precondition(opened))

(* Every call returns: the list of encodings, the fields and the loop over *)
(* the bytes of a field come to an end.                                    *)
EncodeTerminates == pc # "client" ~> pc = "client"

(* xed-encode.h: when the array is too short failure is indicated by an    *)
(* error; otherwise the encoding and its length are returned.              *)
NoneMeansWhole == Encoded /\ returned = "NONE" => Whole
=============================================================================
