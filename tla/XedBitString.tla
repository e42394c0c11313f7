---------------------------- MODULE XedBitString ----------------------------
(***************************************************************************)
(* What the encoder's emitter promises, field by field: the encoding grows *)
(* as a string of bits by whole fields, each in the form the architecture  *)
(* gives it, never beyond the room there is.  XedEncode implements this.   *)
(***************************************************************************)
EXTENDS Integers, Sequences

CONSTANT Fields     \* records [val, bits]: bit b of the value, from the lowest, is <<val, b>>

VARIABLES
    string,         \* the bits emitted so far, in the order of the instruction stream
    room            \* the bits the caller's array holds

(* A field of whole bytes is stored low byte first, any other goes in from *)
(* its highest bit down.  Bits of the value above the field's are dropped. *)
Wire(f) ==
    [p \in 1..f.bits |->
        <<f.val, IF f.bits % 8 = 0 THEN 8 * ((p - 1) \div 8) + 7 - ((p - 1) % 8)
                                   ELSE f.bits - p>>]

Open == string' = <<>> /\ room' > 0 /\ room' % 8 = 0

Put(f) ==
    /\ Len(string) + f.bits <= room
    /\ string' = string \o Wire(f)
    /\ UNCHANGED room

Close == string' = <<>> /\ room' = 0

Init == string = <<>> /\ room = 0
Next == Open \/ Close \/ \E f \in Fields : Put(f)
Spec == Init /\ [][Next]_<<string, room>>
=============================================================================
