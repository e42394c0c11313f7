------------------------------ MODULE XedAgen ------------------------------
(***************************************************************************)
(* xed_agen, which computes the address of a memory operand of a decoded   *)
(* instruction from what the client's callbacks say of its registers.  A   *)
(* callback may report a problem.  The operands are records of what the    *)
(* accessors of the decoded instruction return for memop 0 and memop 1.    *)
(* Values are unsigned numbers below the modulus of their width; AddressMax *)
(* gives the moduli, so that small ones can stand for 2^16, 2^32 and 2^64. *)
(***************************************************************************)
EXTENDS Integers

CONSTANTS
    AddressMax(_),      \* the modulus of 16, 32 and 64 bits
    RegisterValue(_),   \* what the register callback returns
    SegmentBase(_),     \* what the segment callback returns
    InvalidReg,         \* XED_REG_INVALID
    RegRip,             \* XED_REG_RIP
    Asks                \* how the client calls, see AskType

VARIABLES
    agen,               \* "idle", the value wanted next, or "returned"
    ask,                \* the arguments of the call
    insn,               \* what the accessors return, see Instruction
    base_value, segment_base, index_value,
    problem,            \* history: a callback reported a problem
    returned,           \* the error xed_agen returned
    out_address         \* {} or {what it stored}

agenvars == <<agen, ask, insn, base_value, segment_base, index_value, problem,
              returned, out_address>>

(* the arguments, and whether the callbacks have been registered *)
AskType == [xedd : BOOLEAN, memop_index : 0..2, callbacks : BOOLEAN, out : BOOLEAN]

NoAsk == [xedd |-> FALSE, memop_index |-> 0, callbacks |-> FALSE, out |-> FALSE]

Operand(base, index, scale, disp, seg) ==
    [base |-> base, index |-> index, scale |-> scale, disp |-> disp, seg |-> seg]
NoOperand == Operand(InvalidReg, InvalidReg, 1, 0, InvalidReg)
NoInstruction ==
    [memop |-> [i \in {0, 1} |-> NoOperand], width |-> 64, asz |-> 0, length |-> 0,
     real_mode |-> FALSE, push |-> [i \in {0, 1} |-> 0]]

ASSUME AgenAssumption ==
    /\ Asks \subseteq AskType
    /\ \A w \in {16, 32, 64} : AddressMax(w) \in Nat \ {0}

InitAgen ==
    /\ agen = "idle"
    /\ ask = NoAsk
    /\ insn = NoInstruction
    /\ base_value = 0 /\ segment_base = 0 /\ index_value = 0
    /\ problem = FALSE
    /\ returned = "NONE"
    /\ out_address = {}

Wrap(width, n) == n % AddressMax(width)
memop == insn.memop[ask.memop_index]

AgenReturn(e) == agen' = "returned" /\ returned' = e

(* the tests before anything is looked up *)
AgenStart ==
    /\ agen = "start"
    /\ IF ~ask.xedd THEN AgenReturn("GENERAL_ERROR")
       ELSE IF ask.memop_index \notin {0, 1} THEN AgenReturn("BAD_MEMOP_INDEX")
       ELSE IF ~ask.callbacks THEN AgenReturn("NO_AGEN_CALL_BACK_REGISTERED")
       ELSE agen' = "base" /\ UNCHANGED returned
    /\ UNCHANGED <<ask, insn, base_value, segment_base, index_value, problem, out_address>>

(* A callback that fails ends the call, whatever value it came back with.  *)
CallbackFails ==
    /\ problem' = TRUE
    /\ AgenReturn("CALLBACK_PROBLEM")
    /\ UNCHANGED <<ask, insn, base_value, segment_base, index_value, out_address>>

(* mutant: the error of the index callback is not looked at *)
IndexFailureUnseen ==
    /\ problem' = TRUE
    /\ agen' = "address"
    /\ UNCHANGED <<ask, insn, base_value, segment_base, index_value, returned, out_address>>
IndexFails == CallbackFails

(* a push addresses what it is about to write, below the stack pointer *)
BaseValue ==
    /\ agen = "base"
    /\ \/ memop.base # InvalidReg /\ CallbackFails
       \/ /\ base_value' = Wrap(64, (IF memop.base # InvalidReg THEN RegisterValue(memop.base) ELSE 0)
                                      - insn.push[ask.memop_index])
          /\ agen' = "segment"
          /\ UNCHANGED <<ask, insn, segment_base, index_value, problem, returned, out_address>>

(* in real mode a selector is the base, divided by 16 *)
SegmentValue ==
    /\ agen = "segment"
    /\ \/ memop.seg # InvalidReg /\ CallbackFails
       \/ /\ segment_base' = Wrap(64, IF memop.seg = InvalidReg THEN 0
                                      ELSE IF insn.real_mode THEN RegisterValue(memop.seg) * 16
                                      ELSE SegmentBase(memop.seg))
          /\ agen' = "index"
          /\ UNCHANGED <<ask, insn, base_value, index_value, problem, returned, out_address>>

IndexValue ==
    /\ agen = "index"
    /\ \/ memop.index # InvalidReg /\ IndexFails
       \/ /\ index_value' = Wrap(64, IF memop.index # InvalidReg THEN RegisterValue(memop.index) ELSE 0)
          /\ agen' = "address"
          /\ UNCHANGED <<ask, insn, base_value, segment_base, problem, returned, out_address>>

(* base + index * scale + displacement, in registers of the address width *)
Effective(width) ==
    Wrap(width, Wrap(width, base_value) + Wrap(width, index_value) * memop.scale + memop.disp)

(* mutant: the instruction pointer taken for that of this instruction *)
LinearOfThis == Wrap(insn.width, segment_base + Effective(insn.width))

Linear ==
    IF insn.width = 64 /\ memop.base = RegRip
    THEN LET lin64 == Wrap(64, base_value + insn.length + memop.disp)
         IN  IF insn.asz = 1 THEN Wrap(32, lin64) ELSE lin64
    ELSE Wrap(insn.width, segment_base + Effective(insn.width))

Address ==
    /\ agen = "address"
    /\ IF ask.out THEN out_address' = {Linear} /\ AgenReturn("NONE")
                  ELSE AgenReturn("NO_OUTPUT_POINTER") /\ UNCHANGED out_address
    /\ UNCHANGED <<ask, insn, base_value, segment_base, index_value, problem>>

NextAgen == AgenStart \/ BaseValue \/ SegmentValue \/ IndexValue \/ Address
=============================================================================
