---------------------------- MODULE MCXedMemop -----------------------------
(***************************************************************************)
(* Calls of the direct encoder in the three modes, each with the address   *)
(* size of the mode.                                                       *)
(***************************************************************************)
EXTENDS XedMemopProps

Form(space, map, opcode, rex2, vsib, width, nregs, push) ==
    [space |-> space, map |-> map, opcode |-> opcode, rex2 |-> rex2, vsib |-> vsib,
     width |-> width, nregs |-> nregs, push |-> push]

Mov    == Form(Legacy, 0, \h89, TRUE, FALSE, 4, 32, FALSE)
Push   == Form(Legacy, 0, \hFF, TRUE, FALSE, 8, 32, TRUE)
Movaps == Form(Legacy, 1, \h28, TRUE, FALSE, 16, 16, FALSE)
Pshufb == Form(Legacy, 2, \h00, FALSE, FALSE, 16, 16, FALSE)
Vaddps == Form(Vex, 1, \h58, FALSE, FALSE, 16, 16, FALSE)
Vpgatherdd == Form(Vex, 2, \h90, FALSE, TRUE, 4, 16, FALSE)
Vaddps512 == Form(Evex, 1, \h58, FALSE, FALSE, 64, 32, FALSE)
Vpgatherdd512 == Form(Evex, 2, \h90, FALSE, TRUE, 4, 32, FALSE)
MCForms == {Mov, Push, Movaps, Pshufb, Vaddps, Vpgatherdd, Vaddps512, Vpgatherdd512}

MCModrm(vv, map, op) == ModrmTrue
MCDisp(vv, map, op, cx) == Keep
MCImm(vv, map, op, cx) == [imm |-> 0, imm1 |-> 0]

(* 2^16, and small numbers in place of 2^32 and 2^64 *)
MCAddressMax(w) == CASE w = 16 -> 65536 [] w = 32 -> 4194304 [] w = 64 -> 67108864

(* registers near the top of every address size, selectors in real mode *)
MCRegister(r) == CASE r \in SegRegs -> 4096 + r [] r = Rip -> 67108860 [] OTHER -> 67108800 - 5000 * r
MCSegment(r) == IF r = DS THEN 0 ELSE 1048576 * (r - 39)

Disps(dispsz) ==
    CASE dispsz = 0 -> {0}
      [] dispsz = 8 -> {-1, 5}
      [] dispsz = 16 -> {65, -129, 6401}
      [] dispsz = 32 -> {65, -129, 100000}

CallOf(mode, f, base, index, scale, d, disp, reg_, seg_, checked) ==
    [mode |-> mode, form |-> f, base |-> base, index |-> index, scale |-> scale, dispsz |-> d,
     disp |-> disp, reg |-> reg_, seg |-> seg_, checked |-> checked]

DispSizes(mode) == {0, 8, IF mode = Mode16 THEN 16 ELSE 32}

(* every pair of a base and an index, with every displacement *)
Ask(f, mode, bases, indices, scale, reg_, seg_) ==
    UNION {{CallOf(mode, f, b, i, IF i = NoReg THEN 1 ELSE scale, d, v, reg_, seg_, TRUE) :
               b \in bases, i \in indices, v \in Disps(d)} : d \in DispSizes(mode)}

Indices(f, set) == IF f.vsib THEN set ELSE set \cup {NoReg}
MemForms == MCForms \ {Push}

Long == UNION {Ask(f, Mode64, {0, 3, 4, 5, 11, 12, 13, 20, 21, 28, 29}, Indices(f, {0, 4, 5, 11, 12, 20, 29}), 8,
                   IF f.nregs = 32 THEN 26 ELSE 9, NoReg) : f \in MemForms}
Protected == UNION {Ask(f, Mode32, {0, 4, 5, 7}, Indices(f, {0, 4, 5}), 2, 1, NoReg) : f \in MemForms}
Real == UNION {Ask(f, Mode16, {BX, BP, SI, DI}, {SI, DI, NoReg}, 1, 1, NoReg) :
                  f \in {Mov, Push, Movaps, Pshufb}}

(* pushes, whose second operand is the stack, and segments that are named *)
Pushes == Ask(Push, Mode64, {4, 5}, {NoReg, 1}, 4, 6, NoReg) \cup Ask(Push, Mode32, {4, 5}, {NoReg, 1}, 4, 6, NoReg)
Segments == UNION {Ask(Mov, mode, {BX, BP}, {NoReg}, 1, 1, seg_) : mode \in Modes, seg_ \in SegRegs}

(* calls of the unchecked functions: relative to the instruction pointer, *)
(* with no base, and with an index no form has                            *)
Relative == {CallOf(Mode64, f, Rip, NoReg, 1, 32, v, 9, seg_, FALSE) :
                f \in {Mov, Vaddps, Vaddps512}, v \in {65, -129}, seg_ \in {NoReg, 44}}
            \cup {CallOf(Mode64, f, Rip, NoReg, 1, 0, 0, 9, NoReg, FALSE) : f \in {Mov, Vaddps, Vaddps512}}
Unchecked == {CallOf(Mode64, Mov, b, i, s, 8, 5, 1, NoReg, FALSE) : b \in {Rip, 0}, i \in {4, 1}, s \in {1, 3}}

(* arguments the checked functions refuse *)
Refused == {CallOf(Mode32, Mov, 8, NoReg, 1, 0, 0, 1, NoReg, TRUE),
            CallOf(Mode64, Mov, 0, 1, 3, 0, 0, 1, NoReg, TRUE),
            CallOf(Mode64, Vaddps, 0, 1, 1, 0, 0, 16, NoReg, TRUE),
            CallOf(Mode16, Mov, BX, BP, 1, 0, 0, 1, NoReg, TRUE)}

MemCalls == Long \cup Protected \cup Real \cup Pushes \cup Segments \cup Relative \cup Unchecked \cup Refused

(* the calls of the runs of a refuted statement *)
EvexCalls == Ask(Vaddps512, Mode64, {0, 5}, {NoReg}, 1, 26, NoReg)
RegisterCalls == Ask(Vaddps, Mode64, {0, 5, 20}, {NoReg, 1}, 1, 1, NoReg)
RealCalls == Ask(Mov, Mode16, {BX, SI}, {NoReg}, 1, 1, NoReg)

AskFor(i) == [xedd |-> TRUE, memop_index |-> i, callbacks |-> TRUE, out |-> TRUE]
MCAsks == {AskFor(0), AskFor(1), AskFor(2), [AskFor(0) EXCEPT !.xedd = FALSE],
           [AskFor(0) EXCEPT !.callbacks = FALSE], [AskFor(0) EXCEPT !.out = FALSE]}
MCReal == {TRUE, FALSE}
=============================================================================
