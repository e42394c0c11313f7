------------------------------ MODULE MCXedIld ------------------------------
(***************************************************************************)
(* The instruction length decoder on concrete bytes: opcode bytes of every *)
(* encoding space behind prefix sequences, offered at every length.        *)
(* The generated tables are given the rows of the opcodes that occur, read *)
(* off the instruction patterns in the data files.                         *)
(***************************************************************************)
EXTENDS XedIldProps, SequencesExt

CONSTANTS PrefixSeqs,   \* prefix sequences
          HeadSeqs,     \* what follows them
          Offers        \* numbers of bytes offered

Filler == <<\h11, \h22, \h33, \h44, \h55, \h66, \h77, \h88, \h99, \hAA, \hBB, \hCC, \hDD, \hEE, \hFF>>

MCInputs == {[itext |-> p \o h \o Filler, bytes |-> n] :
                p \in PrefixSeqs, h \in HeadSeqs, n \in Offers}

(* legacy map 0: opcodes without a ModRM byte, map 1: those that have none, *)
(* ignore its mod field, or are UD0                                        *)
Map0NoModrm == {\h05, \h68, \h6A, \h90, \h9A, \hA1, \hB8, \hC8, \hE8, \hEB}

MCModrm(vv, map, op) ==
    CASE vv = Legacy /\ map = 0 -> IF op \in Map0NoModrm THEN ModrmFalse ELSE ModrmTrue
      [] vv = Legacy /\ map = 1 -> CASE op \in {\h05, \h77, \h84} -> ModrmFalse
                                     [] op = \h20 -> ModrmIgnoreMod
                                     [] op = \hFF -> ModrmUd0
                                     [] op = \h04 -> ModrmUndef
                                     [] OTHER     -> ModrmTrue
      [] vv = Vex /\ map = 1    -> IF op = \h77 THEN ModrmFalse ELSE ModrmTrue
      [] OTHER                  -> ModrmTrue

MCDisp(vv, map, op, cx) ==
    LET eosz == EOSZ(cx.mode, cx.osz, cx.rexw)
    IN  CASE vv # Legacy -> Keep
          [] map = 0 /\ op = \hEB -> 1
          [] map = 0 /\ op = \h9A -> BRDISPz(eosz)
          [] map = 0 /\ op = \hE8 -> IF cx.mode = Mode64 THEN 4 ELSE BRDISPz(eosz)
          [] map = 0 /\ op = \hA1 -> IF cx.rex2 = 1 THEN 8 ELSE MEMDISPv(EASZ(cx.mode, cx.asz))
          [] map = 0 /\ op = \hC7 -> IF cx.reg = 7 THEN BRDISPz(eosz) ELSE Keep
          [] map = 1 /\ op = \h84 -> IF cx.mode = Mode64 THEN 4 ELSE BRDISPz(eosz)
          [] OTHER -> Keep

MCImm(vv, map, op, cx) ==
    LET eosz == EOSZ(cx.mode, cx.osz, cx.rexw)
        df64 == IF cx.mode = Mode64 /\ cx.osz = 0 THEN 3 ELSE eosz
        one(w) == [imm |-> w, imm1 |-> 0]
    IN  CASE vv = Legacy /\ map = 0 ->
               CASE op \in {\h6A, \h83}     -> one(1)
                 [] op \in {\h05, \h81}     -> one(SIMMz(eosz))
                 [] op = \h68               -> one(SIMMz(df64))
                 [] op = \hB8               -> one(UIMMv(eosz))
                 [] op = \h9A               -> one(2)
                 [] op = \hC8               -> [imm |-> 2, imm1 |-> 1]
                 [] op = \hC7 /\ cx.reg = 0 -> one(SIMMz(eosz))
                 [] op = \hF7 /\ cx.reg < 2 -> one(SIMMz(eosz))
                 [] OTHER                   -> one(0)
          [] vv = Legacy /\ map = 1 ->
               IF op = \h78 /\ 1 \in {cx.osz, cx.f2} THEN [imm |-> 1, imm1 |-> 1]
               ELSE one(IF op \in {\h70, \hC2, \hC6} THEN 1 ELSE 0)
          [] vv \in {Vex, Evex} /\ map = 1 -> one(IF op \in {\h70, \hC2, \hC6} THEN 1 ELSE 0)
          [] OTHER -> one(0)

-----------------------------------------------------------------------------
(* Values for the configuration files. *)
Chip(mode) == [mode |-> mode, no_vex |-> 0, no_evex |-> 0, no_apx |-> 0,
               could_support_xop |-> TRUE, mode_first_prefix |-> FALSE,
               mode_short_ud0 |-> FALSE]
ChipAll == {Chip(m) : m \in Modes}
(* an old chip, a chip with AVX only, one with AVX512 and no APX, and the newest *)
OldChip(mode) == [Chip(mode) EXCEPT !.no_vex = 1, !.no_evex = 1, !.no_apx = 1,
                    !.could_support_xop = FALSE, !.mode_first_prefix = TRUE,
                    !.mode_short_ud0 = TRUE]
Chips == ChipAll
         \cup {OldChip(m) : m \in {Mode16, Mode32}}
         \cup {[Chip(Mode64) EXCEPT !.no_evex = 1, !.no_apx = 1]}
         \cup {[Chip(m) EXCEPT !.no_apx = 1, !.could_support_xop = FALSE] : m \in {Mode32, Mode64}}

AllOffers == 0..16
TwoOffers == {2, 12}

PrefixBytes == {\h2E, \h3E, \h26, \h64, \h65, \h66, \h67, \hF0, \hF2, \hF3, \h48, \h41}
UpTo3Prefixes == SeqOf(PrefixBytes, 3)

FewPrefixes == {<<>>, <<\h66>>, <<\h67>>, <<\hF2>>, <<\h48>>, <<\h48, \h66>>, <<\h66, \h48>>,
                <<\h66, \h66, \h66, \h66, \h66, \h66, \h66, \h66, \h66, \h66>>}


LegacyHeads ==
    {<<\h90>>, <<\h05>>, <<\h68>>, <<\h6A>>, <<\hA1>>, <<\hB8>>, <<\hC8>>, <<\h9A>>, <<\hE8>>, <<\hEB>>,
     <<\h89, \h05>>, <<\h89, \h06>>, <<\h89, \h04, \h25>>, <<\h89, \h44, \h24>>, <<\h89, \h84>>,
     <<\h89, \hC0>>, <<\h81, \h44, \h24>>, <<\h83, \h80>>, <<\hF7, \h00>>, <<\hF7, \h18>>,
     <<\hC7, \hF8>>, <<\hC7, \h04, \h05>>,
     <<\h0F, \h05>>, <<\h0F, \h20, \h05>>, <<\h0F, \hFF, \h40>>, <<\h0F, \h04, \h00>>,
     <<\h0F, \h78, \hC1>>, <<\h0F, \h84>>, <<\h0F, \h38, \h00, \h40>>, <<\h0F, \h3A, \h0F, \h04, \h24>>,
     <<\h0F, \h0F, \h44, \h24, \h10, \h9E>>}

VectorHeads ==
    {<<\hC4, \hE1, \h78, \h58, \hC0>>, <<\hC4, \hE3, \h79, \h0F, \h44, \h24>>, <<\hC4, \h40>>,
     <<\hC4, \hE0, \h78, \h58>>, <<\hC4, \hE7, \h78, \h01, \hC0>>,
     <<\hC5, \hF8, \h77>>, <<\hC5, \hF9, \h70, \h40>>, <<\hC5, \h04, \h25>>, <<\hC5, \h44, \h24, \h08>>,
     <<\h8F, \hC0>>, <<\h8F, \hE8, \h78, \hC2, \hC0>>, <<\h8F, \hEA, \h78, \h10, \h05>>, <<\h8F, \hEF, \h78, \h10>>,
     <<\h62, \h44, \h24>>, <<\h62, \hF1, \h7C, \h08, \h58, \h44, \h24>>,
     <<\h62, \hF1, \h7D, \h08, \hC6, \hC0>>, <<\h62, \hF1, \h7C, \h80, \h58, \hC0>>,
     <<\h62, \hF1, \h7C, \h68, \h58, \hC0>>, <<\h62, \hF1, \h7C, \h78, \h58, \hC0>>,
     <<\h62, \hF1, \h7C, \h80, \h58, \h40>>, <<\h62, \hF1, \h7C, \h00, \h58, \h40>>,
     <<\h62, \hF0, \h7C, \h08>>, <<\h62, \hF8, \h7C, \h08>>, <<\h62, \hF9, \h78, \h08, \h58, \h40>>,
     <<\hD5, \h08, \h81, \h44, \h24>>, <<\hD5, \h80, \h70, \hC0>>, <<\hD5, \h00, \hA1>>, <<\hD5, \h48, \hB8>>}

AllHeads == LegacyHeads \cup VectorHeads

(* Every order of prefixes before one opcode, beside the heads behind few prefixes *)
PrefixInputs == {[itext |-> p \o <<\h90>> \o Filler, bytes |-> n] : p \in UpTo3Prefixes, n \in TwoOffers}
AllInputs == MCInputs \cup PrefixInputs
=============================================================================
