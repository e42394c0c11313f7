# A verification development of XED

XED encodes and decodes x86 instructions. It is a sequential C library whose
tables are generated, by Python programs, from a database of instructions. This
directory holds TLA+ modules that model its decoder, its two encoders, the
address computation, the generator of the decoder's lookup functions and the
disassembly loop of its tools, the TLC configurations that check them on small
instances, and proofs, checked by TLAPS, of what holds for every instance.

## The system

| Component | Code | State | Operations | What makes it correct |
|---|---|---|---|---|
| Instruction length decoder (ILD) | `src/dec/xed-ild.c` | the operand storage of the `xed_decoded_inst_t`: length, error, out_of_bytes, prefixes, encoding space, map, opcode, ModRM, SIB, widths and positions | a chain of scanners, each of which may stop the chain | reads only what was offered; the fields tile the instruction; an answer stays the same when more bytes are offered; the prefix that counts is the one the manuals say |
| Decode entry points | `src/dec/xed-decode.c`, `xed3-static-decode.c`, `xed3-dynamic-decode.c` | the same structure, `_inst`, the chip | `xed_decode`, `xed_decode_with_features`, `xed_ild_decode` | accepts only what is legal in the mode and on the chip; reports errors consistently; depends on nothing but its arguments |
| Initialisation | `src/dec/xed-decoded-init.c`, `src/common/xed-state.c` | mode, stack width, real mode | zero, zero and set the mode, zero and keep the mode | nothing of an earlier decode is left |
| Chip modes | `src/common/xed-chip-modes.c` | preset operands | `set_chip_modes` | an encoding the chip lacks is not decoded as such |
| Map descriptions and ILD tables | `pysrc/map_info_rdr.py`, `pysrc/ild*.py`, `datafiles/*-maps.txt` | generated tables | lookup by space, map and opcode | an entry for every opcode of a map whose lengths vary |
| Static-decoder lookup | `pysrc/ild_cdict.py`, `ild_phash.py`, `hash*.py`, `tup2int.py` | the patterns of one opcode, the dictionary made of them, the hash functions found | narrow operands, multiply out, search for hash functions; look a key up | finds the pattern whose tests hold, reports the conflicts there are |
| Encoder core | `src/enc/xed-encode.c`, `xed-encode-isa-functions.c`, functions generated by `pysrc/read-encfile.py` | the operands of the request, the error among them; the ephemeral variables: `ilen`, bit offset; the client's array | zero and fill in a request, preconditioning, the encodings of an iclass tried in order, the prefix, REX and instruction stages, two emitters, nops | never writes past `ilen`; emits whole fields in the form of the architecture; says so when it could not |
| High-level encoder | `src/enc/xed-encoder-hl.c` | a builder record | turns it into a request | an error for what it cannot express |
| Encode from decode, patch | `src/encdec` | a decoded structure turned into a request; instruction bytes | `xed_encoder_request_init_from_decode`, `xed_patch_*` | only the field asked for changes |
| Direct encoder (enc2) | `src/enc2`, `src/enc2chk`, functions generated by `pysrc/enc2gen.py` | the fields of `xed_enc2_req_t`, byte buffer and cursor | one function per form and addressing mode, and a variant that checks its arguments | what it emits decodes to its arguments, in few enough bytes |
| Accessors | `src/dec/xed-decoded-inst.c`, `src/common/xed-operand-*.c` | none of their own | queries | |
| Formatters | `src/dec/xed-disas.c` | a bounded string buffer | AT&T, Intel and XED syntax | never writes past the buffer |
| Utilities | `src/common/xed-util.c`, `xed-immdis.c` | byte accumulator | sign extension, byte order | arithmetic |
| Address generation | `src/dec/xed-agen.c` | two callbacks, a flag for their problems | linear address of memop 0 or 1 | the address the processor would form; none after a failed callback |
| Flags, CPUID, isa-sets | `src/common/xed-flags.c`, `xed-cpuid.c`, `src/dec/xed-chip-features.c` | bit vectors | set, test | |
| Table initialisation | `src/common/xed-init.c` | a flag | `xed_tables_init` | done before the first use |
| Example tools | `examples/xed-examples-util.c`, `xed-symbol-table.c`, `avltree.c` | AVL trees of global and local symbols, the current section; the position of the sweep | add, look up; decode, step on, skip zeros, start again at a symbol | the trees are maps; symbols start instructions; the end is reached |
| Generator, data, build | `pysrc`, `datafiles`, `mfile.py` | | offline | |

**How they interact.** A client initialises a `xed_decoded_inst_t` with a mode,
optionally chooses a chip, and calls a decoder. `xed_decode_with_features`
presets the operands of the chip, cuts the offered length at 15 bytes, runs the
length decoder, looks the instruction up by what the length decoder found,
captures the operands of the entry, and checks what the captured operands say.
Everything passes through one structure: the error and the out-of-bytes flag
are operands of it that any stage can write.

An encoder client zeroes a request, fills it in and calls `xed_encode` with an array
and its length. `xed_encode` zeroes its ephemeral variables, preconditions the
request (RIP displacement, vector length, `HAS_EGPR`, `MUST_USE_EVEX`), has the generated
bind functions choose an encoding, and then has the emit functions emit its fields, stage
by stage, through `xed_encoder_request_encode_emit` and
`xed_encoder_request_emit_bytes`. These test the room, and set the error operand
when there is none; whether anybody looks at it depends on the stage.

The direct encoder needs no request of the client's: each of its functions checks its arguments, if
asked to, sets the fields of a request of its own and emits bytes at a cursor. What it emits goes through
the decoder, whose operands `xed_agen` turns into an address with the client's callbacks for register
values and segment bases. The disassembly loop of the tools calls the decoder again and again and asks a symbol
table, a tree of trees, where instructions should begin. The lookup of the decoder is written by the
generator: a function for each opcode that packs operands into a key and finds the key in one or two hash tables.

**What is hard.** There are no threads, no persistent state and no messages.
What is hard is the protocol of one structure: a dozen scanners that each test
the buffer for themselves, some of which end the scan on running out of bytes
and some of which let the next ones go on; errors that overwrite one another; a
structure used again; two decoders of the same bytes; a client that tries again
with more bytes; bytes looked at before it is known whose they are; and in the
encoder an emitter that goes on after an error, bits of several fields in one
byte, and a request that keeps what a call wrote into it; register bits spread over a prefix, inverted in some
forms, that one program writes and another reads; hash tables filled in one arithmetic and read
in another; addresses that wrap at three widths; a loop that steps by what a decoder answers. The full list,
with lines, is under `hazards` in `PROJECT.json`.

## Modules

| Module | Contents |
|---|---|
| `XedIldTables` | modes, encoding spaces, operand and address sizes, the regular ModRM tables, map descriptions |
| `XedIld` | the length decoder: one action per scanner, one per byte in the prefix loop |
| `XedIldProps` | its type invariant and properties |
| `XedIldFunction` | the length decoder once more, as a function from a question and a state of the scan to the next state; only the proofs use it |
| `XedIldProofs`, `XedIldFieldProofs` | TLAPS proofs: bounds and errors, and that each action is a step of the function; prefixes and fields |
| `XedIldTruncation` | two decodes of one text, the second with more bytes: `XedIld` composed with an instance of itself |
| `XedDecode` | the client, the initialisations, chip modes and the decode pipeline, composed with `XedIld` |
| `XedDecodeProps`, `XedDecodeProofs` | its type invariant and properties; TLAPS proofs |
| `XedBitString` | abstract specification: a string of bits that grows by whole fields and never beyond its room |
| `XedEncode` | the encoder: client, preconditioning, choice of an encoding, both emitters, the three stages |
| `XedEncodeProps` | its type invariant and properties, and the refinement mapping to `XedBitString` |
| `XedEncodeProofs` | TLAPS proofs |
| `XedPatch`, `XedPatchProofs` | the patch functions between the two decodes of `XedIldTruncation`; TLAPS proofs about two decodes, with and without a patch |
| `XedEnc2` | the direct encoder for memory operands: argument checks, fields, prefixes of every space, ModRM, SIB, displacement |
| `XedAgen` | `xed_agen`, a step per callback |
| `XedMemop` | the two with `XedIld` between them, and the capture of a memory operand by the generated nonterminals |
| `XedMemopProps`, `XedMemopProofs` | what must come back and which address is meant; TLAPS proofs |
| `XedSymbolMap` | abstract specification: a symbol table as functions from addresses to names |
| `XedSymbolTable` | the table as it is: AVL trees, one of them of trees |
| `XedSweepLoop` | the disassembly loop over any decoder and any set of symbols |
| `XedSweep` | the loop with the table, a refinement of `XedSymbolMap` |
| `XedSweepProofs` | TLAPS proofs about the loop, the trees and the refinement |
| `XedHash` | the hash functions of the lookup, as computed by the generator and by the C code it emits, and the order in which they are tried |
| `XedPhash` | from the patterns of an opcode to a lookup function, step by step, and what the function answers |
| `XedPhashProps`, `XedPhashProofs` | what a lookup promises; TLAPS proofs |
| `MCXedIld`, `MCXedIldAgain`, `MCXedDecode`, `MCXedEncode`, `MCXedMemop`, `MCXedSweep`, `MCXedPhash` | small tables, chips, texts, calls, regions and patterns for TLC |

**From code to model.** `pc` names the scanner that runs next. Each scanner of
`xed_instruction_length_decode` is an action or a few actions (`VexC4`,
`VexShort`, ...) whose guards are the returns of the scanner; after ModRM every
scanner has one action with a disjunct per way out, since none of them stops the
scan. `pfx`, `enc`, `mrm` and `imd` group the operands a scanner writes under
their names in the code. Widths are in bytes where the code keeps bits. `reads`
is a history variable, one more than the highest index of `itext` read so far;
it is what says that a byte was examined. It counts the whole of a displacement
or immediate that is consumed. The prefix table, `has_disp_regular`,
`has_sib`, and `eamode` are operators; `XED_ERROR_X` is `"X"`.

The ModRM, displacement and immediate tables the generator writes are constants
(`ModrmCode`, `DispWidth`, `ImmWidth`), with the assumptions that they have an
entry wherever the map description says that lengths vary. The map descriptions
are `MapInfo`, read off the data files. The lookup of an instruction and its
capture functions are the constant `Lookup`, which gives an entry with an isa-set,
attributes, and the error its capture ends with.

Bits that are copied from prefix payloads and used by nobody in the modelled
code are left out: register extensions, `vvvv`, `L`, `pp` (kept only where it
sets an operand size), and the values of displacements and immediates.
Logging is left out.

In `XedDecode`, `phase` is `"client"` or the stage of the running decode,
`fresh` says the structure was initialised and not decoded into since. The
actions of the client follow the contract of the documentation
(`docsrc/xed-doc-top.txt`): initialise before every decode. `MaxCalls` bounds
the number of decodes; `calls` counts them. `first` is a history variable with
the answer to the first decode, to compare a later one with.

In `XedEncode`, `pc` is `"client"`, `"bind"` while encodings are tried, `"emit"`
between the fields of the chosen one, or `"loop"` within a field that goes in bit by
bit; each pass through that loop is a step. The generated functions are the constant
`Bind`, an operator from the preconditioned operands to the list of attempts: one that
does not match or bind (`next`, with the error operand set by the way or not), one
that the prefix stages refuse, or one that is bound, with its rules. A rule has a stage,
`prefix`, `rex`, `instruction`, or the name of the nonterminal below the instruction
it belongs to (MODRM, an immediate), and the fields it emits; what it does about an error follows its
stage, as in the code that `read-encfile.py` and `codegen.py` generate. Bits are symbolic: `<<v, b>>`
is bit b of the value v, and the array starts with bits of its own, so any bit
that comes from elsewhere is seen. OR of two bits of which neither is the zero of a cleared
byte is `"mixed"`, which no string of fields contains. `given`, `opened` and
`chosen` are history variables: the length and the operands of the call and the rules
chosen. A client may zero the request before a call, fill it in again, or leave it;
after a failure the documentation does not say which it has to do.

`XedPatch` stands between the two decodes: the text changes where the positions recorded by
the first say, or not at all, and the second decode reads the result.

In `XedEnc2`, `stage` is where the call of a direct-encoder function is: the argument checks, the fields, the prefix, opcode with
ModRM and SIB, displacement. A form is a record of what the generator bakes into a function (encoding
space, map, opcode, whether it may use REX2, vector index, operand width), a call a record of a form and arguments;
registers are numbers, with RIP and the segments behind the 32 of the class. `emitted` are the bytes. Displacements are
integers and become bytes in two's complement. `XedMemop` gives these bytes to `XedIld` as its text, with no bound on what is behind them; `Capture`
reads base, index, scale, displacement and segment from the length decoder's fields by the tables of `datafiles`, with the register bits of each prefix taken from the bytes.
`XedAgen` then computes the address, `problem` being the flag its callbacks set; each callback may fail.
`AddressMax` gives the moduli of the three widths, so that TLC's 32-bit integers suffice: what the code
cuts to 16, 32 and 64 bits is cut to these. The 20 bits of real mode keep their place.

In `XedSymbolTable` a pointer is `<<>>` or `<<node>>`, so a rotation is written as the code
writes it, on nodes with a height and a balance. In `XedSweepLoop`, positions count from the start of the section; a step is one turn of the loop with the decode in it, and
the decoder answers anything: any length up to what it was offered, with an error or without. `shown`, `tried` and
`skipped` are histories. The functions of `avltree.c` that call themselves are recursive functions over `Pointers(t)`, the
pointers within as many steps as the top of the tree is high: `RECURSIVE` operators would put the trees out of the prover's reach.

In `XedPhash`, `stage` says which step of `_get_united_cdict` and `gen_hash` is next. A pattern is a rule number and
the tests of its operand deciders; constraints are functions from operands to sets of values, and a bound field counts as an `eq` test, which is
the same to this code. A `dict` is a function from keys to rules, a table a function from slots to a key and a rule.
`Apply` is the Python method that fills the tables, `Index` the C expression that is emitted to
look one up; `Word` and `KeyWord` stand for 2^32 and 2^64. The search takes the first function in the
order of the loops, `Earliest`. The lengths `n`, `1.1 n`, ... are computed in exact
arithmetic, not in Python's floating point, and a two-level table's buckets are
searched from the lowest, which the result does not depend on.

Operators whose comment says `mutant` stand before the operator they vary. They
are plausible faults: put in place of that operator, each makes a run report
one of its properties violated. Nothing else uses them; `PROJECT.json` lists
the pairs.

## Runs

| Run | Question | Bounds |
|---|---|---|
| `ild_bytes` | Bounds, tiling, errors, which prefix counts, termination: `TypeOK InBounds NoLookahead FieldsTile OutOfBytesMeaning VexRefusesPrefixes RexCounts RepChoice SegChoice NoTrackHint OutOfBytesSticks Terminates` | instruction heads of every space and map behind eight prefix sequences, offers of 0 to 16 bytes; all sequences of up to three of twelve prefixes before one opcode, offers of 2 and 12 bytes; nine chip settings |
| `ild_again` | Are answers final when more bytes come, and does a patch change its field only? `MoreBytesKeepTheAnswer AsksOnlyWhenNeeded PatchKeepsTheRest PatchExactly` | the same heads behind four prefix sequences, first offers of 0 to 14; patches of 1, 2, 4 and 8 bytes of 0 or 200 |
| `decode` | Is what is accepted legal, does an earlier decode leave anything behind, do both decoders agree? `TypeOKDecode EncodingsOfTheChip AcceptedIsLegal SameQuestionSameAnswer LengthsAgree` | 21 texts, three modes, all chips of the table and one explicit feature vector, three decodes (after the first, only of texts whose answer depends on chip or mode: `Explored`) |
| `encode` | Is the answer right for every array length, and what does a request carry from one call to the next? `TypeOKEncode AssertionsHold RoomIsEnough ShortForPrefixes StaleErrorFails EncodesTheSameAgain` | 15 requests (one or more of each way through the encoder and of each thing preconditioning does), lengths 0 to 15; a second call with lengths 1, 3 and 15 (`Explored`) |
| `encode_emitter` | Does the emitter implement a bit string within the array, and end? `WithinArray EmitsABitString EncodeTerminates` | any three fields of widths 1, 3, 7, 8, 9, 12 and 18, six lengths, an array that was not zero before |
| `memop` | Does a memory operand come back from the direct encoder, and is its address the one meant? `OperandComesBack AddressIsMeant NoAddressOfAFailure` | about 5800 calls: eight forms (legacy with and without REX2, PUSH, VEX, EVEX, vector indices), every kind of base and index, scales, displacements at the edges of their widths, segment overrides, three modes, real mode or not, both memops; every callback may fail; moduli 2^16, 2^22 and 2^26 for 2^16, 2^32 and 2^64 |
| `sweep` | Are the trees maps, and does the loop find the symbols and its end? `AvlShape SymbolsAreStarts TableImplementsMap SweepReachesTheEnd` | seven symbols in every order, three sections of local ones; 33 regions of seven bytes, at most three bytes offered per decode, any answers |
| `phash` | Does the lookup find the pattern, are conflicts reported? `FindsThePattern LookupIsDirect ConflictsAreReal` | all pairs of 54 patterns over MOD, VEX destination, MASK and REXW, triples with RM and REG, WBNOINVD's group, 500 sets of immediates; words of 10 and 20 bits, 633 for the golden ratio, primes 2, 3 and 5, multipliers below 6, buckets of 2 |
| `encode_short`, `enc2_evex`, `enc2_regs`, `agen_real` | four statements of the documentation that the code does not keep | as `encode` and `memop`, smaller |

**Why these bounds are enough.** A prefix acts through at most one earlier prefix
of each class, so three bytes reach all the interactions (a fourth could only
repeat one). A head is at least one instruction of every path through the
scanners: each space and map, ModRM forms with and without SIB and displacement,
every kind of displacement and immediate function of the tables (by operand
size, by address size, by ModRM.reg, by prefix, two immediates), every error, and
with ten 66 prefixes before it each of them crosses the 15-byte limit somewhere.
Every length is offered, so each test of a scanner meets both its sides and its
boundary. For histories, three decodes are one to leave something behind and two to
compare, and the texts decoded again are those whose answer depends on the
mode, the chip and the prefix preset. For the encoder, three fields are enough
to start a byte, to go on within it and to leave it; the widths are below, at and above a
byte, and 18 bits from any offset touch three bytes. The requests have one of each
structure of stages (legacy, REX, REX2, VEX in two and three bytes, EVEX; with and without SIB, displacement
and immediates), with every length from none to the longest, so that the array ends before,
in and after each of their fields. Two calls are one that leaves something behind and one that meets it.
For a memory operand, the registers are those of each way through the functions (RSP, RBP, R12, R13 and their like among R16
to R31, none, RIP) in each role; register values and moduli are chosen so that every sum wraps at every width in some call.
AVL trees of seven nodes reach height three or four, where each of the four rotations happens at the root and below. A region of
seven bytes has room for two decodes of the longest offer and a rest, with symbols before, at, in and behind each. The
immediates of `phash` include sets for which linear functions, multiplication and FKS are taken, alone and at both levels, and sets for which
each search ends in vain; a word of ten bits is wider than every key of the patterns, as 32 bits are.

**Deadlock.** The runs say `CHECK_DEADLOCK FALSE`: a decode, an address, a sweep or a search ends, and the client
stops after `MaxCalls` calls. That a call does end are the properties `Terminates`,
`EncodeTerminates` and `SweepReachesTheEnd`.

**Fairness.** `Spec` has weak fairness of the next-state action as a whole:
the scanners are straight-line calls of one function that runs to its end, and
the prefix loop is part of it. `Terminates` needs no more. `SpecDecode` has
no fairness: a client need not call anything, and no property of it is about
what must eventually happen. `Spec` of `XedEncode` has weak fairness of `Step`, the steps inside
a call, for the reason given for the scanners, and none of the client's actions. `SpecSweep` has weak fairness of
a turn of the loop, which one thread runs, and of nothing before it. `SpecMemop` and `SpecPhash` have no fairness.

**Statements that the runs refute.** Each has a finding in `PROJECT.json`.
`encode_short`: `xed-encode.h` says that an array too short is an error, or else the
encoding was written; behind the prefixes the error of a field is dropped, and ENTER into an array of two
bytes is a success of two bytes, the opcode and its last immediate.
`enc2_evex`: an EVEX function for a 32-bit displacement (`bd32`) whose argument, divided by the operand width, fits a byte
emits one byte of displacement behind a ModRM byte that announces four.
`enc2_regs`: the checked functions take R16 to R31 as base or index of forms that cannot encode them, and encode another register.
`agen_real`: with a 16-bit address width the sum of segment base and offset is kept in 16 bits, so
real-mode addresses lose the segment's upper bits.
`AddressIsMeant` and `OperandComesBack` exclude exactly these cases and hold for all others.

**Observations without a run**, met while reading the code for a definition:

- `xed-ild.h` says that `xed_ild_decode` has only two failure codes; it returns whatever the
  scanners stored, `BAD_MAP` for instance.
- A comment in `imm_scanner` says that 3DNow! instructions have no immediate bytes; the width of the map's immediate is set before that branch and stays.
- `xed_decoded_inst_valid` says yes to an instruction that `xed_decode` refused: the static decoder sets `_inst` in any case, and
  `INVALID_FOR_CHIP` and the `GENERAL_ERROR` of a failed lookup are returned without being stored.
- `xed_agen` adds no segment base for a RIP-relative operand with an FS or GS override, nor the instruction's length for an EIP-relative one (address-size prefix);
  the address of a push uses the effective address width where the processor uses the stack's.
- The unchecked 16-bit functions of enc2 encode base SI with index BP as another pair; a base of INVALID
  becomes RBP with a displacement and lacks the four bytes it needs without one.
- `xst_set_current_table` before the first local symbol of a section leaves the section without
  a table for good, and `xed_disassembly_callback_function` prefers any global symbol below an address to a nearer local one. The loop resynchronises in
  decode-only mode alone.
- A pattern that constrains no operand is dropped by `constraint_dict_t`, whose test for missing
  constraints takes empty ones for missing: beside other patterns it is neither found nor reported as a conflict (`FindsThePattern` and `ConflictsAreReal` assume that
  there is none; WBINVD in `xed-isa.txt` would be one beside WBNOINVD but for its VERSION=2). Several such patterns and no other make the generator fail.
- `_has_VEXDEST_equals_1F_restriction` inverts the fourth bit twice, so either value becomes a one; `_replace_VEXDEST_with_VD1F` looks
  at VEXDEST3 where it means VEXDEST4; `_has_VEXDEST210_equals_7_restriction` would take `VEXDEST210!=7`
  for an equality where the grammar has two values. The data meet none of them: its only tests are VEXDEST210=7, VEXDEST3=1 and VEXDEST4=0.
- Keys are compared with a 32-bit field and not checked to fit it; `LookupIsDirect` assumes it (`KeysFit`), and the proof of `FindsThePattern` that a key looked up fits 64 bits (`KeysAreNarrow`; every group of `phash` does).

## Proofs

`XedIldProofs` proves, for every maximal length, every text, every number of
bytes offered, every preset and every contents of the generated tables that
meets the named assumptions (`MaxAssumption`, `InputAssumption`,
`ConfigAssumption`, `ModrmAssumption`, `DispAssumption`, `ImmAssumption`, which
TLC evaluates in the runs):

| Theorem | Statement |
|---|---|
| `IldInvariant` | `Spec => []IldInv` |
| `TypeCorrect` | `Spec => []TypeOK` |
| `NeverReadsPastTheBuffer` | `Spec => []InBounds` |
| `OutOfBytesMeans` | `Spec => []OutOfBytesMeaning` |
| `OutOfBytesIsFinal` | `Spec => OutOfBytesSticks` |

`InBounds` is not inductive. The VEX, EVEX, REX2 and opcode scanners read their
first byte without comparing `length` with `max_bytes`; they may because the
prefix loop hands over only when a byte is left and nothing in between consumes
one unless it also takes the scan elsewhere. `ByteLeft` says so; it needs to know
that whoever falls through the EVEX scanner had no VEX prefix, which is why it
speaks of `enc.vexvalid`. `PrefixCount` ties the number of prefixes to the length,
so that it stays in range. `MapCodes` says that the codes copied from the map
description are those of the current map or not yet set; the assumptions about
the tables cover only the maps whose description says "variable", so the
types of the widths looked up rest on it. `IldInv` is the conjunction. The
proof has a lemma per action and a lemma for each record that an action writes.
`OutOfBytesMeans` and `OutOfBytesIsFinal` use further invariants on top of it,
stated before them.

The module also relates the actions to `XedIldFunction`: `StepIsTheScan` says that every step of `Next` takes
the state of the scan (`Scan`) to `Step` of it and of the question (`Asked`: text, bytes offered, presets), with a
lemma per scanner. With it the proofs below speak of *two* decodes, which run one after the other
and share no step. `Leads(q, s, f)` says that the scan of the question `q` goes from `s` to `f`; it is defined as "`f` is in
every set that holds `s` and that the steps of `q` do not leave", since the induction that other definitions take
is out of the prover's reach. To show something of what a scan leads to is to give such a set. Since a step is a
function, what a scan ends in is unique (`OneAnswer`).

`XedIldFieldProofs` proves, on top of `IldInv`, what the operand storage says of the bytes, for any
number and order of prefixes and every encoding space:

| Theorem | Statement |
|---|---|
| `RepPrefixCounts` | `Spec => []RepChoice` |
| `SegPrefixCounts` | `Spec => []SegChoice` |
| `NoTrackMeans` | `Spec => []NoTrackHint` |
| `RexMeans` | `Spec => []RexCounts` |
| `VexPrefixesRefused` | `Spec => []VexRefusesPrefixes` |
| `LooksNoFurther` | `Spec => []NoLookahead` |
| `FieldsAreTheInstruction` | `Spec => []FieldsTile` |

The properties of prefixes speak of the end of the prefix loop; `PrefixInv` says what the loop knows
while it runs. Its flags record which prefixes it has met, the two candidates of F2 and F3 are the
first and the last, and the segment and the hint are a function of what stands before `length`: in 64-bit mode a later DS or CS does not
displace a kept FS or GS, but an FS or GS behind a 3E withdraws the hint. That REX is the *last* prefix is
the fact that a byte which is no REX prefix resets `nrexes` and `rexbyte`.

`FieldsInv` says of every scanner where the next field begins and how far has been read. It differs by
encoding space (`EscapeBytes`) and holds only while `error` is `"NONE"` and no scanner has run out of bytes. Three things make it more than
bookkeeping. VEX and EVEX scanners read a byte behind their prefix and then may leave both to the
opcode and ModRM scanners: nothing has been read too far only if C4, C5 and 62 have a ModRM byte in legacy map
0, and 8F too, which is `LesAssumption` and what the rows of LES, LDS, BOUND and POP in `xed-isa.txt` say. The second
immediate exists only where the first does (`Imm1Assumption`). And 3DNow! keeps its opcode where others keep an immediate: the
spans count it once.

`XedDecodeProofs` proves about the decode functions, for any chips, machine modes, feature vectors and
lookup function within `MachineAssumption`, `ChipAssumption` and `CpuidAssumption`, and for every history of calls on one structure:

| Theorem | Statement |
|---|---|
| `DecodeTypes` | `SpecDecode => []TypeOKDecode` |
| `EncodingsAreTheChips` | `SpecDecode => []EncodingsOfTheChip` |
| `AcceptedInstructionsAreLegal` | `LookupFinds` implies `SpecDecode => []AcceptedIsLegal` |
| `GoodAnswersKeepTheirFields` | `SpecDecode => []LaidOut`: the properties of the length decoder hold for what a client is told is good |
| `DecodesAreRepeatable` | `SpecDecode => []SameQuestionSameAnswer` |
| `DecodersAgreeOnLength` | `SpecDecode => []LengthsAgree` |

The steps of the length decoder inside a decode are those of `XedIld`, so the invariants above carry over: `StandsInv` says that they
hold from the first scanner on (`Started`, the state that `xed_ild_decode` starts from, implies them whatever an earlier decode left), `PresetInv`
that the presets are those of the chip and features in force, and `SpacesInv` that each scanner that enters a space has
tested its preset. `ReturnedInv` and `FoundInv` say that an objection, once stored, is neither returned as success nor
followed by the next stage. `LookupFinds` is needed for one conjunct: the lookup answers with an entry of `xed_inst_table`, perhaps the undefined
one, and never with no pointer at all.

The last two relate an answer to the first answer, given any number of calls before. `AnswerInv` keeps of the first
answer that its question leads to it, in the sense of `Leads`, and what the stages after the length decoder made of it; the same is known of
the answer that is being computed, and `OneAnswer` brings them together. Nothing of an earlier decode can be
left in it because a scan begins at `StartOfScan`, whatever the structure held.

`XedPatchProofs` proves about two decodes, the second with other bytes or more of them, and the patch functions between them:

| Theorem | Statement |
|---|---|
| `PatchesTheField` | `SpecPatch => []PatchExactly` |
| `MoreBytesAreNotNeeded` | `SpecBoth => []MoreBytesKeepTheAnswer` |
| `AsksForWhatIsMissing` | `SpecBoth => []AsksOnlyWhenNeeded` |
| `PatchedIsTheSameInstruction` | `SpecPatch => []PatchKeepsTheRest` |
| `TruncationWithPatches` | the second and third, of `SpecPatch` |

`PatchesTheField` needs `PositionsInv`, that a recorded position of zero means no field (an opcode byte stands before either),
`FieldsInv`, that the fields lie within the bytes decoded, and that until a patch the second text is the first.

The others rest on lemmas about single steps of the function. `StepLocal` says what a step looks at: if it does not run out of
bytes, it is the step of every question with the same presets, at least as many bytes, and the same bytes where the step
has read; the scanners behind the SIB do not even look at those, but for the opcode behind a 3DNow! instruction. `SameDecode` carries that
from the start to the end. `StepBeyond` is its counterpart: where one question runs out, the other with more bytes of the same text
is an error or reads beyond what the one was offered, and stays so (`DecodeBeyond`); since a good
decode has read exactly its length, its instruction is longer than the offer. For patches,
`FieldDecidesNothing` says that whatever a scan still has to look at before it reaches a displacement or first immediate
stands before it, and behind it nothing is looked at any more: it needs the positions that `Sane` and `Moves` of
`XedIldFieldProofs` keep for every state of a scan. A 3DNow! opcode stands behind the displacement, and no patch function reaches it.
The facts about the second decode are those of `XedIldFieldProofs` over its variables (`MP == INSTANCE ...`);
`MoreNext` shows, action by action, that the two instances name the same steps. `PatchAssumption` says that what is
patched in are bytes (the code masks each with `0xff`).

`XedEncodeProofs` proves about the encoder, for every array and length, every client
within `EncodeConstants`, and any generated functions: the hypothesis `BindAnswers` says
only that `Bind` answers, for whatever a request can hold, with attempts of the right form
whose first rule is of the prefix stage, as `ISA_EMIT` calls the stages in that order
(`TypeOKEncode` checks it for the answers the runs meet):

| Theorem | Statement |
|---|---|
| `EncodeInvariant` | `Spec => []EncodeInv` |
| `EncodeTypeCorrect` | `Spec => []TypeOKEncode` |
| `NeverWritesPastTheArray` | `Spec => WithinArray` |
| `StaleErrorIsNeverSuccess` | `Spec => []StaleErrorFails` |
| `EncodesTheSame` | `BindIgnoresError` implies `Spec => []EncodesTheSameAgain` |
| `EmitterImplementsString` | `Spec /\ []FieldsAtBytes => EmitsABitString` |
| `EncodingsAreBytes` | `BindEmitsBytes` implies `Spec => []ByteInv` |
| `EncoderAssertions` | `BindEmitsBytes` implies `Spec => []AssertionsHold` |
| `EncoderImplementsString` | `BindEmitsBytes` implies `Spec => EmitsABitString` |
| `EnoughRoomSucceeds` | `BindEmitsBytes` and `BindErrorIsLast` imply `Spec => []RoomIsEnough` |
| `ShortForPrefixesFails` | `BindEmitsBytes` and `BindErrorIsLast` imply `Spec => []ShortForPrefixes` |

`WithinArray` needs to know what the loop over bits relies on without testing it:
that the room for the whole field was there when it began, and that the bits left, counted
from the byte and bit it has reached, still end within the array. `LoopRoom` says so, and its
conjunct about the bits processed keeps the shift in range. For `StaleErrorFails` the
invariant `StaleInv` says that a call that started with an error still has it and is
still at its first rule.

`EmitterImplementsString` is the refinement: under the mapping of `XedEncodeProps` every step of the encoder
is a step of `XedBitString` or a stutter. The string is the bits of the bytes written, up to `bit_offset`, but
while a field is in the loop only those before it, so that the loop's turns stutter and its end adds
the whole field at once. The emitter ORs bits into a byte that is begun and stores into one that is not; what it
relies on is `ClearBehind`: in the byte that is begun, all bits behind the last one emitted are zero. `LoopBits`
and `LoopField` say that what the loop has written so far is the upper part of the field's value.
None of this holds for a field of several bytes emitted inside a byte: the code stores whole bytes there and says so
(the comment at `xed-encode.c:128` restricts the function to them). Which fields begin where is decided by the generated emit
functions, so the theorem takes `[]FieldsAtBytes` as its hypothesis. The theorems below it replace this hypothesis about a
run by one about the encodings, `BindEmitsBytes`: the bits of an encoding are a multiple of eight; a field of bytes has
a size there is a store for and starts, counted from the end of the encoding, at a byte; fields of bits do not cross the end of
a byte; and a rule of a nonterminal emits whole bytes. That is how the ENC patterns of the data
files are written, and TLC evaluates it for every request of the runs (`MCBindEmitsBytes`).

What is left to prove is that *refused* fields do not put the others out of step. `ByteInv` says that before each field
the offset and the bits still to come add up to whole bytes, or else the array is full. A field that is refused in one
of the first three stages ends the encoding; one that is refused below the instruction ends its rule, whose
bits are whole bytes, and the stage goes on with the next. The array is whole bytes too, so a field inside a byte is never
refused: its byte has been begun. This is why counting from the end works where counting from the start fails, and `AssertionsHold` follows.

`RoomIsEnough` and `ShortForPrefixes` relate the answer to sums over the encoding. `ReportInv` is the inductive
invariant: with room for all of it, the bits emitted and the bits to come add up to the encoding (`WholeSoFar`, also as the strings
themselves), no error has been stored, and what is refused was not going to fit (`RefusedOnlyWhenShort`). `BindErrorIsLast` is needed: an
attempt that fails may set the error operand (a bind function that meets an operand it cannot encode), and an
encoding bound after it would then stop at its first rule. In the code no attempt behind such a failure binds, since it is set for operands that no encoding of the instruction has.

`Sum`, `Bits`, `PrefixBits`, `Wires` and `Encoding` are recursive functions of sequences. The library's
induction over sequences takes an operator, so `XedEncodeProofs` has its own with a set in its place
(`AllSequences`: a set that has `<<>>` and, with a sequence, every longer one by an element at the front, has all), and shows that such a
function exists (`FoldExists`) as the least set of pairs closed under its equation.

`EncodesTheSame` rests on `Preconditioned`: what the encoder keeps of a request is a fixed point of the preconditioning
(`PreconditionAgain`), apart from the error operand. `BindIgnoresError` says that the generated bind functions do not read
that operand; they match the operands of an instruction, of which it is none.

`XedMemopProofs` proves, for any forms and calls within the assumptions below, any register values, segment bases and
moduli, and callbacks that may fail:

| Theorem | Statement |
|---|---|
| `EmitsTwelveBytes` | `SpecMemop => []Twelve`: the bytes emitted are bytes, and at most twelve |
| `FailureStoresNothing` | `SpecMemop => []NoAddressOfAFailure` |
| `OperandsComeBack` | `SpecMemop => []OperandComesBack` |
| `AddressesAreMeant` | `SpecMemop => []AddressIsMeant` |

The first needs that every field of the request stays in the range of its bits whichever
of the functions set it (`ReqType`, a lemma for each function), and how many bytes each stage has
emitted so far (`SoFar`); the second, `AgenInv`, that the flag of a problem is down wherever the computation goes on.

`OperandsComeBack` follows an operand through three programs, each with its invariant:

- `EmitInv`, of the encoder: `req` is what the setters make of the call (`RequestOf`), and the bytes emitted are the segment
  prefix, the prefix of the form, the opcode with ModRM, the SIB byte and the displacement, as far as the stage has come.
  Lemmas for each kind of address (`Request16`, `RequestRip`, `RequestFlat`) say which fields of the request stand for which part of the operand, among
  them the SIB bytes and the displacements of zero that nobody asked for; `LegacyLayout` and `VectorLayout` say where in the buffer each byte stands.
- `DecodeInv`, of the length decoder: at each scanner, what has been read is what was written (`ReadSoFar`, a conjunct for each
  place a scan can be at, each with what is known before that scanner runs). There is one lemma for each scanner (`PrefixStep` to `LateEvexStep`): it takes the bytes the encoder wrote for it
  and no others, stores no error, and the scan goes on to the next. They use the scan as a function (`StepIsTheScan` of `XedIldProofs`).
- `CaptureInv`, of the capture behind the decode: the operand captured is `OperandOf(call)`. Base, index and scale come
  from ModRM, SIB and the register bits, which are inverted or not and lie in different bytes for each prefix (`EvexBitsRead`, `VexBitsRead`, `LegacyBitsRead`); the displacement comes from
  its bytes as a two's complement number, an 8-bit one of EVEX times the operand's width (`DispValueIs`).

`GoesRight` names the calls of which this is said: those that the checks let through and that are not the cases of `enc2_evex` and `enc2_regs`
(`EvexDispGoesWrong`, `RegisterGoesWrong`); the other calls still obey the other theorems.
`AddressesAreMeant` adds `ComputedInv`, the registers `xed_agen` has fetched at each of its steps. What is left is arithmetic: `xed_agen` wraps
each register to 64 bits, the effective address to its width, and the sum with the segment again; the address meant is cut once for the
offset and once for the linear address. `CutSum` and `CutTwice` show these the same, as the moduli divide each other.

The assumptions, which TLC evaluates over the forms and calls of `memop`: `Enc2Assumption` and `AgenAssumption` (types), `MemopAssumption`
(fifteen bytes, registers that hold naturals, moduli that divide each other), `FormsDiffer` (space, map and opcode tell two
forms apart), and `PlainCalls`. The latter describes the functions that the generator writes and this model has: forms without an immediate, whose opcode the length
decoder does not take for a prefix, an escape, or the first byte of VEX, EVEX, XOP or REX2, as it may those of LES, LDS, BOUND and POP;
a displacement of a width the mode has that fits its type; vector indices that are given and never with 16-bit addresses (`enc2gen.py`
writes no such function); and an unchecked function called with what the checked one would let through.

`XedSweepProofs` proves about the loop, for regions of any size, any symbols, and a decoder that answers anything, and
about the symbol table, of any size and filled in any order:

| Theorem | Statement |
|---|---|
| `LoopInvariant` | `LoopSpec => []LoopInv` |
| `SymbolsStartInstructions` | `LoopSpec => []SymbolsAreStarts` |
| `LoopStaysInSection` | `LoopSpec => []StaysInSection`: no byte behind the section is offered |
| `TableInvariant` | `SpecSweep => []TableInv` |
| `TreesAreAvl` | `SpecSweep => []AvlShape` |
| `TableAnswersAsMap` | `SpecSweep => TableImplementsMap` |
| `SweepRunsTheLoop` | `SpecSweep => LoopSpec` |
| `TableSymbolsStartInstructions` | `SpecSweep => []SymbolsAreStarts` |

`SymbolsAreStarts` says of every symbol before the position that it was tried, skipped as a zero, or lies before the first position;
`LoopInv` adds the types and that the position is within the section. `SweepRunsTheLoop` carries this to the loop with a client's
table, by `ClientAssumption` (a client's regions are of `Regions`).

The proof about the trees goes in four parts. First, that there are such functions as `insert`: they are defined by recursion over
pointers, and induction inside a tree, from its subtrees to its top (`AllPointers`), gives their equations (`InsertOf`, `FoundAt`,
`LowerBoundBest`). It is induction over the heights, for a set and not for a predicate (`AllNumbers`). Second, rebalancing: a node that leans by two to a side that itself leans
becomes, by one turn or two, a tree of the same keys and data, as high as that side was (`RebalancedTree`). Third, insertion (`InsertedInto`): the tree is as high as before or one higher, and if it
has grown and was not empty, its top leans. That clause is why the invariant holds: `insert` has no turn for a subtree in balance, and this says that a node
that an insertion makes lean by two never has one on that side. Fourth, what a tree means: one node to a key, so that it is a function (`Content`); insertion
updates it (`InsertedContent`); the search finds a key that is there; and the search for a lower bound, which goes on to the right also of a node too large when there is nothing on its left,
comes to the last node below the key (`BestByTop`, for any best so far). `TableInv` adds that the current section has a tree, so it means one map. The
assumptions are `TableAssumption` (addresses and sections are integers, 0 is no section) and `ClientAssumption`.

`XedPhashProofs` proves about the generator, for any patterns, word widths, primes and multipliers within
`HashAssumption`, and so for dictionaries of any size:

| Theorem | Statement |
|---|---|
| `PhashInductive` | `SpecPhash => []PhashInv` |
| `LookupsAreDirect` | `SpecPhash => []LookupIsDirect` |
| `KeysMeanTests` | `SpecPhash => []KeyMeaning` |
| `UniteInductive` | `SpecPhash => []UniteInv` |
| `ConflictsAreFound` | `SpecPhash => []ConflictsAreReal` |
| `PatternsAreFound` | `SpecPhash => [](KeysAreNarrow => FindsThePattern)` |

The lemmas of arithmetic show that below `Word` the emitted C expression and the Python method compute the same
(`IndexIsApply`: the product fits a key, the shift is a division), and that for any other key the C expression stays in the
table (`IndexInTable`), so that the test of the stored key, or for the linear kind of the index, decides
(`HashedLookup`, `LinearLookup`). `LookupIsDirect` speaks of the end of the search; `PhashInv` says what is built
on the way: of two levels, each function comes from its own bucket (`Built`), until every bucket has one. That a second
function cannot stand at the top while the buckets are filled is `EarliestIsOne`.

The rest is about what the dictionary says. A name of the key stands for the operands that gave way to it (`Of`), and the C accessor reads
them (`Accessor`). `KeyMeaning` says, through all replacements, that the names stand for the operands that are tested, each
operand for one name; that the values a pattern has for a name are those that the accessor reads exactly when the tests of
the name's operands hold (`Means`); and that each such value is read of *some* operands (`Reached`). There is a lemma for
each replacement; that of the VEX destination is the one with substance, as three operands become one bit, one of them stored inverted.
With `Means` a pattern matches an instruction exactly when it has the tuple the accessors read; with `Reached` each tuple in
the dictionary is that of an instruction (`TupleIsRead`). So two patterns share a tuple exactly when an instruction
matches both: `ConflictsAreReal`. `KeysAreDistinct` says that packing loses nothing, by induction over the names of
the key (`AllNames`): no value reaches into the next field. Then a key looked up is in the dictionary only by the tuple that was read, and `FindsThePattern` follows with `LookupsAreDirect`'s
lemma for any key. `KeysAreNarrow` is its hypothesis because the generator does not check it: the keys stored fit 32 bits and those looked up 64.

These take two assumptions that TLC evaluates over the patterns of `phash`. `OperandAssumption`: names are ordered, and a width has
room for the operand's values, as `get_state_op_widths` computes it. `GrammarAssumption`: what the data files have of the operands that may be narrowed. A destination is tested only by
`NOVSR` and `NOEVSR` (`VEXDEST3=0b1 VEXDEST210=0b111`, `avx-state-bits.txt:36`; with `VEXDEST4=0b0`, `avx512-state-bits.txt:23`),
so there is no `VEXDEST210!=` and no `VEXDEST4=0b1`; the values of a tested operand are among its values; MOD and VEXDEST210 have
a value other than the one singled out; MASK has at most the values 0 to 7, zero among them. Without it the narrowing is wrong, as the observations above say.

**Only model-checked:** liveness, which the prover does not reach: `Terminates`, `EncodeTerminates`, `SweepReachesTheEnd`.
The violations that runs expect are counterexamples and need no proof.

## What is not modelled, and the plan

Not modelled, with the reason in `PROJECT.json`: the formatters, the encoder's high-level
interface and `xed_convert_to_encoder_request`, most accessors, the generator but for the lookup and the tables of the length
decoder, the data, the build. Of the direct encoder, functions
without a memory operand and address sizes other than the mode's; of the tools, file formats, the assembler's parser and
output. Most of the repository's code is Python that turns text into tables and C text, with no state
but its lists: what it promises is what its tables promise to the modelled code, and that is stated there.

What comes next, in this order:

1. `xed_convert_to_encoder_request` between `XedDecode` and `XedEncode`: what was decoded encodes to its own bytes.
2. `xed-immdis.c` and the sign extensions: operators against reference definitions, with widths modulo `2^w`.
3. The nonterminals of the dynamic decoder, whose lookups use the hash functions of `XedHash` over other keys.
4. The string buffer of `xed-disas.c`.
