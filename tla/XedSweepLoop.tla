---------------------------- MODULE XedSweepLoop ----------------------------
(***************************************************************************)
(* The disassembly loop of the example tools, xed_disas_test: decode, step *)
(* behind what was decoded, and so on through a section, skipping long     *)
(* runs of zeros, with symbols to find the way again when an instruction   *)
(* turns out to hold one.  Positions count from the start of the section.  *)
(* The decoder is any that does not look past the bytes it is offered and  *)
(* finds no instruction of no bytes, on which the loop dies.               *)
(***************************************************************************)
EXTENDS Integers

CONSTANTS
    DecodeLimit,    \* the most bytes offered, 15
    Regions         \* what may be disassembled

(* runtime_vaddr_disas_start and _end are 0 where not given; resync says   *)
(* that it is on and that there is a symfn                                 *)
RegionType == [runtime_vaddr : Nat, size : Nat, zeros : SUBSET Nat, disas_start : Nat,
               disas_end : Nat, ninst : Nat, decode_only : BOOLEAN, resync : BOOLEAN]

ASSUME SweepAssumption == DecodeLimit \in Nat \ {0} /\ Regions \subseteq RegionType

VARIABLES
    symbols,        \* the addresses at which symfn finds a name
    sweep,          \* "idle", "loop" or "finished"
    di,             \* the region
    z, i,           \* the position and the count of turns
    skipping, last_all_zeros,
    shown,          \* history: {<<first, next>>} of the instruction shown last
    tried,          \* history: symbols at which a decode was tried
    skipped         \* history: positions skipped as zeros

sweepvars == <<sweep, di, z, i, skipping, last_all_zeros, shown, tried, skipped>>

NoRegion == [runtime_vaddr |-> 0, size |-> 0, zeros |-> {}, disas_start |-> 0, disas_end |-> 0,
             ninst |-> 0, decode_only |-> FALSE, resync |-> FALSE]

SweepInit ==
    /\ sweep = "idle" /\ di = NoRegion
    /\ z = 0 /\ i = 0
    /\ skipping = FALSE /\ last_all_zeros = FALSE
    /\ shown = {} /\ tried = {} /\ skipped = {}

First(r) == IF r.disas_start > r.runtime_vaddr THEN r.disas_start - r.runtime_vaddr ELSE 0

(* a zlimit of 0 is none *)
EndBefore(r) == r.disas_end # 0 /\ r.disas_end <= r.runtime_vaddr
Limit(r) == IF r.disas_end = 0 THEN 0 ELSE r.disas_end - r.runtime_vaddr

Start(r) ==
    /\ sweep = "idle"
    /\ di' = r
    /\ z' = First(r)
    /\ sweep' = IF EndBefore(r) \/ First(r) >= r.size THEN "finished" ELSE "loop"
    /\ UNCHANGED <<i, skipping, last_all_zeros, shown, tried, skipped>>

AtEnd == i >= di.ninst \/ (Limit(di) # 0 /\ z >= Limit(di)) \/ z >= di.size

Finish ==
    /\ sweep = "loop" /\ AtEnd
    /\ sweep' = "finished"
    /\ UNCHANGED <<di, z, i, skipping, last_all_zeros, shown, tried, skipped>>

ilim == IF z + DecodeLimit > di.size THEN di.size - z ELSE DecodeLimit
AllZeros == z..(z + ilim - 1) \subseteq di.zeros

(* two chunks of zeros in a row start the skipping, of whole chunks *)
SkipZeros ==
    /\ sweep = "loop" /\ ~AtEnd
    /\ AllZeros /\ (skipping \/ last_all_zeros)
    /\ skipping' = TRUE
    /\ z' = z + ilim
    /\ i' = i + 1
    /\ skipped' = skipped \cup z..(z + ilim - 1)
    /\ UNCHANGED <<sweep, di, last_all_zeros, shown, tried>>

IsSymbol(p) == di.runtime_vaddr + p \in symbols

(* mutant: the last byte of an instruction not looked at *)
CheckResyncShort(length) == {x \in 1..(length - 2) : di.resync /\ IsSymbol(z + x)}
(* the symbols behind the first byte; the loop takes the first it meets *)
CheckResync(length) == {x \in 1..(length - 1) : di.resync /\ IsSymbol(z + x)}

(* mutant: an error that comes with no length is stepped over by none *)
FailedLengthAsIs(length) == length
FailedLength(length) == IF length = 0 THEN 1 ELSE length

Turn(step, shows) ==
    /\ sweep = "loop" /\ ~AtEnd
    /\ ~(AllZeros /\ (skipping \/ last_all_zeros))
    /\ z' = z + step
    /\ i' = i + 1
    /\ last_all_zeros' = AllZeros
    /\ skipping' = FALSE
    /\ shown' = IF shows THEN {<<z, z + step>>} ELSE shown
    /\ tried' = IF IsSymbol(z) THEN tried \cup {z} ELSE tried
    /\ UNCHANGED <<sweep, di, skipped>>

(* an instruction with a symbol inside is dropped, and one that failed too *)
Resync(length) ==
    \E x \in CheckResync(length) : (\A y \in CheckResync(length) : x <= y) /\ Turn(x, FALSE)

Accept(length) == CheckResync(length) = {} /\ Turn(length, TRUE)
Reject(length) == CheckResync(length) = {} /\ Turn(FailedLength(length), FALSE)

(* with an error, INVALID_FOR_CHIP, there may be an instruction to show *)
Decode ==
    /\ di.decode_only
    /\ \E length \in 0..ilim :
          Resync(length) \/ (length > 0 /\ Accept(length)) \/ Reject(length)

(* decoding and encoding again, by whatever it decodes and encodes to *)
DecodeEncode ==
    /\ ~di.decode_only
    /\ (\E length \in 1..ilim : Turn(length, TRUE)) \/ Turn(1, FALSE)

Loop == (Finish \/ SkipZeros \/ Decode \/ DecodeEncode) /\ UNCHANGED symbols

(* the loop with any symbols, which come and go before it starts *)
LoopSpec ==
    /\ SweepInit
    /\ [][\/ sweep = "idle" /\ UNCHANGED sweepvars
          \/ (\E r \in Regions : Start(r)) /\ UNCHANGED symbols
          \/ Loop]_<<sweepvars, symbols>>

-----------------------------------------------------------------------------
(* With symbols to synchronise on, no instruction is shown that has one    *)
(* inside, and none is passed over: where a symbol is, a decode starts,    *)
(* unless it is among zeros that are skipped.                              *)
NoneInside == \A s \in shown : \A p \in (s[1] + 1)..(s[2] - 1) : ~IsSymbol(p)
NonePassed == \A p \in First(di)..(z - 1) : IsSymbol(p) => p \in tried \cup skipped
SymbolsAreStarts == di.decode_only /\ di.resync => NoneInside /\ NonePassed

(* The loop offers no byte behind the section to the decoder: the position *)
(* is inside of it, and so is all that is offered from there.              *)
StaysInSection == sweep = "loop" => z \in 0..di.size /\ z + ilim <= di.size

(* Given as many turns as the range has bytes, the loop reaches its end    *)
(* and ends, whatever fails to decode and however often it starts again.   *)
End == IF Limit(di) # 0 /\ Limit(di) < di.size THEN Limit(di) ELSE di.size
SweepReachesTheEnd ==
    sweep = "loop" /\ di.ninst >= di.size ~> sweep = "finished" /\ z \in End..di.size
=============================================================================
