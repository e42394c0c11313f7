----------------------------- MODULE MCXedSweep -----------------------------
(***************************************************************************)
(* Seven symbols in every order and two sections, and small regions over   *)
(* them with decodes of four bytes at most.                                *)
(***************************************************************************)
EXTENDS XedSweep

CONSTANTS main, alias

Symbol(s, a, name) == [section |-> s, addr |-> a, name |-> name]

(* the table at large, with a name that is replaced *)
AtLarge ==
    [additions |-> {Symbol(Global, a, main) : a \in 1..7}
                   \cup {Symbol(Global, 3, alias), Symbol(1, 4, main)},
     sections |-> {1}, addresses |-> 0..8, regions |-> {}]

(* local symbols of several sections *)
BySection ==
    [additions |-> {Symbol(Global, 4, main)} \cup {Symbol(s, a, main) : s \in 1..3, a \in {2, 5}},
     sections |-> 1..3, addresses |-> {1, 2, 4, 6}, regions |-> {}]

Region(zeros, from, to, n, only, sync) ==
    [runtime_vaddr |-> 1, size |-> 7, zeros |-> zeros, disas_start |-> from, disas_end |-> to,
     ninst |-> n, decode_only |-> only, resync |-> sync]
Sweeps ==
    [additions |-> {Symbol(Global, 4, main), Symbol(Global, 5, main), Symbol(1, 7, main)},
     sections |-> {1}, addresses |-> {},
     regions |-> {Region(zeros, 0, 0, 7, only, sync) :
                     zeros \in {{}, 0..6, 1..6, 0..5}, only \in BOOLEAN, sync \in BOOLEAN}
                 \cup {Region({}, from, to, 7, TRUE, TRUE) : from \in {0, 1, 3, 9}, to \in {0, 1, 5, 12}}
                 \cup {Region({}, 0, 0, 2, TRUE, TRUE)}]

MCClients == {AtLarge, BySection, Sweeps}
MCRegions == Sweeps.regions
=============================================================================
