------------------------------ MODULE XedSweep ------------------------------
(***************************************************************************)
(* The disassembly loop with the symbol table it asks: a client fills the  *)
(* table, asks it, chooses the current section, and disassembles a region. *)
(***************************************************************************)
EXTENDS XedSymbolTable, XedSweepLoop

ASSUME ClientAssumption == \A c \in Clients : c.regions \subseteq Regions

(* the addresses at which symfn, get_symbol of the table, finds a name *)
Named == {a \in Addresses : SymbolAt(a) # NoName}

InitSweep == TableInit /\ SweepInit /\ symbols = Named

(* a client's region is disassembled after it has filled the table *)
NextSweep ==
    \/ sweep = "idle" /\ TableNext /\ symbols' = Named' /\ UNCHANGED sweepvars
    \/ (\E r \in client.regions : Start(r)) /\ UNCHANGED <<tablevars, symbols>>
    \/ Loop /\ UNCHANGED tablevars

(* one thread runs the loop and does not stop in it *)
SpecSweep ==
    /\ InitSweep
    /\ [][NextSweep]_<<tablevars, symbols, sweepvars>>
    /\ WF_<<tablevars, symbols, sweepvars>>(Loop /\ UNCHANGED tablevars)

-----------------------------------------------------------------------------
(* The symbol table answers as functions from addresses to names would.    *)
Nodes(t) == {p[1] : p \in Pointers(t) \ {<<>>}}
Keys(t) == {n.key : n \in Nodes(t)}
Content(t) == [key \in Keys(t) |-> (CHOOSE n \in Nodes(t) : n.key = key).data]

Map == INSTANCE XedSymbolMap WITH
    globals <- Content(gtab),
    locals <- [s \in DOMAIN Content(avl_lmap) |-> Content(Content(avl_lmap)[s])],
    current <- curtab,
    answer <- found

TableImplementsMap == Map!MapSpec

(* Every tree is ordered, its nodes know their heights, and none leans by  *)
(* more than one, so the assertion behind an insertion holds.              *)
IsAvl(t) ==
    \A n \in Nodes(t) :
       /\ n.balance = Height(n.left) - Height(n.right)
       /\ n.height = 1 + (IF n.balance > 0 THEN Height(n.left) ELSE Height(n.right))
       /\ n.balance \in -1..1
       /\ \A key \in Keys(n.left) : key < n.key
       /\ \A key \in Keys(n.right) : key > n.key

AvlShape ==
    /\ IsAvl(gtab) /\ IsAvl(avl_lmap)
    /\ \A s \in DOMAIN Content(avl_lmap) : IsAvl(LocalMap(s))
=============================================================================
