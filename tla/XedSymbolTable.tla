--------------------------- MODULE XedSymbolTable ---------------------------
(***************************************************************************)
(* The symbol table of the example tools: an AVL tree of the global        *)
(* symbols, one of the local symbols of each section, and an AVL tree from *)
(* sections to the latter.  A pointer to a node is <<>> or <<node>>.       *)
(***************************************************************************)
EXTENDS Integers, Sequences

CONSTANTS Addresses, Sections, Names, NoName,
          Clients       \* the symbols each adds, the sections it
                        \* disassembles, the addresses it asks about

Global == 0             \* the "section" of a global symbol

Symbols == [section : Sections \cup {Global}, addr : Addresses, name : Names]

ASSUME TableAssumption ==
    /\ Addresses \subseteq Int /\ Sections \subseteq Int
    /\ Global \notin Sections
    /\ \A c \in Clients : c.additions \subseteq Symbols /\ c.sections \subseteq Sections
                           /\ c.addresses \subseteq Addresses

VARIABLES
    client,     \* which of Clients this is
    gtab,       \* the tree of the global symbols
    avl_lmap,   \* the tree of the trees of the sections
    curtab,     \* {} or {section}: the local table pointed to
    found       \* the last answer, a name and an offset

tablevars == <<client, gtab, avl_lmap, curtab, found>>

-----------------------------------------------------------------------------
(* avltree.c.  Where the code calls itself for a child there is a function *)
(* of the pointers in the tree, which are as many deep as its top is high. *)
Height(t) == IF t = <<>> THEN 0 ELSE t[1].height
Children(pointers) == UNION {{p[1].left, p[1].right} : p \in pointers \ {<<>>}}
Pointers(t) ==
    LET within[steps \in Nat] ==
            IF steps = 0 THEN {t} ELSE {t} \cup Children(within[steps - 1])
    IN  within[Height(t)]

(* without a smaller subtree the search goes on in the larger one *)
FindNode(t, key) ==
    LET find_node[p \in Pointers(t) \ {<<>>}] ==
            LET n == p[1]
            IN  IF n.key = key THEN p
                ELSE IF n.key > key /\ n.left # <<>> THEN find_node[n.left]
                ELSE IF n.right # <<>> THEN find_node[n.right]
                ELSE <<>>
    IN  find_node[t]

AvlFind(t, key) == IF t = <<>> THEN <<>> ELSE FindNode(t, key)

(* mutant: the first node below the key taken for the last *)
BetterFirst(n, key, lb) == n.key < key /\ lb = <<>>
Better(n, key, lb) == n.key < key /\ (lb = <<>> \/ lb[1].key < n.key)

(* lower_bound[p][lb]: from the node at p, the best so far at lb *)
LowerBound(t, key) ==
    LET lower_bound[p \in Pointers(t) \ {<<>>}] ==
            [lb \in Pointers(t) |->
                LET n == p[1]
                    best == IF Better(n, key, lb) THEN p ELSE lb
                IN  IF n.key = key THEN p
                    ELSE IF n.key > key /\ n.left # <<>> THEN lower_bound[n.left][lb]
                    ELSE IF n.right # <<>> THEN lower_bound[n.right][best]
                    ELSE best]
    IN  lower_bound[t][<<>>]

AvlLowerBound(t, key) == IF t = <<>> THEN <<>> ELSE LowerBound(t, key)

MakeNode(key, data) ==
    [key |-> key, data |-> data, height |-> 1, balance |-> 0, left |-> <<>>, right |-> <<>>]

Updated(n) ==
    LET l == Height(n.left)
        r == Height(n.right)
    IN  [n EXCEPT !.height = 1 + (IF l > r THEN l ELSE r), !.balance = l - r]

LeftLeft(n) ==
    LET top == n.left[1]
    IN  Updated([top EXCEPT !.right = <<Updated([n EXCEPT !.left = top.right])>>])
RightRight(n) ==
    LET top == n.right[1]
    IN  Updated([top EXCEPT !.left = <<Updated([n EXCEPT !.right = top.left])>>])

LeftRight(n) ==
    LET l == n.left[1]
        lr == l.right[1]
    IN  [n EXCEPT !.left =
            <<Updated([lr EXCEPT !.left = <<Updated([l EXCEPT !.right = lr.left])>>])>>]
RightLeft(n) ==
    LET r == n.right[1]
        rl == r.left[1]
    IN  [n EXCEPT !.right =
            <<Updated([rl EXCEPT !.right = <<Updated([r EXCEPT !.left = rl.right])>>])>>]

(* mutant: a subtree that leans the other way knocked over at once *)
RebalancedOnce(n) ==
    IF n.balance >= 2 THEN LeftLeft(n) ELSE IF n.balance <= -2 THEN RightRight(n) ELSE n
Rebalanced(n) ==
    IF n.balance >= 2
    THEN CASE n.left[1].balance = -1 -> LeftLeft(LeftRight(n))
           [] n.left[1].balance = 1 -> LeftLeft(n)
           [] OTHER -> n
    ELSE IF n.balance <= -2
    THEN CASE n.right[1].balance = 1 -> RightRight(RightLeft(n))
           [] n.right[1].balance = -1 -> RightRight(n)
           [] OTHER -> n
    ELSE n

(* A tree that grows in place where the code holds a pointer to it is      *)
(* inserted again behind its key.                                          *)
InsertNode(t, key, data) ==
    LET insert[p \in Pointers(t)] ==
            IF p = <<>> THEN <<MakeNode(key, data)>>
            ELSE LET n == p[1]
                     m == IF n.key = key THEN [n EXCEPT !.data = data]
                          ELSE IF n.key > key THEN Updated([n EXCEPT !.left = insert[n.left]])
                          ELSE Updated([n EXCEPT !.right = insert[n.right]])
                 IN  <<Updated(Rebalanced(m))>>
    IN  insert[t]

-----------------------------------------------------------------------------
(* xed-symbol-table.c *)
Nothing == [name |-> NoName, offset |-> 0]

TableInit == client \in Clients /\ gtab = <<>> /\ avl_lmap = <<>> /\ curtab = {} /\ found = Nothing

AddGlobalSymbol(add) ==
    /\ add.section = Global
    /\ gtab' = InsertNode(gtab, add.addr, add.name)
    /\ found' = Nothing
    /\ UNCHANGED <<client, avl_lmap, curtab>>

LocalMap(section) ==
    LET n == AvlFind(avl_lmap, section) IN IF n = <<>> THEN <<>> ELSE n[1].data

(* the table of a section is made with its first symbol *)
AddLocalSymbol(add) ==
    /\ add.section # Global
    /\ avl_lmap' = InsertNode(avl_lmap, add.section,
                              InsertNode(LocalMap(add.section), add.addr, add.name))
    /\ found' = Nothing
    /\ UNCHANGED <<client, gtab, curtab>>

SetCurrentTable(section) ==
    /\ curtab' = IF AvlFind(avl_lmap, section) = <<>> THEN {} ELSE {section}
    /\ found' = Nothing
    /\ UNCHANGED <<client, gtab, avl_lmap>>

Current == IF curtab = {} THEN <<>> ELSE LocalMap(CHOOSE s \in curtab : TRUE)

(* get_symbol, the symfn of the disassembly loop *)
SymbolAt(a) ==
    LET g == AvlFind(gtab, a)
        l == AvlFind(Current, a)
    IN  IF g # <<>> THEN g[1].data ELSE IF l # <<>> THEN l[1].data ELSE NoName

LookUp(a) ==
    /\ found' = [name |-> SymbolAt(a), offset |-> 0]
    /\ UNCHANGED <<client, gtab, avl_lmap, curtab>>

(* xed_disassembly_callback_function *)
DisassemblyCallback(a) ==
    /\ found' = LET g == AvlLowerBound(gtab, a)
                    n == IF g # <<>> THEN g ELSE AvlLowerBound(Current, a)
                IN  IF n = <<>> THEN Nothing
                    ELSE [name |-> SymbolAt(n[1].key), offset |-> a - n[1].key]
    /\ UNCHANGED <<client, gtab, avl_lmap, curtab>>

TableNext ==
    \/ \E add \in client.additions : AddGlobalSymbol(add) \/ AddLocalSymbol(add)
    \/ \E s \in client.sections : SetCurrentTable(s)
    \/ \E a \in client.addresses : LookUp(a) \/ DisassemblyCallback(a)
=============================================================================
