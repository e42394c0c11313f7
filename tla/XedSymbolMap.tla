---------------------------- MODULE XedSymbolMap ----------------------------
(***************************************************************************)
(* What the symbol table of the example tools promises, with functions     *)
(* from addresses to names in place of trees: an added name replaces the   *)
(* one at its address, and an address is described by the nearest symbol   *)
(* at or below it, a global one if there is any.                           *)
(***************************************************************************)
EXTENDS Integers

CONSTANTS Addresses, Sections, Names, NoName

VARIABLES
    globals,        \* [addresses -> names]
    locals,         \* [sections -> [addresses -> names]]
    current,        \* {} or {the section whose local symbols count}
    answer          \* of the last query

mapvars == <<globals, locals, current, answer>>

Answer(name, offset) == [name |-> name, offset |-> offset]
NoAnswer == Answer(NoName, 0)

(* a function with one more argument or another value; <<>> has none *)
With(f, x, y) == [a \in DOMAIN f \cup {x} |-> IF a = x THEN y ELSE f[a]]
Of(f, x, default) == IF x \in DOMAIN f THEN f[x] ELSE default
Here == UNION {{locals[s]} : s \in current}

MapInit ==
    /\ globals = <<>>
    /\ locals = <<>>
    /\ current = {}
    /\ answer = NoAnswer

AddGlobal(a, name) ==
    /\ answer' = NoAnswer
    /\ globals' = With(globals, a, name)
    /\ UNCHANGED <<locals, current>>

AddLocal(s, a, name) ==
    /\ answer' = NoAnswer
    /\ locals' = With(locals, s, With(Of(locals, s, <<>>), a, name))
    /\ UNCHANGED <<globals, current>>

(* a section without local symbols yet is not found when some are added *)
SetCurrent(s) ==
    /\ current' = {s} \cap DOMAIN locals
    /\ answer' = NoAnswer
    /\ UNCHANGED <<globals, locals>>

NameAt(a) ==
    IF a \in DOMAIN globals THEN globals[a]
    ELSE IF \E f \in Here : a \in DOMAIN f THEN (CHOOSE f \in Here : TRUE)[a]
    ELSE NoName

GetSymbol(a) == answer' = Answer(NameAt(a), 0) /\ UNCHANGED <<globals, locals, current>>

Below(f, a) == {b \in DOMAIN f : b <= a}
Nearest(S) == CHOOSE b \in S : \A c \in S : c <= b

Describe(a) ==
    /\ answer' = LET local == UNION {Below(f, a) : f \in Here}
                     symbols == IF Below(globals, a) # {} THEN Below(globals, a) ELSE local
                 IN  IF symbols = {} THEN NoAnswer
                     ELSE Answer(NameAt(Nearest(symbols)), a - Nearest(symbols))
    /\ UNCHANGED <<globals, locals, current>>

MapNext ==
    \/ \E a \in Addresses, name \in Names : AddGlobal(a, name)
    \/ \E s \in Sections, a \in Addresses, name \in Names : AddLocal(s, a, name)
    \/ \E s \in Sections : SetCurrent(s)
    \/ \E a \in Addresses : GetSymbol(a) \/ Describe(a)

MapSpec == MapInit /\ [][MapNext]_mapvars
=============================================================================
