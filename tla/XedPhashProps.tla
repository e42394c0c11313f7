--------------------------- MODULE XedPhashProps ----------------------------
(***************************************************************************)
(* What the lookup functions of the static decoder promise, and what their *)
(* generator promises about the patterns it is given.                      *)
(***************************************************************************)
EXTENDS XedPhash

CONSTANT LookedUp   \* keys that decoded instructions may have

ASSUME LookedUpAssumption == LookedUp \subseteq 0..(KeyWord - 1)

(* what the operands can be when an instruction is decoded *)
Tested == UNION {{t.operand : t \in p.tests} : p \in ptrns}
Valuations ==
    {v \in [Tested -> UNION {StateSpace[op] : op \in Tested}] : \A op \in Tested : v[op] \in StateSpace[op]}

Matching(v) == {p \in ptrns : \A t \in p.tests : (v[t.operand] = t.value) <=> (t.test = "eq")}

(* A pattern that tests nothing has no tuples, and is lost beside others. *)
Alone == \A p \in ptrns : p.tests # {} \/ ptrns = {p}

(* The static decoder finds the instruction the grammar means: for all     *)
(* values the operands can have it answers the rule of the pattern whose   *)
(* every test holds, and nothing where there is none.  Narrower operands,  *)
(* multiplied out patterns, packed keys, the kind of hash function and the *)
(* number of levels make no difference.                                    *)
FindsThePattern ==
    stage = "done" /\ Alone =>
       \A v \in Valuations :
          LET m == Matching(v)
          IN  IF m = {} THEN AnswerTo(KeyFor(v)) = 0
              ELSE \E p \in m : AnswerTo(KeyFor(v)) = p.rule

(* the keys fit the tables, which the generator does not check *)
KeysFit == DOMAIN dict \subseteq 0..(Word - 1)

(* ... and a key looked up fits the variable it is packed into *)
KeysAreNarrow == KeysFit /\ \A v \in Valuations : KeyFor(v) < KeyWord

(* A table looked up with any key, of an operand combination that no       *)
(* pattern has, wider than the keys stored, or below the first of a        *)
(* linear table, stays in the table and answers what the dictionary says.  *)
LookupIsDirect ==
    stage = "done" /\ cnames # {} /\ KeysFit =>
       \A key \in LookedUp : AnswerTo(key) = IF key \in DOMAIN dict THEN dict[key] ELSE 0

(* A grammar is rejected as ambiguous exactly when it is: the generator    *)
(* reports a conflict only if there is an instruction that two patterns    *)
(* match, and finishes only if there is none.                              *)
ConflictsAreReal ==
    LET conflict == \E v \in Valuations : Cardinality(Matching(v)) > 1
    IN  /\ stage = "conflict" => conflict
        /\ stage = "done" /\ Alone => ~conflict
=============================================================================
