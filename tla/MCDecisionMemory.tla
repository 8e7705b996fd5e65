-------------------------- MODULE MCDecisionMemory --------------------------
(* Small workspaces for model checking DecisionMemory.                     *)
EXTENDS DecisionMemory, TLC

CONSTANTS d1, d2, a1, a2, e1, e2, x1, x2, n1, r1, r2, p1, p2

\* Authoritative evidence against an important decision, and a weak source.
Strong == 90
Weak   == 40

OneDecision      == {d1}
TwoDecisions     == {d1, d2}
OneAssumption    == {a1}
TwoAssumptions   == {a1, a2}
BothOnFirst      == [a \in {a1, a2} |-> d1]
FirstOnFirst     == [a \in {a1} |-> d1]
Trust80          == [a \in Assumption |-> 80]
Important        == [d \in Decision |-> 90]
OneEvent         == {e1}
TwoEvents        == {e1, e2}
FirstStrong      == [e \in Event |-> IF e = e1 THEN Strong ELSE Weak]
Integration      == [e \in Event |-> "integration"]
TwoEvidence      == {x1, x2}
OneEach          == [x \in {x1, x2} |-> IF x = x1 THEN e1 ELSE e2]
TwoReadings      == [x \in {x1, x2} |-> e1]

Contradicts == [method |-> "DETERMINISTIC", relation |-> "CONTRADICTS", confidence |-> 90]
ModelSays   == [method |-> "SEMANTIC",      relation |-> "CONTRADICTS", confidence |-> 60]
NoModel     == [method |-> "UNAVAILABLE",   relation |-> "UNCERTAIN",   confidence |-> 0]

OnlyContradicts == {Contradicts}
AnyJudgement    == {Contradicts, ModelSays, NoModel}

\* Bound: the second decision only ever serves as a replacement.
ReplacementOnly == status[d2] \in {"ABSENT", "ACTIVE"} /\ commitRequest[d2] = "ABSENT"

RunSymmetry == Permutations(Run) \cup Permutations(Person)
=============================================================================
