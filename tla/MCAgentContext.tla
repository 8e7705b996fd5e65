--------------------------- MODULE MCAgentContext ---------------------------
(* A small workspace whose decisions change while an agent asks about them. *)
EXTENDS AgentContext, TLC

CONSTANTS d1, d2, a1, n1, p1

AllOnFirst    == [a \in Assumption |-> d1]
Trust80       == [a \in Assumption |-> 80]
Important     == [d \in Decision |-> 90]

\* An action that breaks the first decision's blocking constraint, asked with room
\* for one decision and for two, and one that breaks nothing but advice.
AnyAsk ==
  {[maxDecisions |-> 1, broken |-> {d1, d2}, blocking |-> {d1}],
   [maxDecisions |-> 2, broken |-> {d1, d2}, blocking |-> {d1}],
   [maxDecisions |-> 2, broken |-> {d2},     blocking |-> {}]}

NoFunction    == << >>

\* Bound: no proposals, so that a decision is taken, doubted, reopened and
\* superseded but never drafted.
NoProposals == \A d \in Decision : commitRequest[d] = "ABSENT"
=============================================================================
