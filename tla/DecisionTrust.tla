---------------------------- MODULE DecisionTrust ----------------------------
(***************************************************************************)
(* What decision memory promises, without evidence, transactions or people: *)
(* every recorded decision has a standing and a set of concerns held        *)
(* against it.  A decision reads as trusted only while it has no concern,   *)
(* raising one makes it questioned, settling the last one restores it, and  *)
(* a closed decision stays closed.                                         *)
(*                                                                         *)
(* A step is described by what it may do to the one decision it concerns;  *)
(* an implementation has no witness to exhibit.                            *)
(***************************************************************************)
CONSTANT Decision

VARIABLES standing, concerns

vars == <<standing, concerns>>

Init ==
  /\ standing = [d \in Decision |-> "unknown"]
  /\ concerns = [d \in Decision |-> {}]

Recorded(d) == standing[d] \notin {"unknown", "proposed"}

SameConcerns(d) == concerns'[d] = concerns[d]

Propose(d) == standing[d] = "unknown" /\ standing'[d] = "proposed" /\ SameConcerns(d)

Adopt(d) == ~ Recorded(d) /\ standing'[d] = "trusted" /\ SameConcerns(d)

\* Whatever is newly held against a decision questions it, unless it is closed.
Question(d) ==
  /\ Recorded(d)
  /\ concerns[d] \subseteq concerns'[d]
  /\ ~ SameConcerns(d)
  /\ standing'[d] = IF standing[d] = "closed" THEN "closed" ELSE "questioned"

\* A concern is decided; confirming it may leave another in its place.
Settle(d) ==
  /\ Recorded(d)
  /\ ~ (concerns[d] \subseteq concerns'[d])
  /\ standing'[d] = IF standing[d] = "questioned" /\ concerns'[d] = {}
                      THEN "trusted" ELSE standing[d]

Reconsider(d) ==
  /\ standing[d] \in {"trusted", "questioned"}
  /\ standing'[d] = "reconsidered"
  /\ SameConcerns(d)

Close(d) ==
  /\ standing[d] # "unknown"
  /\ standing'[d] = "closed"
  /\ concerns'[d] \subseteq concerns[d]

Next ==
  \E d \in Decision :
    /\ \A o \in Decision \ {d} : standing'[o] = standing[o] /\ concerns'[o] = concerns[o]
    /\ Propose(d) \/ Adopt(d) \/ Question(d) \/ Settle(d) \/ Reconsider(d) \/ Close(d)

Spec == Init /\ [][Next]_vars

------------------------------------------------------------------------------
\* What a reader of memory relies on: nothing is held against a decision that
\* is trusted or not yet taken, and something is against one that is questioned.
StandingMatchesConcerns ==
  \A d \in Decision :
    /\ standing[d] \in {"unknown", "proposed", "trusted"} => concerns[d] = {}
    /\ standing[d] = "questioned" => concerns[d] # {}
=============================================================================
