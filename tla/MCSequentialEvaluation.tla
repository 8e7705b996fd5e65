----------------------- MODULE MCSequentialEvaluation -----------------------
(* Evidence on either side of every threshold, under several workspaces'    *)
(* policies.                                                               *)
EXTENDS SequentialEvaluation

It(relation, confidence, authority, actor) ==
  [relation |-> relation, confidence |-> confidence, evidenceAuthority |-> authority,
   actorType |-> actor]

Items ==
  { It("CONTRADICTS", 49, 90, "user"),        It("CONTRADICTS", 50, 90, "user"),
    It("CONTRADICTS", 75, 90, "agent"),       It("UPDATES",     75, 80, "integration"),
    It("CONTRADICTS", 90, 49, "integration"), It("SUPPORTS",   100, 100, "user"),
    It("UNCERTAIN",   90, 90, "user") }

NoChat ==
  {[name |-> "no_chat_evidence", when |-> [evidenceAuthority |-> {49}], actions |-> {"suppress"}]}
TrustAgents ==
  {[name |-> "agent_supplied_evidence", when |-> [actorType |-> {"agent"}], actions |-> {"notify_dashboard"}]}
PeopleDecide ==
  {[name |-> "people_decide", when |-> [proposedValidity |-> {"INVALIDATED"}],
    actions |-> {"never_auto_invalidate", "require_human_review"}]}
Quiet ==
  {[name |-> "quiet", when |-> [relation |-> {"UPDATES"}], actions |-> {"do_not_flag_decision"}]}

RuleSets == {MergePolicies(DefaultPolicies, o) : o \in {{}, NoChat, TrustAgents, PeopleDecide, Quiet}}
Trusts   == {50, 85, 100}
Imports  == {50, 90}

\* A sales forecast, which the shipped profiles trust at 0.7, against an
\* assumption recorded at 0.8.
Forecast     == {It("CONTRADICTS", 100, 70, "integration")}
DefaultsOnly == {DefaultPolicies}
Eighty       == {80}
=============================================================================
