--------------------------- MODULE DecisionMemory ---------------------------
(***************************************************************************)
(* The living memory of one workspace: decisions, the assumptions they rest *)
(* on, the conflicts evidence opens against them, and the approval requests *)
(* that ask a person about both.                                           *)
(*                                                                         *)
(* Three kinds of actor change it concurrently.  Evaluation runs           *)
(* (services/triggers.ts) take an inbox event, read candidates, and apply  *)
(* one transaction per candidate, each with what it read before.  People   *)
(* (services/decisions.ts, services/approvals.ts) read a decision or a     *)
(* request and then write in a transaction of their own.  The expiry sweep *)
(* (services/expiry.ts) re-reads inside its transaction.                   *)
(*                                                                         *)
(* Every store.transaction is one atomic step, as on the serializable      *)
(* database the code targets; what is read outside a transaction is kept   *)
(* in the actor's record and used later, however stale it has become.      *)
(***************************************************************************)
EXTENDS Lifecycle, FiniteSets

CONSTANTS
  Decision, Assumption,
  Of,                   \* the decision each assumption belongs to
  AssumptionAuthority, DecisionImportance,
  Expiring,             \* the assumptions whose validUntil has passed
  Synonym,              \* the assumptions evidence names differently than they do
  Event, Authority, ActorType,
  Evidence, EventOf,    \* the evidence an event may be stored as: one item per
                        \* set of facts the model may extract from its text
  Sweep,                \* names for the conflicts of the expiry sweep, which carry
                        \* no evidence; their number bounds the sweeps
  Judgement,            \* the (method, relation, confidence) a candidate can get
  Rules,                \* the workspace's merged policies
  Run, Person,
  Overrun,              \* may a run still be at work ten minutes after its claim?
  None

ASSUME OfAssumption == Of \in [Assumption -> Decision]

ASSUME EventAssumption ==
  /\ EventOf \in [Evidence -> Event]
  /\ Authority \in [Event -> 0 .. 100]
  /\ ActorType \in [Event -> {"user", "agent", "integration", "system"}]
  /\ Evidence \cap Sweep = {}

\* judge: comparison by code, the model's opinion, or the reason there is neither.
Judged ==
       [method : {"DETERMINISTIC", "SEMANTIC"}, relation : Relation, confidence : 0 .. 100]
  \cup [method : {"SKIPPED"}, relation : {"UNCERTAIN", "IRRELEVANT"}, confidence : {0}]
  \cup [method : {"UNAVAILABLE"}, relation : {"UNCERTAIN"}, confidence : {0}]

ASSUME JudgementAssumption == Judgement \subseteq Judged

ASSUME SettingAssumption ==
  /\ AssumptionAuthority \in [Assumption -> 0 .. 100]
  /\ DecisionImportance \in [Decision -> 0 .. 100]
  /\ Expiring \subseteq Assumption
  /\ Synonym \subseteq Assumption
  /\ Overrun \in BOOLEAN
  /\ None \notin Decision

VARIABLES
  status,        \* of a decision, or ABSENT
  supersededBy,  \* the decision that replaced it, or None
  validity,      \* of an assumption
  conflict,      \* OPEN (no resolution yet), how it was resolved, or ABSENT
  review,        \* the REVIEW_CONFLICT request of a conflict
  commitRequest, \* the COMMIT_DECISION request of a decision
  alias,         \* the PROFILE_SUGGESTION raised for an assumption's predicate
  inbox,         \* of an event
  evaluated,     \* the (event, assumption, method) of every evaluation stored
  work,          \* what each evaluation run holds in memory
  session        \* what each person's request holds in memory

memory == <<status, supersededBy, validity, conflict, review, commitRequest, alias>>
vars   == <<memory, inbox, evaluated, work, session>>

------------------------------------------------------------------------------
\* UNIQUE (tenant, assumption, evidence); a sweep's conflict has no evidence.
ConflictId == Assumption \X (Evidence \cup Sweep)

AssumptionOf(c) == c[1]
DecisionOf(c)   == Of[c[1]]

Resolution     == {"ACCEPTED", "DISMISSED", "SUPERSEDED"}
Undecided      == {"PENDING", "NEEDS_EVIDENCE"}
ApprovalStatus == Undecided \cup {"APPROVED", "REJECTED", "SUPERSEDED_OLD", "LINKED"}

Candidate == [assumption : Assumption, validity : LiveValidity]

IdleRun == [stage |-> "idle"]
Work    == {IdleRun}
             \cup [stage : {"claimed"}, event : Event]
             \cup [stage : {"ranked", "judging"}, event : Event, evidence : Evidence,
                   candidates : SUBSET Candidate]

NoSession == [op |-> "idle"]
Session   == {NoSession}
               \cup [op : {"commit"}, decision : Decision, queued : BOOLEAN]
               \cup [op : {"reject", "close"}, decision : Decision, as : {"REJECTED", "LINKED"}]
               \cup [op : {"supersede"}, decision : Decision, by : Decision,
                     kept : SUBSET Assumption]

TypeOK ==
  /\ status \in [Decision -> DecisionStatus \cup {"ABSENT"}]
  /\ supersededBy \in [Decision -> Decision \cup {None}]
  /\ validity \in [Assumption -> Validity]
  /\ conflict \in [ConflictId -> Resolution \cup {"OPEN", "ABSENT"}]
  /\ review \in [ConflictId -> ApprovalStatus \cup {"ABSENT"}]
  /\ commitRequest \in [Decision -> ApprovalStatus \cup {"ABSENT"}]
  /\ alias \in [Assumption -> ApprovalStatus \cup {"ABSENT"}]
  /\ inbox \in [Event -> {"RECEIVED", "PROCESSING", "PROCESSED", "FAILED"}]
  /\ evaluated \subseteq Event \X Assumption \X {j.method : j \in Judgement}
  /\ work \in [Run -> Work]
  /\ session \in [Person -> Session]

Init ==
  /\ status = [d \in Decision |-> "ABSENT"]
  /\ supersededBy = [d \in Decision |-> None]
  /\ validity = [a \in Assumption |-> "VALID"]
  /\ conflict = [c \in ConflictId |-> "ABSENT"]
  /\ review = [c \in ConflictId |-> "ABSENT"]
  /\ commitRequest = [d \in Decision |-> "ABSENT"]
  /\ alias = [a \in Assumption |-> "ABSENT"]
  /\ inbox = [e \in Event |-> "RECEIVED"]
  /\ evaluated = {}
  /\ work = [r \in Run |-> IdleRun]
  /\ session = [p \in Person |-> NoSession]

------------------------------------------------------------------------------
\* What the transactions ask of memory.

OpenConflicts(d) == {c \in ConflictId : DecisionOf(c) = d /\ conflict[c] = "OPEN"}

\* The assumptions of d that count against it, under the validities v.
DoubtfulUnder(v, d) == {a \in Assumption : Of[a] = d /\ v[a] \in Compromised}

AlreadyAccepted(a) == \E c \in ConflictId : AssumptionOf(c) = a /\ conflict[c] = "ACCEPTED"

StillOnAssumption(c) ==
  \E o \in OpenConflicts(DecisionOf(c)) \ {c} : AssumptionOf(o) = AssumptionOf(c)

\* A dismissal restores the assumption only when no other conflict is open on
\* it and no person has confirmed one.
MayRestoreWhenAccepted(c) == ~ StillOnAssumption(c)   \* mutant: forgets the confirmed ones
MayRestore(c) == ~ StillOnAssumption(c) /\ ~ AlreadyAccepted(AssumptionOf(c))

ValidityAfterDismissal(c) ==
  IF MayRestore(c) THEN [validity EXCEPT ![AssumptionOf(c)] = "VALID"] ELSE validity

\* Mutants: c still counts itself; only c's own assumption is looked at; the
\* validities are not looked at.
CountsItself(c)    == OpenConflicts(DecisionOf(c)) # {}
OnlyItsOwn(c)      == StillOnAssumption(c) \/ AlreadyAccepted(AssumptionOf(c))
OnlyOpenOnes(c)    == OpenConflicts(DecisionOf(c)) \ {c} # {}

\* Does something other than c still hold the decision at risk?
StillCompromised(c) ==
  \/ OpenConflicts(DecisionOf(c)) \ {c} # {}
  \/ DoubtfulUnder(ValidityAfterDismissal(c), DecisionOf(c)) # {}

\* Mutant: stores the conflict's word for the verdict.
CloseReviewAsConflict(c, verdict) ==
  [review EXCEPT ![c] = IF @ = "PENDING" THEN conflict'[c] ELSE @]

\* closeReviewApprovals: only a request that is PENDING closes with its conflict.
CloseReview(c, verdict) ==
  [review EXCEPT ![c] = IF @ = "PENDING" THEN verdict ELSE @]

\* suggestAlias: a confirmed conflict that a model had to judge offers to make
\* the two names one, once per pair of names.
WithAliasSuggestion(a) ==
  IF /\ a \in Synonym
     /\ alias[a] = "ABSENT"
     /\ \E e \in Event : <<e, a, "SEMANTIC">> \in evaluated
    THEN [alias EXCEPT ![a] = "PENDING"]
    ELSE alias

EvaluatedFor(e) == {a \in Assumption : \E m \in {j.method : j \in Judgement} : <<e, a, m>> \in evaluated}

------------------------------------------------------------------------------
(* Proposals and commits (services/decisions.ts).                          *)

\* An agent or a person proposes: a DRAFT with its COMMIT_DECISION request.
Propose(d) ==
  /\ status[d] = "ABSENT"
  /\ status' = [status EXCEPT ![d] = "DRAFT"]
  /\ commitRequest' = [commitRequest EXCEPT ![d] = "PENDING"]
  /\ UNCHANGED <<supersededBy, validity, conflict, review, alias, inbox, evaluated, work, session>>

\* A person records a decision that is already taken.
Create(d) ==
  /\ status[d] = "ABSENT"
  /\ status' = [status EXCEPT ![d] = "ACTIVE"]
  /\ UNCHANGED <<supersededBy, validity, conflict, review, commitRequest, alias,
                 inbox, evaluated, work, session>>

\* An agent's commit only asks.  The status of the decision is not looked at:
\* one that is already active gets a request too, if it never had one.
RequestCommit(d) ==
  /\ status[d] # "ABSENT"
  /\ commitRequest[d] = "ABSENT"
  /\ commitRequest' = [commitRequest EXCEPT ![d] = "PENDING"]
  /\ UNCHANGED <<status, supersededBy, validity, conflict, review, alias,
                 inbox, evaluated, work, session>>

\* A person's commit, through the approval queue or directly, first reads the
\* decision (and, in the queue, the request) ...
ReadToCommit(p, d, queued) ==
  /\ session[p] = NoSession
  /\ status[d] = "DRAFT"
  /\ queued => commitRequest[d] \in Undecided
  /\ session' = [session EXCEPT ![p] = [op |-> "commit", decision |-> d, queued |-> queued]]
  /\ UNCHANGED <<memory, inbox, evaluated, work>>

\* ... and then writes.  Outside the queue only a request that is PENDING is
\* found and approved with it.
ApprovedByCommit(request, queued) ==
  IF request = "PENDING" \/ (queued /\ request = "NEEDS_EVIDENCE") THEN "APPROVED" ELSE request

Commit(p) ==
  LET s == session[p] IN
  /\ s.op = "commit"
  /\ AssertTransition(status[s.decision], "ACTIVE")
  /\ status' = [status EXCEPT ![s.decision] = "ACTIVE"]
  /\ commitRequest' = [commitRequest EXCEPT ![s.decision] = ApprovedByCommit(@, s.queued)]
  /\ session' = [session EXCEPT ![p] = NoSession]
  /\ UNCHANGED <<supersededBy, validity, conflict, review, alias, inbox, evaluated, work>>

\* Rejecting a proposal, or linking it to the decision it repeats: the request
\* is read, the decision archived in one transaction, the request closed in
\* another.
ReadToReject(p, d, as) ==
  /\ session[p] = NoSession
  /\ commitRequest[d] \in Undecided
  /\ session' = [session EXCEPT ![p] = [op |-> "reject", decision |-> d, as |-> as]]
  /\ UNCHANGED <<memory, inbox, evaluated, work>>

Reject(p) ==
  LET s == session[p] IN
  /\ s.op = "reject"
  /\ AssertTransition(status[s.decision], "ARCHIVED")
  /\ status' = [status EXCEPT ![s.decision] = "ARCHIVED"]
  /\ session' = [session EXCEPT ![p] = [s EXCEPT !.op = "close"]]
  /\ UNCHANGED <<supersededBy, validity, conflict, review, commitRequest, alias,
                 inbox, evaluated, work>>

CloseRejected(p) ==
  LET s == session[p] IN
  /\ s.op = "close"
  /\ commitRequest[s.decision] \in Undecided
  /\ commitRequest' = [commitRequest EXCEPT ![s.decision] = s.as]
  /\ session' = [session EXCEPT ![p] = NoSession]
  /\ UNCHANGED <<status, supersededBy, validity, conflict, review, alias,
                 inbox, evaluated, work>>

\* Supersession reads both decisions, whatever the replacement's status ...
ReadToSupersede(p, old, new) ==
  /\ session[p] = NoSession
  /\ old # new
  /\ status[old] # "ABSENT" /\ status[new] # "ABSENT"
  /\ session' = [session EXCEPT ![p] =
       [op |-> "supersede", decision |-> old, by |-> new,
        kept |-> {a \in Assumption : Of[a] = old /\ validity[a] = "INVALIDATED"}]]
  /\ UNCHANGED <<memory, inbox, evaluated, work>>

SupersededValidity(d, kept) ==
  [a \in Assumption |-> IF Of[a] = d /\ a \notin kept THEN "SUPERSEDED" ELSE validity[a]]

\* Mutants: the conflicts are left alone; the resolved ones are swept along.
ConflictLeftOpen(d)  == conflict
ConflictSweptAway(d) ==
  [c \in ConflictId |-> IF DecisionOf(c) = d /\ conflict[c] # "ABSENT"
                          THEN "SUPERSEDED" ELSE conflict[c]]

SupersededConflict(d) ==
  [c \in ConflictId |-> IF c \in OpenConflicts(d) THEN "SUPERSEDED" ELSE conflict[c]]

SupersededRequest(request) == IF request \in Undecided THEN "SUPERSEDED_OLD" ELSE request

\* ... and then replaces the old one and closes what was still open about it.
Supersede(p) ==
  LET s == session[p]
      d == s.decision
  IN
  /\ s.op = "supersede"
  /\ AssertTransition(status[d], "SUPERSEDED")
  /\ status' = [status EXCEPT ![d] = "SUPERSEDED"]
  /\ supersededBy' = [supersededBy EXCEPT ![d] = s.by]
  /\ validity' = SupersededValidity(d, s.kept)
  /\ conflict' = SupersededConflict(d)
  /\ review' = [c \in ConflictId |->
                  IF DecisionOf(c) = d THEN SupersededRequest(review[c]) ELSE review[c]]
  /\ commitRequest' = [commitRequest EXCEPT ![d] = SupersededRequest(@)]
  /\ alias' = [a \in Assumption |->
                 IF Of[a] = d THEN SupersededRequest(alias[a]) ELSE alias[a]]
  /\ session' = [session EXCEPT ![p] = NoSession]
  /\ UNCHANGED <<inbox, evaluated, work>>

\* The request dies between its steps, or its transaction is refused.
Abandon(p) ==
  /\ session[p] # NoSession
  /\ session' = [session EXCEPT ![p] = NoSession]
  /\ UNCHANGED <<memory, inbox, evaluated, work>>

------------------------------------------------------------------------------
(* What people decide about conflicts (services/approvals.ts).             *)

Accept(c) ==
  /\ conflict[c] = "OPEN"
  /\ conflict' = [conflict EXCEPT ![c] = "ACCEPTED"]
  /\ validity' = [validity EXCEPT ![AssumptionOf(c)] = "INVALIDATED"]
  /\ review' = CloseReview(c, "APPROVED")
  /\ alias' = WithAliasSuggestion(AssumptionOf(c))
  /\ UNCHANGED <<status, supersededBy, commitRequest, inbox, evaluated, work, session>>

Dismiss(c) ==
  LET d == DecisionOf(c) IN
  /\ conflict[c] = "OPEN"
  /\ conflict' = [conflict EXCEPT ![c] = "DISMISSED"]
  /\ validity' = ValidityAfterDismissal(c)
  /\ status' = IF status[d] = "AT_RISK" /\ ~ StillCompromised(c)
                 THEN [status EXCEPT ![d] = "ACTIVE"] ELSE status
  /\ review' = CloseReview(c, "REJECTED")
  /\ UNCHANGED <<supersededBy, commitRequest, alias, inbox, evaluated, work, session>>

Reopen(d) ==
  /\ status[d] # "ABSENT"
  /\ AssertTransition(status[d], "REOPENED")
  /\ status' = [status EXCEPT ![d] = "REOPENED"]
  /\ UNCHANGED <<supersededBy, validity, conflict, review, commitRequest, alias,
                 inbox, evaluated, work, session>>

\* "Request more evidence" parks a request of any kind.
RequestEvidence ==
  /\ \/ /\ \E c \in ConflictId :
             /\ review[c] \in Undecided
             /\ review' = [review EXCEPT ![c] = "NEEDS_EVIDENCE"]
        /\ UNCHANGED <<commitRequest, alias>>
     \/ /\ \E d \in Decision :
             /\ commitRequest[d] \in Undecided
             /\ commitRequest' = [commitRequest EXCEPT ![d] = "NEEDS_EVIDENCE"]
        /\ UNCHANGED <<review, alias>>
     \/ /\ \E a \in Assumption :
             /\ alias[a] \in Undecided
             /\ alias' = [alias EXCEPT ![a] = "NEEDS_EVIDENCE"]
        /\ UNCHANGED <<review, commitRequest>>
  /\ UNCHANGED <<status, supersededBy, validity, conflict, inbox, evaluated, work, session>>

ResolveAlias(a) ==
  /\ alias[a] \in Undecided
  /\ \E verdict \in {"APPROVED", "REJECTED"} : alias' = [alias EXCEPT ![a] = verdict]
  /\ UNCHANGED <<status, supersededBy, validity, conflict, review, commitRequest,
                 inbox, evaluated, work, session>>

------------------------------------------------------------------------------
(* The expiry sweep (services/expiry.ts): every check is made again inside  *)
(* the transaction.                                                        *)

\* Evidence or expiry puts a decision at risk from these statuses.
Flagged(from) == IF from \in {"ACTIVE", "REOPENED"} THEN "AT_RISK" ELSE from

Expire(a, n) ==
  LET d == Of[a] IN
  /\ a \in Expiring
  /\ validity[a] \in Unquestioned
  /\ status[d] \in Live
  /\ conflict[<<a, n>>] = "ABSENT"
  /\ conflict' = [conflict EXCEPT ![<<a, n>>] = "OPEN"]
  /\ validity' = [validity EXCEPT ![a] = "CHALLENGED"]
  /\ status' = [status EXCEPT ![d] = Flagged(@)]
  /\ UNCHANGED <<supersededBy, review, commitRequest, alias, inbox, evaluated, work, session>>

------------------------------------------------------------------------------
(* An evaluation run (services/triggers.ts, TriggerEngine.process).        *)

\* claimEvent: an event nobody works on, or one claimed more than ten minutes
\* ago, which only a crashed run's is unless runs may overrun.
Claimable(e) ==
  \/ inbox[e] \in {"RECEIVED", "FAILED"}
  \/ /\ inbox[e] = "PROCESSING"
     /\ ~ Overrun => \A r \in Run : work[r] # IdleRun => work[r].event # e

Claim(r, e) ==
  /\ work[r] = IdleRun
  /\ Claimable(e)
  /\ inbox' = [inbox EXCEPT ![e] = "PROCESSING"]
  /\ work' = [work EXCEPT ![r] = [stage |-> "claimed", event |-> e]]
  /\ UNCHANGED <<memory, evaluated, session>>

\* consider: what may be found when candidates are read.
Retrievable == {a \in Assumption : status[Of[a]] \in Live /\ validity[a] \in LiveValidity}

\* The evidence is stored and the candidates read; which assumptions predicates,
\* resources and vectors find is left open.
FindCandidates(r) ==
  /\ work[r].stage = "claimed"
  /\ \E x \in Evidence, found \in SUBSET Retrievable :
       /\ EventOf[x] = work[r].event
       /\ work' = [work EXCEPT ![r] =
            [stage |-> "ranked", event |-> work[r].event, evidence |-> x,
             candidates |-> {[assumption |-> a, validity |-> validity[a]] : a \in found}]]
  /\ UNCHANGED <<memory, inbox, evaluated, session>>

\* alreadyEvaluated: what an earlier attempt at this event has settled.
EvaluateAgain(w)   == w.candidates   \* mutant: evaluates them all again
NotYetEvaluated(w) == {k \in w.candidates : k.assumption \notin EvaluatedFor(w.event)}

SkipEvaluated(r) ==
  /\ work[r].stage = "ranked"
  /\ work' = [work EXCEPT ![r] =
       [@ EXCEPT !.stage = "judging", !.candidates = NotYetEvaluated(work[r])]]
  /\ UNCHANGED <<memory, inbox, evaluated, session>>

\* The outcome is computed from what the run read about the candidate.
OutcomeFor(e, k, j) ==
  IF j.method \in {"SKIPPED", "UNAVAILABLE"} THEN NoOutcome
  ELSE ResolveEvaluationOutcome(
         [relation           |-> j.relation,
          confidence         |-> j.confidence,
          method             |-> j.method,
          evidenceAuthority  |-> Authority[e],
          assumptionAuthority|-> AssumptionAuthority[k.assumption],
          currentValidity    |-> k.validity,
          decisionImportance |-> DecisionImportance[Of[k.assumption]],
          actorType          |-> ActorType[e]], Rules)

\* apply, when it opens no conflict: none is called for, or this evidence has
\* already opened one on this assumption.
RecordEvaluation(r, k, j) ==
  LET w == work[r] IN
  /\ w.stage = "judging"
  /\ k \in w.candidates
  /\ \/ ~ OutcomeFor(w.event, k, j).recordConflict
     \/ conflict[<<k.assumption, w.evidence>>] # "ABSENT"
  /\ evaluated' = evaluated \cup {<<w.event, k.assumption, j.method>>}
  /\ work' = [work EXCEPT ![r].candidates = @ \ {k}]
  /\ UNCHANGED <<memory, inbox, session>>

ValidityAfter(o, a) ==
  IF o.nextValidity = Unchanged THEN validity ELSE [validity EXCEPT ![a] = o.nextValidity]

\* apply, when it does.
RaiseConflict(r, k, j) ==
  LET w == work[r]
      o == OutcomeFor(w.event, k, j)
      c == <<k.assumption, w.evidence>>
  IN
  /\ w.stage = "judging"
  /\ k \in w.candidates
  /\ o.recordConflict
  /\ conflict[c] = "ABSENT"
  /\ evaluated' = evaluated \cup {<<w.event, k.assumption, j.method>>}
  /\ conflict' = [conflict EXCEPT ![c] = "OPEN"]
  /\ validity' = ValidityAfter(o, k.assumption)
  /\ status' = IF o.flagDecision
                 THEN [status EXCEPT ![DecisionOf(c)] = Flagged(@)] ELSE status
  /\ review' = IF o.requireReview THEN [review EXCEPT ![c] = "PENDING"] ELSE review
  /\ work' = [work EXCEPT ![r].candidates = @ \ {k}]
  /\ UNCHANGED <<supersededBy, commitRequest, alias, inbox, session>>

Finish(r) ==
  /\ work[r].stage = "judging"
  /\ work[r].candidates = {}
  /\ inbox' = [inbox EXCEPT ![work[r].event] = "PROCESSED"]
  /\ work' = [work EXCEPT ![r] = IdleRun]
  /\ UNCHANGED <<memory, evaluated, session>>

\* Whatever a run throws is written over the event's status, whoever holds it.
Fail(r) ==
  /\ work[r] # IdleRun
  /\ inbox' = [inbox EXCEPT ![work[r].event] = "FAILED"]
  /\ work' = [work EXCEPT ![r] = IdleRun]
  /\ UNCHANGED <<memory, evaluated, session>>

Crash(r) ==
  /\ work[r] # IdleRun
  /\ work' = [work EXCEPT ![r] = IdleRun]
  /\ UNCHANGED <<memory, inbox, evaluated, session>>

------------------------------------------------------------------------------
Decide ==
  \/ \E d \in Decision : Propose(d) \/ Create(d) \/ RequestCommit(d) \/ Reopen(d)
  \/ \E c \in ConflictId : Accept(c) \/ Dismiss(c)
  \/ RequestEvidence
  \/ \E a \in Assumption : ResolveAlias(a)

Converse ==
  \E p \in Person :
    \/ \E d \in Decision, queued \in BOOLEAN : ReadToCommit(p, d, queued)
    \/ Commit(p)
    \/ \E d \in Decision, as \in {"REJECTED", "LINKED"} : ReadToReject(p, d, as)
    \/ Reject(p)
    \/ CloseRejected(p)
    \/ \E old, new \in Decision : ReadToSupersede(p, old, new)
    \/ Supersede(p)
    \/ Abandon(p)

Evaluate ==
  \E r \in Run :
    \/ \E e \in Event : Claim(r, e)
    \/ FindCandidates(r)
    \/ SkipEvaluated(r)
    \/ \E k \in Candidate, j \in Judgement : RecordEvaluation(r, k, j) \/ RaiseConflict(r, k, j)
    \/ Finish(r) \/ Fail(r) \/ Crash(r)

Next ==
  \/ Decide
  \/ Converse
  \/ Evaluate
  \/ \E a \in Assumption, n \in Sweep : Expire(a, n)

Spec == Init /\ [][Next]_vars

------------------------------------------------------------------------------
(* What must hold.                                                         *)

\* A decision at risk can say why: a conflict is open on it, or one of its
\* assumptions is challenged or invalid.  Accepting, dismissing, expiring and
\* evaluating each change part of that, from different transactions.
RiskHasReason ==
  \A d \in Decision :
    status[d] = "AT_RISK" => OpenConflicts(d) # {} \/ DoubtfulUnder(validity, d) # {}

\* And one that reads ACTIVE has nothing held against it, so an agent that is
\* told to rely on it may (as long as one person at a time commits, and no
\* policy says do_not_flag_decision).
ActiveMeansTrusted ==
  \A d \in Decision :
    status[d] = "ACTIVE" => OpenConflicts(d) = {} /\ DoubtfulUnder(validity, d) = {}

\* An assumption a person has confirmed invalid is never restored by dismissing
\* another conflict, by a late evaluation or by a sweep.
ConfirmedNeverRestored ==
  \A a \in Assumption : AlreadyAccepted(a) => validity[a] \notin Unquestioned

\* The approval queue and the conflicts tell one story: a review that waits
\* waits for an open conflict, and its verdict is the conflict's resolution.
ReviewAgreesWithConflict ==
  \A c \in ConflictId :
    /\ review[c] = "PENDING"        => conflict[c] = "OPEN"
    /\ review[c] = "NEEDS_EVIDENCE" => conflict[c] # "ABSENT"
    /\ review[c] = "APPROVED"       => conflict[c] = "ACCEPTED"
    /\ review[c] = "REJECTED"       => conflict[c] = "DISMISSED"
    /\ review[c] = "SUPERSEDED_OLD" => conflict[c] \notin {"OPEN", "ABSENT"}

\* One event opens at most one conflict on an assumption, however often its
\* processing fails, crashes and is retried, and even when the model extracts
\* different facts on the retry (as long as no run overruns its claim).
OneConflictPerEvent ==
  \A a \in Assumption, x, y \in Evidence :
    /\ EventOf[x] = EventOf[y]
    /\ conflict[<<a, x>>] # "ABSENT"
    /\ conflict[<<a, y>>] # "ABSENT"
    => x = y

\* What docs, comments and tests claim and the code does not keep.

\* "A second, weaker contradiction must not turn an INVALIDATED assumption back
\* into a merely CHALLENGED one" (outcome.ts): the severity is compared with
\* the validity the run read, not with the one it overwrites.
NeverBackwards ==
  [][\A a \in Assumption : validity[a] = "INVALIDATED" => validity'[a] # "CHALLENGED"]_vars

\* "Nothing is left to decide about a replaced decision" (decisions.ts): an
\* evaluation that read its candidates earlier still opens conflicts on it.
SupersededIsClosed ==
  \A c \in ConflictId :
    status[DecisionOf(c)] = "SUPERSEDED" => conflict[c] # "OPEN" /\ review[c] \notin Undecided

\* The queue's open requests "still need a person" (approvals.ts): a review
\* parked for more evidence outlives its conflict.
OpenReviewNeedsPerson ==
  \A c \in ConflictId : review[c] \in Undecided => conflict[c] = "OPEN"

\* A resolved conflict keeps its resolution, and a closed decision stays closed.
HistoryIsFinal ==
  [][ /\ \A c \in ConflictId : conflict[c] \in Resolution => conflict'[c] = conflict[c]
      /\ \A d \in Decision : status[d] \in {"SUPERSEDED", "ARCHIVED"} => status'[d] = status[d]
    ]_vars

------------------------------------------------------------------------------
\* The view of memory that DecisionTrust speaks of.
Standing(d) ==
  [ABSENT     |-> "unknown",  DRAFT   |-> "proposed",   ACTIVE     |-> "trusted",
   AT_RISK    |-> "questioned", REOPENED |-> "reconsidered",
   SUPERSEDED |-> "closed",   ARCHIVED |-> "closed"][status[d]]

Trust == INSTANCE DecisionTrust WITH
  standing <- [d \in Decision |-> Standing(d)],
  concerns <- [d \in Decision |-> OpenConflicts(d) \cup DoubtfulUnder(validity, d)]

\* Decision memory implements DecisionTrust (under the same two provisos as
\* ActiveMeansTrusted): whatever the interleaving, a decision never reads ACTIVE
\* with a concern open, never leaves AT_RISK while one remains, and never comes
\* back from SUPERSEDED or ARCHIVED.
KeepsTrust == Trust!Spec
=============================================================================
