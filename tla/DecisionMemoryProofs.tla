------------------------ MODULE DecisionMemoryProofs ------------------------
(* Type correctness and the safety invariants of DecisionMemory, for every  *)
(* workspace: any decisions, assumptions, events, policies, runs and people.*)
EXTENDS DecisionMemory, LifecycleProofs

\* Every named validity an outcome writes is one.
LEMMA ValidityAfterType ==
  ASSUME TypeOK, NEW r \in Run, NEW k \in Candidate, NEW j \in Judgement, NEW a \in Assumption
  PROVE  ValidityAfter(OutcomeFor(work[r].event, k, j), a) \in [Assumption -> Validity]
<1>1. OutcomeFor(work[r].event, k, j).nextValidity \in NextValidity
  BY OutcomeRange DEF OutcomeFor, NoOutcome, NextValidity
<1>2. QED
  BY <1>1 DEF ValidityAfter, TypeOK, NextValidity, Validity, Unchanged

\* A run that is done with a candidate, and what it stores of the evaluation,
\* are well formed.
LEMMA CandidateTaken ==
  ASSUME TypeOK, NEW r \in Run, NEW k \in Candidate, NEW j \in Judgement,
         work[r].stage = "judging",
         work' = [work EXCEPT ![r].candidates = @ \ {k}],
         evaluated' = evaluated \cup {<<work[r].event, k.assumption, j.method>>}
  PROVE  /\ work' \in [Run -> Work]
         /\ evaluated' \subseteq Event \X Assumption \X {i.method : i \in Judgement}
<1>1. work[r] \in [stage : {"ranked", "judging"}, event : Event, evidence : Evidence,
                   candidates : SUBSET Candidate]
  BY DEF TypeOK, Work, IdleRun
<1>2. work' = [work EXCEPT ![r] = [work[r] EXCEPT !.candidates = work[r].candidates \ {k}]]
  BY <1>1 DEF TypeOK
<1>3. [work[r] EXCEPT !.candidates = work[r].candidates \ {k}] \in Work
  BY <1>1 DEF Work
<1>4. work' \in [Run -> Work]
  BY <1>2, <1>3 DEF TypeOK
<1>5. <<work[r].event, k.assumption, j.method>>
        \in Event \X Assumption \X {i.method : i \in Judgement}
  BY <1>1 DEF Candidate
<1>6. QED
  BY <1>4, <1>5 DEF TypeOK

\* Memory, the inbox and what every actor holds keep their types.
LEMMA TypeStep == TypeOK /\ [Next]_vars => TypeOK'
<1> SUFFICES ASSUME TypeOK, [Next]_vars PROVE TypeOK'
  OBVIOUS
<1> USE OfAssumption, EventAssumption DEF memory
<1>1. ASSUME NEW d \in Decision, Propose(d) \/ Create(d) \/ RequestCommit(d) \/ Reopen(d)
      PROVE  TypeOK'
  BY <1>1 DEF TypeOK, Propose, Create, RequestCommit, Reopen, DecisionStatus, ApprovalStatus, Undecided
<1>2. ASSUME NEW c \in ConflictId, Accept(c) PROVE TypeOK'
  BY <1>2 DEF TypeOK, Accept, AssumptionOf, CloseReview, WithAliasSuggestion, ConflictId,
     Resolution, ApprovalStatus, Undecided, Validity
<1>3. ASSUME NEW c \in ConflictId, Dismiss(c) PROVE TypeOK'
  BY <1>3 DEF TypeOK, Dismiss, AssumptionOf, DecisionOf, CloseReview, ValidityAfterDismissal,
     ConflictId, Resolution, ApprovalStatus, Undecided, Validity, DecisionStatus
<1>4. CASE RequestEvidence
  BY <1>4 DEF TypeOK, RequestEvidence, ApprovalStatus, Undecided
<1>5. ASSUME NEW a \in Assumption, ResolveAlias(a) PROVE TypeOK'
  BY <1>5 DEF TypeOK, ResolveAlias, ApprovalStatus
<1>6. ASSUME NEW p \in Person, NEW d \in Decision, NEW queued \in BOOLEAN, ReadToCommit(p, d, queued)
      PROVE  TypeOK'
  BY <1>6 DEF TypeOK, ReadToCommit, Session
<1>7. ASSUME NEW p \in Person, Commit(p) PROVE TypeOK'
  BY <1>7 DEF TypeOK, Commit, Session, NoSession, ApprovedByCommit, ApprovalStatus, DecisionStatus
<1>8. ASSUME NEW p \in Person, NEW d \in Decision, NEW as \in {"REJECTED", "LINKED"}, ReadToReject(p, d, as)
      PROVE  TypeOK'
  BY <1>8 DEF TypeOK, ReadToReject, Session
<1>9. ASSUME NEW p \in Person, Reject(p) PROVE TypeOK'
  BY <1>9 DEF TypeOK, Reject, Session, NoSession, DecisionStatus
<1>10. ASSUME NEW p \in Person, CloseRejected(p) PROVE TypeOK'
  BY <1>10 DEF TypeOK, CloseRejected, Session, NoSession, ApprovalStatus
<1>11. ASSUME NEW p \in Person, NEW old \in Decision, NEW new \in Decision, ReadToSupersede(p, old, new)
       PROVE  TypeOK'
  BY <1>11 DEF TypeOK, ReadToSupersede, Session
<1>12. ASSUME NEW p \in Person, Supersede(p) PROVE TypeOK'
  BY <1>12 DEF TypeOK, Supersede, Session, NoSession, SupersededValidity, SupersededConflict,
     SupersededRequest, ApprovalStatus, Undecided, DecisionStatus, Validity, Resolution
<1>13. ASSUME NEW p \in Person, Abandon(p) PROVE TypeOK'
  BY <1>13 DEF TypeOK, Abandon, Session
<1>14. ASSUME NEW r \in Run, NEW e \in Event, Claim(r, e) PROVE TypeOK'
  BY <1>14 DEF TypeOK, Claim, Work
<1>15. ASSUME NEW r \in Run, FindCandidates(r) PROVE TypeOK'
  BY <1>15 DEF TypeOK, FindCandidates, Work, IdleRun, Retrievable, Candidate
<1>16. ASSUME NEW r \in Run, SkipEvaluated(r) PROVE TypeOK'
  <2>1. work[r] \in [stage : {"ranked", "judging"}, event : Event, evidence : Evidence,
                     candidates : SUBSET Candidate]
    BY <1>16 DEF TypeOK, SkipEvaluated, Work, IdleRun
  <2>2. NotYetEvaluated(work[r]) \in SUBSET Candidate
    BY <2>1 DEF NotYetEvaluated
  <2>3. [work[r] EXCEPT !.stage = "judging", !.candidates = NotYetEvaluated(work[r])] \in Work
    BY <2>1, <2>2 DEF Work
  <2>4. work' \in [Run -> Work]
    BY <1>16, <2>3 DEF TypeOK, SkipEvaluated
  <2>5. QED
    BY <1>16, <2>4 DEF TypeOK, SkipEvaluated
<1>17. ASSUME NEW r \in Run, NEW k \in Candidate, NEW j \in Judgement, RecordEvaluation(r, k, j)
       PROVE  TypeOK'
  <2>1. work' \in [Run -> Work] /\ evaluated' \subseteq Event \X Assumption \X {i.method : i \in Judgement}
    BY <1>17, CandidateTaken DEF RecordEvaluation
  <2>2. QED
    BY <1>17, <2>1 DEF TypeOK, RecordEvaluation
<1>18. ASSUME NEW r \in Run, NEW k \in Candidate, NEW j \in Judgement, RaiseConflict(r, k, j)
       PROVE  TypeOK'
  <2>1. work' \in [Run -> Work] /\ evaluated' \subseteq Event \X Assumption \X {i.method : i \in Judgement}
    BY <1>18, CandidateTaken DEF RaiseConflict
  <2>2. validity' \in [Assumption -> Validity]
    BY <1>18, ValidityAfterType DEF RaiseConflict, Candidate
  <2>3. QED
    BY <1>18, <2>1, <2>2 DEF TypeOK, RaiseConflict, Flagged, DecisionStatus, Resolution,
       ApprovalStatus, Undecided
<1>19. ASSUME NEW r \in Run, Finish(r) \/ Fail(r) \/ Crash(r) PROVE TypeOK'
  BY <1>19 DEF TypeOK, Finish, Fail, Crash, Work, IdleRun
<1>20. ASSUME NEW a \in Assumption, NEW n \in Sweep, Expire(a, n) PROVE TypeOK'
  BY <1>20 DEF TypeOK, Expire, Flagged, ConflictId, DecisionStatus, Resolution, Validity
<1>21. CASE UNCHANGED vars
  BY <1>21 DEF TypeOK, vars
<1>22. CASE Decide
  BY <1>1, <1>2, <1>3, <1>4, <1>5, <1>22 DEF Decide
<1>23. CASE Converse
  BY <1>6, <1>7, <1>8, <1>9, <1>10, <1>11, <1>12, <1>13, <1>23 DEF Converse
<1>24. CASE Evaluate
  <2>1. CASE \E r \in Run, k \in Candidate, j \in Judgement :
               RecordEvaluation(r, k, j) \/ RaiseConflict(r, k, j)
    BY <1>17, <1>18, <2>1
  <2>2. CASE \E r \in Run : \/ \E e \in Event : Claim(r, e)
                            \/ FindCandidates(r) \/ SkipEvaluated(r)
                            \/ Finish(r) \/ Fail(r) \/ Crash(r)
    BY <1>14, <1>15, <1>16, <1>19, <2>2
  <2>3. QED
    BY <1>24, <2>1, <2>2 DEF Evaluate
<1>25. QED
  BY <1>20, <1>21, <1>22, <1>23, <1>24 DEF Next

\* DecisionMemory is type correct.
THEOREM TypeCorrect == Spec => []TypeOK
<1>1. Init => TypeOK
  BY DEF Init, TypeOK, Validity, Work, Session
<1>2. QED
  BY <1>1, TypeStep, PTL DEF Spec
------------------------------------------------------------------------------
\* Most steps change neither decisions nor what is held against them.
Quiet == UNCHANGED <<status, validity, conflict, review>>

\* The steps that do.
LEMMA LoudSteps ==
  ASSUME [Next]_vars
  PROVE  \/ Quiet
         \/ \E d \in Decision : Propose(d) \/ Create(d) \/ Reopen(d)
         \/ \E c \in ConflictId : Accept(c) \/ Dismiss(c)
         \/ RequestEvidence
         \/ \E p \in Person : Commit(p) \/ Reject(p) \/ Supersede(p)
         \/ \E r \in Run, k \in Candidate, j \in Judgement : RaiseConflict(r, k, j)
         \/ \E a \in Assumption, n \in Sweep : Expire(a, n)
<1> USE DEF Quiet, memory
<1>1. CASE Decide
  BY <1>1 DEF Decide, RequestCommit, ResolveAlias
<1>2. CASE Converse
  BY <1>2 DEF Converse, ReadToCommit, ReadToReject, CloseRejected, ReadToSupersede, Abandon
<1>3. CASE Evaluate
  <2>1. ASSUME NEW r \in Run, NEW k \in Candidate, NEW j \in Judgement, RecordEvaluation(r, k, j)
        PROVE  Quiet
    BY <2>1 DEF RecordEvaluation
  <2>2. ASSUME NEW r \in Run, \/ \E e \in Event : Claim(r, e)
                              \/ FindCandidates(r) \/ SkipEvaluated(r)
                              \/ Finish(r) \/ Fail(r) \/ Crash(r)
        PROVE  Quiet
    BY <2>2 DEF Claim, FindCandidates, SkipEvaluated, Finish, Fail, Crash
  <2>3. QED
    BY <1>3, <2>1, <2>2 DEF Evaluate
<1>4. CASE UNCHANGED vars
  BY <1>4 DEF vars
<1>5. QED
  BY <1>1, <1>2, <1>3, <1>4 DEF Next

\* A conflict that an evaluation raises is on a candidate of its run.
LEMMA RaisedConflict ==
  ASSUME TypeOK, NEW r \in Run, NEW k \in Candidate, NEW j \in Judgement, RaiseConflict(r, k, j)
  PROVE  /\ <<k.assumption, work[r].evidence>> \in ConflictId
         /\ k.assumption \in Assumption
<1>1. work[r].evidence \in Evidence
  BY DEF RaiseConflict, TypeOK, Work, IdleRun
<1>2. QED
  BY <1>1 DEF ConflictId, Candidate

------------------------------------------------------------------------------
\* RiskHasReason is inductive by itself: each transaction that takes a reason
\* away either leaves another or takes the decision out of AT_RISK.
LEMMA RiskStep == TypeOK /\ RiskHasReason /\ [Next]_vars => RiskHasReason'
<1> SUFFICES ASSUME TypeOK, RiskHasReason, [Next]_vars,
                    NEW d \in Decision, status'[d] = "AT_RISK"
             PROVE  (OpenConflicts(d) # {} \/ DoubtfulUnder(validity, d) # {})'
  BY DEF RiskHasReason
<1> USE OfAssumption
<1>1. CASE Quiet
  BY <1>1 DEF Quiet, RiskHasReason, OpenConflicts, DoubtfulUnder
<1>2. ASSUME NEW e \in Decision, Propose(e) \/ Create(e) \/ Reopen(e)
      PROVE  (OpenConflicts(d) # {} \/ DoubtfulUnder(validity, d) # {})'
  BY <1>2 DEF Propose, Create, Reopen, TypeOK, RiskHasReason, OpenConflicts, DoubtfulUnder
<1>3. ASSUME NEW c \in ConflictId, Accept(c)
      PROVE  (OpenConflicts(d) # {} \/ DoubtfulUnder(validity, d) # {})'
  <2>1. AssumptionOf(c) \in Assumption
    BY DEF AssumptionOf, ConflictId
  <2>2. CASE DecisionOf(c) = d
    BY <1>3, <2>1, <2>2 DEF Accept, TypeOK, DoubtfulUnder, DecisionOf, AssumptionOf, Compromised
  <2>3. CASE DecisionOf(c) # d
    <3>1. OpenConflicts(d)' = OpenConflicts(d)
      BY <1>3, <2>3 DEF Accept, TypeOK, OpenConflicts
    <3>2. DoubtfulUnder(validity, d) \subseteq DoubtfulUnder(validity, d)'
      BY <1>3, <2>1 DEF Accept, TypeOK, DoubtfulUnder, Compromised
    <3>3. QED
      BY <1>3, <3>1, <3>2 DEF Accept, RiskHasReason
  <2>4. QED
    BY <2>2, <2>3
<1>4. ASSUME NEW c \in ConflictId, Dismiss(c)
      PROVE  (OpenConflicts(d) # {} \/ DoubtfulUnder(validity, d) # {})'
  <2>1. OpenConflicts(d)' = OpenConflicts(d) \ {c}
    BY <1>4 DEF Dismiss, TypeOK, OpenConflicts
  <2>2. DoubtfulUnder(validity, d)' = DoubtfulUnder(ValidityAfterDismissal(c), d)
    BY <1>4 DEF Dismiss, DoubtfulUnder
  <2>3. status[d] = "AT_RISK"
    BY <1>4 DEF Dismiss, TypeOK
  <2>4. CASE DecisionOf(c) = d
    BY <1>4, <2>1, <2>2, <2>3, <2>4 DEF Dismiss, StillCompromised, TypeOK
  <2>5. CASE DecisionOf(c) # d
    <3>1. OpenConflicts(d)' = OpenConflicts(d)
      BY <2>1, <2>5 DEF OpenConflicts
    <3>2. DoubtfulUnder(validity, d)' = DoubtfulUnder(validity, d)
      BY <2>2, <2>5 DEF DoubtfulUnder, ValidityAfterDismissal, DecisionOf, AssumptionOf, TypeOK
    <3>3. QED
      BY <2>3, <3>1, <3>2 DEF RiskHasReason
  <2>6. QED
    BY <2>4, <2>5
<1>5. CASE RequestEvidence
  BY <1>5 DEF RequestEvidence, RiskHasReason, OpenConflicts, DoubtfulUnder
<1>6. ASSUME NEW p \in Person, Commit(p) \/ Reject(p)
      PROVE  (OpenConflicts(d) # {} \/ DoubtfulUnder(validity, d) # {})'
  BY <1>6 DEF Commit, Reject, TypeOK, RiskHasReason, OpenConflicts, DoubtfulUnder
<1>7. ASSUME NEW p \in Person, Supersede(p)
      PROVE  (OpenConflicts(d) # {} \/ DoubtfulUnder(validity, d) # {})'
  <2>1. d # session[p].decision /\ status[d] = "AT_RISK"
    BY <1>7 DEF Supersede, TypeOK
  <2>2. OpenConflicts(d)' = OpenConflicts(d)
    BY <1>7, <2>1 DEF Supersede, SupersededConflict, OpenConflicts, TypeOK
  <2>3. DoubtfulUnder(validity, d)' = DoubtfulUnder(validity, d)
    BY <1>7, <2>1 DEF Supersede, SupersededValidity, DoubtfulUnder, TypeOK
  <2>4. QED
    BY <2>1, <2>2, <2>3 DEF RiskHasReason
<1>8. ASSUME NEW r \in Run, NEW k \in Candidate, NEW j \in Judgement, RaiseConflict(r, k, j)
      PROVE  (OpenConflicts(d) # {} \/ DoubtfulUnder(validity, d) # {})'
  <2> DEFINE c == <<k.assumption, work[r].evidence>>
  <2>1. c \in ConflictId /\ k.assumption \in Assumption
    BY <1>8, RaisedConflict
  <2>2. conflict' = [conflict EXCEPT ![c] = "OPEN"]
    BY <1>8 DEF RaiseConflict
  <2>3. CASE DecisionOf(c) = d
    BY <2>1, <2>2, <2>3 DEF OpenConflicts, TypeOK
  <2>4. CASE DecisionOf(c) # d
    <3>1. status[d] = "AT_RISK"
      BY <1>8, <2>4 DEF RaiseConflict, TypeOK
    <3>2. OpenConflicts(d)' = OpenConflicts(d)
      BY <2>1, <2>2, <2>4 DEF OpenConflicts, TypeOK
    <3>3. DoubtfulUnder(validity, d)' = DoubtfulUnder(validity, d)
      BY <1>8, <2>1, <2>4 DEF RaiseConflict, ValidityAfter, DoubtfulUnder, DecisionOf, TypeOK
    <3>4. QED
      BY <3>1, <3>2, <3>3 DEF RiskHasReason
  <2>5. QED
    BY <2>3, <2>4
<1>9. ASSUME NEW a \in Assumption, NEW n \in Sweep, Expire(a, n)
      PROVE  (OpenConflicts(d) # {} \/ DoubtfulUnder(validity, d) # {})'
  <2>1. CASE Of[a] = d
    BY <1>9, <2>1 DEF Expire, DoubtfulUnder, Compromised, TypeOK
  <2>2. CASE Of[a] # d
    <3>1. OpenConflicts(d)' = OpenConflicts(d)
      BY <1>9, <2>2 DEF Expire, OpenConflicts, DecisionOf, ConflictId, TypeOK
    <3>2. DoubtfulUnder(validity, d)' = DoubtfulUnder(validity, d)
      BY <1>9, <2>2 DEF Expire, DoubtfulUnder, TypeOK
    <3>3. QED
      BY <1>9, <2>2, <3>1, <3>2 DEF Expire, RiskHasReason, TypeOK
  <2>3. QED
    BY <2>1, <2>2
<1>10. QED
  BY <1>1, <1>2, <1>3, <1>4, <1>5, <1>6, <1>7, <1>8, <1>9, LoudSteps

\* Every decision at risk can say why, in every workspace and interleaving.
THEOREM RiskExplained == Spec => []RiskHasReason
<1>1. Init => RiskHasReason
  BY DEF Init, RiskHasReason
<1>2. QED
  BY <1>1, RiskStep, TypeCorrect, PTL DEF Spec
------------------------------------------------------------------------------
\* What a person confirmed stays confirmed: only a dismissal restores an
\* assumption, and it looks for confirmed conflicts first.
LEMMA ConfirmedStep == TypeOK /\ ConfirmedNeverRestored /\ [Next]_vars => ConfirmedNeverRestored'
<1> SUFFICES ASSUME TypeOK, ConfirmedNeverRestored, [Next]_vars,
                    NEW a \in Assumption, AlreadyAccepted(a)'
             PROVE  validity'[a] \notin Unquestioned
  BY DEF ConfirmedNeverRestored
<1> USE DEF Unquestioned
<1>1. CASE Quiet
  BY <1>1 DEF Quiet, ConfirmedNeverRestored, AlreadyAccepted
<1>2. ASSUME NEW d \in Decision, Propose(d) \/ Create(d) \/ Reopen(d)
      PROVE  validity'[a] \notin Unquestioned
  BY <1>2 DEF Propose, Create, Reopen, ConfirmedNeverRestored, AlreadyAccepted
<1>3. ASSUME NEW c \in ConflictId, Accept(c)
      PROVE  validity'[a] \notin Unquestioned
  <2>1. CASE AssumptionOf(c) = a
    BY <1>3, <2>1 DEF Accept, TypeOK
  <2>2. CASE AssumptionOf(c) # a
    <3>1. AlreadyAccepted(a)
      BY <1>3, <2>2 DEF Accept, AlreadyAccepted, TypeOK
    <3>2. QED
      BY <1>3, <2>2, <3>1 DEF Accept, ConfirmedNeverRestored, TypeOK
  <2>3. QED
    BY <2>1, <2>2
<1>4. ASSUME NEW c \in ConflictId, Dismiss(c)
      PROVE  validity'[a] \notin Unquestioned
  <2>1. AlreadyAccepted(a)
    BY <1>4 DEF Dismiss, AlreadyAccepted, TypeOK
  <2>2. validity'[a] = validity[a]
    BY <1>4, <2>1 DEF Dismiss, ValidityAfterDismissal, MayRestore, TypeOK
  <2>3. QED
    BY <2>1, <2>2 DEF ConfirmedNeverRestored
<1>5. CASE RequestEvidence
  BY <1>5 DEF RequestEvidence, ConfirmedNeverRestored, AlreadyAccepted
<1>6. ASSUME NEW p \in Person, Commit(p) \/ Reject(p) \/ Supersede(p)
      PROVE  validity'[a] \notin Unquestioned
  <2>1. CASE Commit(p) \/ Reject(p)
    BY <2>1 DEF Commit, Reject, ConfirmedNeverRestored, AlreadyAccepted
  <2>2. CASE Supersede(p)
    <3>1. AlreadyAccepted(a)
      BY <2>2 DEF Supersede, SupersededConflict, AlreadyAccepted, TypeOK
    <3>2. QED
      BY <2>2, <3>1 DEF Supersede, SupersededValidity, ConfirmedNeverRestored
  <2>3. QED
    BY <1>6, <2>1, <2>2
<1>7. ASSUME NEW r \in Run, NEW k \in Candidate, NEW j \in Judgement, RaiseConflict(r, k, j)
      PROVE  validity'[a] \notin Unquestioned
  <2>1. AlreadyAccepted(a)
    BY <1>7 DEF RaiseConflict, AlreadyAccepted, TypeOK
  <2>2. OutcomeFor(work[r].event, k, j).nextValidity \in NextValidity
    BY OutcomeRange DEF OutcomeFor, NoOutcome, NextValidity
  <2>3. QED
    BY <1>7, <2>1, <2>2 DEF RaiseConflict, ValidityAfter, ConfirmedNeverRestored, TypeOK, NextValidity
<1>8. ASSUME NEW b \in Assumption, NEW n \in Sweep, Expire(b, n)
      PROVE  validity'[a] \notin Unquestioned
  <2>1. AlreadyAccepted(a)
    BY <1>8 DEF Expire, AlreadyAccepted, TypeOK
  <2>2. QED
    BY <1>8, <2>1 DEF Expire, ConfirmedNeverRestored, TypeOK
<1>9. QED
  BY <1>1, <1>2, <1>3, <1>4, <1>5, <1>6, <1>7, <1>8, LoudSteps

\* An assumption a person has confirmed invalid is never restored.
THEOREM ConfirmedStands == Spec => []ConfirmedNeverRestored
<1>1. Init => ConfirmedNeverRestored
  BY DEF Init, ConfirmedNeverRestored, AlreadyAccepted
<1>2. QED
  BY <1>1, ConfirmedStep, TypeCorrect, PTL DEF Spec

------------------------------------------------------------------------------
\* A review and its conflict are written in the same transactions, so each
\* step keeps them in agreement.
LEMMA ReviewStep == TypeOK /\ ReviewAgreesWithConflict /\ [Next]_vars => ReviewAgreesWithConflict'
<1> DEFINE Agrees(c) ==
      /\ review[c] = "PENDING"        => conflict[c] = "OPEN"
      /\ review[c] = "NEEDS_EVIDENCE" => conflict[c] # "ABSENT"
      /\ review[c] = "APPROVED"       => conflict[c] = "ACCEPTED"
      /\ review[c] = "REJECTED"       => conflict[c] = "DISMISSED"
      /\ review[c] = "SUPERSEDED_OLD" => conflict[c] \notin {"OPEN", "ABSENT"}
<1> SUFFICES ASSUME TypeOK, ReviewAgreesWithConflict, [Next]_vars, NEW c \in ConflictId
             PROVE  Agrees(c)'
  BY DEF ReviewAgreesWithConflict
<1>0. Agrees(c)
  BY DEF ReviewAgreesWithConflict
<1>1. CASE Quiet
  BY <1>0, <1>1 DEF Quiet
<1>2. ASSUME NEW d \in Decision, Propose(d) \/ Create(d) \/ Reopen(d) PROVE Agrees(c)'
  BY <1>0, <1>2 DEF Propose, Create, Reopen
<1>3. ASSUME NEW o \in ConflictId, Accept(o) \/ Dismiss(o) PROVE Agrees(c)'
  BY <1>0, <1>3 DEF Accept, Dismiss, CloseReview, TypeOK
<1>4. CASE RequestEvidence
  <2>1. conflict' = conflict
    BY <1>4 DEF RequestEvidence
  <2>2. \/ review'[c] = review[c]
        \/ review[c] \in Undecided /\ review'[c] = "NEEDS_EVIDENCE"
    BY <1>4 DEF RequestEvidence, TypeOK
  <2>3. QED
    BY <1>0, <2>1, <2>2 DEF Undecided
<1>5. ASSUME NEW p \in Person, Commit(p) \/ Reject(p) PROVE Agrees(c)'
  BY <1>0, <1>5 DEF Commit, Reject
<1>6. ASSUME NEW p \in Person, Supersede(p) PROVE Agrees(c)'
  <2>1. CASE DecisionOf(c) = session[p].decision
    <3>1. review'[c] = SupersededRequest(review[c])
      BY <1>6, <2>1 DEF Supersede
    <3>2. conflict'[c] = IF conflict[c] = "OPEN" THEN "SUPERSEDED" ELSE conflict[c]
      BY <1>6, <2>1 DEF Supersede, SupersededConflict, OpenConflicts
    <3>3. QED
      BY <1>0, <1>6, <3>1, <3>2 DEF SupersededRequest, Undecided
  <2>2. CASE DecisionOf(c) # session[p].decision
    BY <1>0, <1>6, <2>2 DEF Supersede, SupersededConflict, OpenConflicts
  <2>3. QED
    BY <2>1, <2>2
<1>7. ASSUME NEW r \in Run, NEW k \in Candidate, NEW j \in Judgement, RaiseConflict(r, k, j)
      PROVE  Agrees(c)'
  BY <1>0, <1>7 DEF RaiseConflict, TypeOK
<1>8. ASSUME NEW a \in Assumption, NEW n \in Sweep, Expire(a, n) PROVE Agrees(c)'
  BY <1>0, <1>8 DEF Expire, TypeOK
<1>9. QED
  BY <1>1, <1>2, <1>3, <1>4, <1>5, <1>6, <1>7, <1>8, LoudSteps

\* The approval queue and the conflicts always tell one story.
THEOREM ReviewsAgree == Spec => []ReviewAgreesWithConflict
<1>1. Init => ReviewAgreesWithConflict
  BY DEF Init, ReviewAgreesWithConflict
<1>2. QED
  BY <1>1, ReviewStep, TypeCorrect, PTL DEF Spec
------------------------------------------------------------------------------
\* No transaction resolves a conflict twice or reopens a closed decision, and
\* none does so out of what it read before: each checks again as it writes.
LEMMA FinalStep ==
  ASSUME TypeOK, [Next]_vars
  PROVE  /\ \A c \in ConflictId : conflict[c] \in Resolution => conflict'[c] = conflict[c]
         /\ \A d \in Decision : status[d] \in {"SUPERSEDED", "ARCHIVED"} => status'[d] = status[d]
<1> DEFINE Final == /\ \A c \in ConflictId : conflict[c] \in Resolution => conflict'[c] = conflict[c]
                    /\ \A d \in Decision :
                         status[d] \in {"SUPERSEDED", "ARCHIVED"} => status'[d] = status[d]
<1> USE DEF Resolution
<1>1. CASE Quiet \/ RequestEvidence
  BY <1>1 DEF Quiet, RequestEvidence
<1>2. ASSUME NEW d \in Decision, Propose(d) \/ Create(d) \/ Reopen(d) PROVE Final
  BY <1>2 DEF Propose, Create, Reopen, AssertTransition, CanTransition, AllowedTransitions, TypeOK
<1>3. ASSUME NEW c \in ConflictId, Accept(c) \/ Dismiss(c) PROVE Final
  BY <1>3 DEF Accept, Dismiss, TypeOK
<1>4. ASSUME NEW p \in Person, Commit(p) \/ Reject(p) PROVE Final
  BY <1>4 DEF Commit, Reject, AssertTransition, CanTransition, AllowedTransitions, TypeOK
<1>5. ASSUME NEW p \in Person, Supersede(p) PROVE Final
  BY <1>5 DEF Supersede, SupersededConflict, OpenConflicts, AssertTransition, CanTransition,
     AllowedTransitions, TypeOK
<1>6. ASSUME NEW r \in Run, NEW k \in Candidate, NEW j \in Judgement, RaiseConflict(r, k, j)
      PROVE  Final
  BY <1>6 DEF RaiseConflict, Flagged, TypeOK
<1>7. ASSUME NEW a \in Assumption, NEW n \in Sweep, Expire(a, n) PROVE Final
  BY <1>7 DEF Expire, Flagged, TypeOK
<1>8. QED
  BY <1>1, <1>2, <1>3, <1>4, <1>5, <1>6, <1>7, LoudSteps

\* History is final.
THEOREM HistoryFinal == Spec => HistoryIsFinal
<1>1. TypeOK /\ [Next]_vars
        => [ /\ \A c \in ConflictId : conflict[c] \in Resolution => conflict'[c] = conflict[c]
             /\ \A d \in Decision : status[d] \in {"SUPERSEDED", "ARCHIVED"} => status'[d] = status[d]
           ]_vars
  BY FinalStep
<1>2. QED
  BY <1>1, TypeCorrect, PTL DEF Spec, HistoryIsFinal
------------------------------------------------------------------------------
\* The provisos of ActiveMeansTrusted: at most one commit, rejection or
\* supersession of a person is under way at a time, and no policy keeps a
\* decision from being flagged.
OneCommitter == \A p, q \in Person : p = q
AlwaysFlags  == \A rule \in Rules : "do_not_flag_decision" \notin rule.actions

\* A recorded conflict flags the decision, and questions the assumption or
\* leaves it as it is.
LEMMA RecordedOutcome ==
  ASSUME AlwaysFlags, NEW e, NEW k, NEW j, OutcomeFor(e, k, j).recordConflict
  PROVE  /\ OutcomeFor(e, k, j).flagDecision
         /\ OutcomeFor(e, k, j).nextValidity \in NextValidity
<1>1. ASSUME NEW facts PROVE "do_not_flag_decision" \notin EvaluatePolicies(Rules, facts)
  BY DEF AlwaysFlags, EvaluatePolicies
<1>2. ASSUME NEW in, NEW proposed, NEW actions, "do_not_flag_decision" \notin actions,
             Outcome(in, proposed, actions).recordConflict
      PROVE  Outcome(in, proposed, actions).flagDecision
  BY <1>2 DEF Outcome, NoOutcome
<1>3. OutcomeFor(e, k, j).flagDecision
  BY <1>1, <1>2 DEF OutcomeFor, NoOutcome, ResolveEvaluationOutcome
<1>4. QED
  BY <1>3, OutcomeRange DEF OutcomeFor, NoOutcome, NextValidity

\* Nothing is held against a decision before it is taken: what a run may
\* question was live when it was read, and no decision becomes a draft again.
Untaken == {"ABSENT", "DRAFT"}

Untroubled(d) == OpenConflicts(d) = {} /\ DoubtfulUnder(validity, d) = {}

NothingYet == \A d \in Decision : status[d] \in Untaken => Untroubled(d)

CandidatesTaken ==
  \A r \in Run : work[r].stage \in {"ranked", "judging"} =>
    \A k \in work[r].candidates : status[Of[k.assumption]] \notin Untaken

\* Who has read a draft to commit it finds a draft when committing.
CommitsDraft ==
  \A p \in Person : session[p].op = "commit" => status[session[p].decision] = "DRAFT"

\* What is asked about, or being worked on by a person, has been recorded.
Known ==
  /\ \A d \in Decision : commitRequest[d] # "ABSENT" => status[d] # "ABSENT"
  /\ \A p \in Person : session[p] # NoSession => status[session[p].decision] # "ABSENT"

Taken == NothingYet /\ CandidatesTaken /\ CommitsDraft /\ Known

\* A run asks nobody to commit and changes no person's request.
LEMMA RunsOnly == ASSUME Evaluate PROVE UNCHANGED <<commitRequest, session>>
<1>1. ASSUME NEW r \in Run, NEW k \in Candidate, NEW j \in Judgement,
             RecordEvaluation(r, k, j) \/ RaiseConflict(r, k, j)
      PROVE  UNCHANGED <<commitRequest, session>>
  BY <1>1 DEF RecordEvaluation, RaiseConflict, memory
<1>2. ASSUME NEW r \in Run, (\E e \in Event : Claim(r, e)) \/ FindCandidates(r) \/ SkipEvaluated(r)
                              \/ Finish(r) \/ Fail(r) \/ Crash(r)
      PROVE  UNCHANGED <<commitRequest, session>>
  BY <1>2 DEF Claim, FindCandidates, SkipEvaluated, Finish, Fail, Crash, memory
<1>3. QED
  BY <1>1, <1>2 DEF Evaluate

\* A person's step and a sweep leave events and evaluations alone.
LEMMA PeopleOnly ==
  ASSUME Decide \/ Converse \/ (\E a \in Assumption, n \in Sweep : Expire(a, n))
  PROVE  UNCHANGED <<inbox, evaluated, work>>
BY DEF Decide, Propose, Create, RequestCommit, Reopen, Accept, Dismiss, RequestEvidence,
   ResolveAlias, Converse, ReadToCommit, Commit, ReadToReject, Reject, CloseRejected,
   ReadToSupersede, Supersede, Abandon, Expire

\* No decision that was taken becomes untaken, and only a commit or a rejection
\* takes a draft away.
LEMMA TakenForGood ==
  ASSUME TypeOK, [Next]_vars, NEW d \in Decision
  PROVE  /\ status'[d] \in Untaken => status[d] \in Untaken
         /\ status[d] = "DRAFT" /\ status'[d] # "DRAFT"
              => \E p \in Person : Commit(p) \/ Reject(p)
<1> DEFINE Goal == /\ status'[d] \in Untaken => status[d] \in Untaken
                   /\ status[d] = "DRAFT" /\ status'[d] # "DRAFT"
                        => \E p \in Person : Commit(p) \/ Reject(p)
<1> USE DEF Untaken
<1>1. CASE Quiet \/ RequestEvidence
  BY <1>1 DEF Quiet, RequestEvidence
<1>2. ASSUME NEW e \in Decision, Propose(e) \/ Create(e) \/ Reopen(e) PROVE Goal
  BY <1>2 DEF Propose, Create, Reopen, AssertTransition, CanTransition, AllowedTransitions, TypeOK
<1>3. ASSUME NEW c \in ConflictId, Accept(c) \/ Dismiss(c) PROVE Goal
  BY <1>3 DEF Accept, Dismiss, TypeOK
<1>4. ASSUME NEW p \in Person, Commit(p) \/ Reject(p) PROVE Goal
  BY <1>4 DEF Commit, Reject, TypeOK
<1>5. ASSUME NEW p \in Person, Supersede(p) PROVE Goal
  BY <1>5 DEF Supersede, AssertTransition, CanTransition, AllowedTransitions, TypeOK
<1>6. ASSUME NEW r \in Run, NEW k \in Candidate, NEW j \in Judgement, RaiseConflict(r, k, j)
      PROVE  Goal
  BY <1>6 DEF RaiseConflict, Flagged, TypeOK
<1>7. ASSUME NEW a \in Assumption, NEW n \in Sweep, Expire(a, n) PROVE Goal
  BY <1>7 DEF Expire, Flagged, TypeOK
<1>8. QED
  BY <1>1, <1>2, <1>3, <1>4, <1>5, <1>6, <1>7, LoudSteps

\* What a run holds: the candidates it has held before, or ones just read.
LEMMA CandidatesStep == TypeOK /\ CandidatesTaken /\ [Next]_vars => CandidatesTaken'
<1> SUFFICES ASSUME TypeOK, CandidatesTaken, [Next]_vars, NEW r \in Run,
                    work'[r].stage \in {"ranked", "judging"},
                    NEW k \in work'[r].candidates
             PROVE  status'[Of[k.assumption]] \notin Untaken
  BY DEF CandidatesTaken
<1> DEFINE Had == work[r].stage \in {"ranked", "judging"} /\ k \in work[r].candidates
<1> USE OfAssumption
<1>1. ASSUME Had PROVE status'[Of[k.assumption]] \notin Untaken
  <2>1. k \in Candidate
    BY <1>1 DEF TypeOK, Work, IdleRun
  <2>2. Of[k.assumption] \in Decision /\ status[Of[k.assumption]] \notin Untaken
    BY <1>1, <2>1 DEF CandidatesTaken, Candidate
  <2>3. QED
    BY <2>2, TakenForGood
<1>2. CASE UNCHANGED work
  BY <1>1, <1>2
<1>3. ASSUME NEW q \in Run, NEW e \in Event, Claim(q, e) PROVE Had
  BY <1>3 DEF Claim, TypeOK
<1>4. ASSUME NEW q \in Run, FindCandidates(q)
      PROVE  Had \/ status'[Of[k.assumption]] \notin Untaken
  BY <1>4 DEF FindCandidates, TypeOK, Retrievable, Live, Untaken, memory
<1>5. ASSUME NEW q \in Run, SkipEvaluated(q) PROVE Had
  BY <1>5 DEF SkipEvaluated, TypeOK, Work, IdleRun, NotYetEvaluated
<1>6. ASSUME NEW q \in Run, NEW l \in Candidate, NEW j \in Judgement,
             RecordEvaluation(q, l, j) \/ RaiseConflict(q, l, j)
      PROVE  Had
  BY <1>6 DEF RecordEvaluation, RaiseConflict, TypeOK, Work, IdleRun
<1>7. ASSUME NEW q \in Run, Finish(q) \/ Fail(q) \/ Crash(q) PROVE Had
  BY <1>7 DEF Finish, Fail, Crash, TypeOK, IdleRun
<1>8. QED
  BY <1>1, <1>2, <1>3, <1>4, <1>5, <1>6, <1>7, PeopleOnly DEF Next, Evaluate, vars

\* With one person at a time, nobody else takes the draft away.
LEMMA CommitsStep == OneCommitter /\ TypeOK /\ CommitsDraft /\ [Next]_vars => CommitsDraft'
<1> SUFFICES ASSUME OneCommitter, TypeOK, CommitsDraft, [Next]_vars, NEW p \in Person,
                    session'[p].op = "commit"
             PROVE  status'[session'[p].decision] = "DRAFT"
  BY DEF CommitsDraft
<1>1. ASSUME UNCHANGED session, \A q \in Person : ~ Commit(q) /\ ~ Reject(q)
      PROVE  status'[session'[p].decision] = "DRAFT"
  <2>1. status[session[p].decision] = "DRAFT" /\ session[p].decision \in Decision
    BY <1>1 DEF CommitsDraft, TypeOK, Session, NoSession
  <2>2. QED
    BY <1>1, <2>1, TakenForGood
<1>2. ASSUME NEW q \in Person, Commit(q) \/ Reject(q) \/ CloseRejected(q) \/ Supersede(q) \/ Abandon(q)
      PROVE  FALSE
  BY <1>2 DEF OneCommitter, Commit, Reject, CloseRejected, Supersede, Abandon, NoSession, TypeOK, Session
<1>3. ASSUME NEW q \in Person, NEW d \in Decision, NEW queued \in BOOLEAN, ReadToCommit(q, d, queued)
      PROVE  status'[session'[p].decision] = "DRAFT"
  BY <1>3 DEF OneCommitter, ReadToCommit, TypeOK, memory
<1>4. ASSUME NEW q \in Person, NEW d \in Decision, NEW as \in {"REJECTED", "LINKED"}, ReadToReject(q, d, as)
      PROVE  FALSE
  BY <1>4 DEF OneCommitter, ReadToReject, TypeOK
<1>5. ASSUME NEW q \in Person, NEW old \in Decision, NEW new \in Decision, ReadToSupersede(q, old, new)
      PROVE  FALSE
  BY <1>5 DEF OneCommitter, ReadToSupersede, TypeOK
<1>6. CASE UNCHANGED session
  <2>1. ASSUME NEW q \in Person PROVE ~ Commit(q) /\ ~ Reject(q)
    BY <1>6, <2>1 DEF Commit, Reject, NoSession, TypeOK, Session
  <2>2. QED
    BY <1>1, <1>6, <2>1
<1>7. CASE Decide
  BY <1>6, <1>7 DEF Decide, Propose, Create, RequestCommit, Reopen, Accept, Dismiss, RequestEvidence,
     ResolveAlias
<1>8. CASE Evaluate
  BY <1>6, <1>8, RunsOnly
<1>9. ASSUME NEW a \in Assumption, NEW n \in Sweep, Expire(a, n) PROVE UNCHANGED session
  BY <1>9 DEF Expire
<1>10. QED
  BY <1>2, <1>3, <1>4, <1>5, <1>6, <1>7, <1>8, <1>9 DEF Next, Converse, vars

\* Nothing recorded is deleted, and nothing else is ever asked about.
LEMMA KnownStep == TypeOK /\ Known /\ [Next]_vars => Known'
<1> SUFFICES ASSUME TypeOK, Known, [Next]_vars PROVE Known'
  OBVIOUS
<1>1. \A d \in Decision : status[d] # "ABSENT" => status'[d] # "ABSENT"
  <2> SUFFICES ASSUME NEW d \in Decision, status[d] # "ABSENT" PROVE status'[d] # "ABSENT"
    OBVIOUS
  <2>1. CASE status[d] = "DRAFT"
    <3>1. CASE \E p \in Person : Commit(p) \/ Reject(p)
      BY <2>1, <3>1 DEF Commit, Reject, TypeOK
    <3>2. CASE status'[d] = "DRAFT"
      BY <3>2
    <3>3. QED
      BY <2>1, <3>1, <3>2, TakenForGood
  <2>2. QED
    BY <2>1, TakenForGood DEF Untaken
<1>2. \A d \in Decision : commitRequest'[d] # "ABSENT" => status'[d] # "ABSENT"
  <2> DEFINE Asked == \A d \in Decision : commitRequest'[d] # "ABSENT" => status'[d] # "ABSENT"
  <2>1. CASE UNCHANGED commitRequest
    BY <1>1, <2>1 DEF Known
  <2>2. ASSUME NEW d \in Decision, Propose(d) \/ RequestCommit(d) PROVE Asked
    BY <1>1, <2>2 DEF Propose, RequestCommit, Known, TypeOK
  <2>3. CASE RequestEvidence
    BY <1>1, <2>3 DEF RequestEvidence, Known, Undecided, TypeOK
  <2>4. ASSUME NEW p \in Person, Commit(p) \/ CloseRejected(p) PROVE Asked
    BY <1>1, <2>4 DEF Commit, CloseRejected, ApprovedByCommit, Undecided, Known, NoSession, TypeOK
  <2>5. ASSUME NEW p \in Person, Supersede(p) PROVE Asked
    BY <1>1, <2>5 DEF Supersede, SupersededRequest, Undecided, Known, TypeOK
  <2>6. CASE Evaluate
    BY <2>1, <2>6, RunsOnly
  <2>7. ASSUME NEW a \in Assumption, NEW n \in Sweep, Expire(a, n) PROVE Asked
    BY <2>1, <2>7 DEF Expire
  <2>8. CASE Decide
    BY <2>1, <2>2, <2>3, <2>8 DEF Decide, Create, Reopen, Accept, Dismiss, ResolveAlias
  <2>9. CASE Converse
    BY <2>1, <2>4, <2>5, <2>9 DEF Converse, ReadToCommit, ReadToReject, Reject, ReadToSupersede,
       Abandon, memory
  <2>10. QED
    BY <2>1, <2>6, <2>7, <2>8, <2>9 DEF Next, vars, memory
<1>3. \A p \in Person : session'[p] # NoSession => status'[session'[p].decision] # "ABSENT"
  <2> DEFINE Held(p) == session'[p] # NoSession => status'[session'[p].decision] # "ABSENT"
  <2>1. ASSUME NEW p \in Person, session'[p] = session[p] PROVE Held(p)
    BY <1>1, <2>1 DEF Known, TypeOK, Session, NoSession
  <2>2. ASSUME NEW q \in Person,
               \/ \E d \in Decision, queued \in BOOLEAN : ReadToCommit(q, d, queued)
               \/ \E d \in Decision, as \in {"REJECTED", "LINKED"} : ReadToReject(q, d, as)
               \/ \E old, new \in Decision : ReadToSupersede(q, old, new)
        PROVE  \A p \in Person : Held(p)
    BY <2>1, <2>2 DEF ReadToCommit, ReadToReject, ReadToSupersede, Known, Undecided, memory, TypeOK
  <2>3. ASSUME NEW q \in Person, Commit(q) \/ CloseRejected(q) \/ Supersede(q) \/ Abandon(q)
        PROVE  \A p \in Person : Held(p)
    BY <2>1, <2>3 DEF Commit, CloseRejected, Supersede, Abandon, TypeOK
  <2>4. ASSUME NEW q \in Person, Reject(q) PROVE \A p \in Person : Held(p)
    <3>1. session'[q].decision = session[q].decision /\ session[q].decision \in Decision
      BY <2>4 DEF Reject, TypeOK, Session, NoSession
    <3>2. Held(q)
      BY <2>4, <3>1 DEF Reject, TypeOK
    <3>3. QED
      BY <2>1, <2>4, <3>2 DEF Reject, TypeOK
  <2>5. CASE Decide \/ (\E a \in Assumption, n \in Sweep : Expire(a, n))
    <3>1. UNCHANGED session
      BY <2>5 DEF Decide, Propose, Create, RequestCommit, Reopen, Accept, Dismiss, RequestEvidence,
         ResolveAlias, Expire
    <3>2. QED
      BY <2>1, <3>1
  <2>6. CASE Evaluate \/ UNCHANGED vars
    BY <2>1, <2>6, RunsOnly DEF vars
  <2>7. QED
    BY <2>2, <2>3, <2>4, <2>5, <2>6 DEF Next, Converse
<1>4. QED
  BY <1>2, <1>3 DEF Known

\* A transaction changes one decision and what is held against it.
Elsewhere(e) ==
  \A d \in Decision \ {e} :
    /\ status'[d] = status[d]
    /\ OpenConflicts(d)' = OpenConflicts(d)
    /\ DoubtfulUnder(validity, d)' = DoubtfulUnder(validity, d)

\* Each of the steps that changes decisions changes one.
LEMMA OneDecisionAtATime ==
  ASSUME TypeOK
  PROVE  /\ \A d \in Decision : Propose(d) \/ Create(d) \/ Reopen(d) => Elsewhere(d)
         /\ \A c \in ConflictId : Accept(c) \/ Dismiss(c) => Elsewhere(DecisionOf(c))
         /\ \A p \in Person : Commit(p) \/ Reject(p) \/ Supersede(p) => Elsewhere(session[p].decision)
         /\ \A r \in Run, k \in Candidate, j \in Judgement :
              RaiseConflict(r, k, j) => Elsewhere(Of[k.assumption])
         /\ \A a \in Assumption, n \in Sweep : Expire(a, n) => Elsewhere(Of[a])
<1> USE OfAssumption
<1>1. ASSUME NEW d \in Decision, Propose(d) \/ Create(d) \/ Reopen(d) PROVE Elsewhere(d)
  BY <1>1 DEF Propose, Create, Reopen, Elsewhere, OpenConflicts, DoubtfulUnder, TypeOK
<1>2. ASSUME NEW c \in ConflictId, Accept(c) \/ Dismiss(c), NEW d \in Decision \ {DecisionOf(c)}
      PROVE  /\ status'[d] = status[d]
             /\ OpenConflicts(d)' = OpenConflicts(d)
             /\ DoubtfulUnder(validity, d)' = DoubtfulUnder(validity, d)
  <2>1. AssumptionOf(c) \in Assumption /\ Of[AssumptionOf(c)] = DecisionOf(c)
    BY DEF AssumptionOf, DecisionOf, ConflictId
  <2>2. status'[d] = status[d] /\ \A b \in Assumption : Of[b] = d => validity'[b] = validity[b]
    BY <1>2, <2>1 DEF Accept, Dismiss, ValidityAfterDismissal, TypeOK
  <2>3. OpenConflicts(d)' = OpenConflicts(d)
    BY <1>2 DEF Accept, Dismiss, OpenConflicts, TypeOK
  <2>4. QED
    BY <2>2, <2>3 DEF DoubtfulUnder
<1>3. ASSUME NEW p \in Person, Commit(p) \/ Reject(p) PROVE Elsewhere(session[p].decision)
  BY <1>3 DEF Commit, Reject, Elsewhere, OpenConflicts, DoubtfulUnder, TypeOK
<1>4. ASSUME NEW p \in Person, Supersede(p) PROVE Elsewhere(session[p].decision)
  BY <1>4 DEF Supersede, SupersededConflict, SupersededValidity, Elsewhere, OpenConflicts,
     DoubtfulUnder, TypeOK
<1>5. ASSUME NEW r \in Run, NEW k \in Candidate, NEW j \in Judgement, RaiseConflict(r, k, j),
             NEW d \in Decision \ {Of[k.assumption]}
      PROVE  /\ status'[d] = status[d]
             /\ OpenConflicts(d)' = OpenConflicts(d)
             /\ DoubtfulUnder(validity, d)' = DoubtfulUnder(validity, d)
  <2> DEFINE c == <<k.assumption, work[r].evidence>>
  <2>1. c \in ConflictId /\ k.assumption \in Assumption /\ DecisionOf(c) = Of[k.assumption]
    BY <1>5, RaisedConflict DEF DecisionOf
  <2>2. conflict' = [conflict EXCEPT ![c] = "OPEN"]
    BY <1>5 DEF RaiseConflict
  <2>3. OpenConflicts(d)' = OpenConflicts(d)
    BY <2>1, <2>2 DEF OpenConflicts, TypeOK
  <2>4. status'[d] = status[d] /\ \A b \in Assumption : Of[b] = d => validity'[b] = validity[b]
    BY <1>5, <2>1 DEF RaiseConflict, ValidityAfter, TypeOK
  <2>5. QED
    BY <2>3, <2>4 DEF DoubtfulUnder
<1>6. ASSUME NEW a \in Assumption, NEW n \in Sweep, Expire(a, n) PROVE Elsewhere(Of[a])
  BY <1>6 DEF Expire, Elsewhere, OpenConflicts, DoubtfulUnder, DecisionOf, ConflictId, TypeOK
<1>7. QED
  BY <1>1, <1>2, <1>3, <1>4, <1>5, <1>6 DEF Elsewhere

\* Neither an untaken decision nor one that reads ACTIVE has anything held
\* against it.
LEMMA TrustedStep ==
  ASSUME OneCommitter, AlwaysFlags, TypeOK, Taken, ActiveMeansTrusted, [Next]_vars
  PROVE  NothingYet' /\ ActiveMeansTrusted'
<1> SUFFICES ASSUME NEW d \in Decision, status'[d] \in Untaken \cup {"ACTIVE"} PROVE Untroubled(d)'
  BY DEF NothingYet, ActiveMeansTrusted, Untroubled
<1> USE OfAssumption
<1>1. status[d] \in Untaken \cup {"ACTIVE"} => Untroubled(d)
  BY DEF Taken, NothingYet, ActiveMeansTrusted, Untroubled
<1>2. ASSUME NEW e, Elsewhere(e), d # e PROVE Untroubled(d)'
  BY <1>1, <1>2 DEF Elsewhere, Untroubled
<1>3. CASE Quiet \/ RequestEvidence
  BY <1>1, <1>3 DEF Quiet, RequestEvidence, Untroubled, OpenConflicts, DoubtfulUnder
<1>4. ASSUME NEW e \in Decision, Propose(e) \/ Create(e) \/ Reopen(e) PROVE Untroubled(d)'
  <2>1. status[d] \in Untaken \cup {"ACTIVE"}
    BY <1>4 DEF Propose, Create, Reopen, Untaken, TypeOK
  <2>2. QED
    BY <1>1, <1>4, <2>1 DEF Propose, Create, Reopen, Untroubled, OpenConflicts, DoubtfulUnder
<1>5. ASSUME NEW c \in ConflictId, Accept(c) \/ Dismiss(c) PROVE Untroubled(d)'
  <2>1. CASE DecisionOf(c) = d
    <3>1. c \in OpenConflicts(d)
      BY <1>5, <2>1 DEF Accept, Dismiss, OpenConflicts
    <3>2. Dismiss(c) /\ ~ StillCompromised(c)
      BY <1>1, <1>5, <2>1, <3>1 DEF Accept, Dismiss, Untroubled, TypeOK
    <3>3. OpenConflicts(d)' = OpenConflicts(d) \ {c}
      BY <3>2 DEF Dismiss, TypeOK, OpenConflicts
    <3>4. DoubtfulUnder(validity, d)' = DoubtfulUnder(ValidityAfterDismissal(c), d)
      BY <3>2 DEF Dismiss, DoubtfulUnder
    <3>5. QED
      BY <2>1, <3>2, <3>3, <3>4 DEF StillCompromised, Untroubled
  <2>2. QED
    BY <1>2, <1>5, <2>1, OneDecisionAtATime
<1>6. ASSUME NEW p \in Person, Commit(p) \/ Reject(p) PROVE Untroubled(d)'
  <2>1. status[d] \in Untaken \cup {"ACTIVE"}
    BY <1>6 DEF Commit, Reject, Taken, CommitsDraft, Untaken, TypeOK
  <2>2. QED
    BY <1>1, <1>6, <2>1 DEF Commit, Reject, Untroubled, OpenConflicts, DoubtfulUnder
<1>7. ASSUME NEW p \in Person, Supersede(p) PROVE Untroubled(d)'
  <2>1. d # session[p].decision
    BY <1>7 DEF Supersede, Untaken, TypeOK
  <2>2. QED
    BY <1>2, <1>7, <2>1, OneDecisionAtATime
<1>8. ASSUME NEW r \in Run, NEW k \in Candidate, NEW j \in Judgement, RaiseConflict(r, k, j)
      PROVE  Untroubled(d)'
  <2>1. status[Of[k.assumption]] \notin Untaken /\ Of[k.assumption] \in Decision
    BY <1>8 DEF RaiseConflict, Taken, CandidatesTaken, Candidate
  <2>2. OutcomeFor(work[r].event, k, j).flagDecision
    BY <1>8, RecordedOutcome DEF RaiseConflict
  <2>3. d # Of[k.assumption]
    BY <1>8, <2>1, <2>2 DEF RaiseConflict, Flagged, DecisionOf, Untaken, TypeOK
  <2>4. QED
    BY <1>2, <1>8, <2>3, OneDecisionAtATime
<1>9. ASSUME NEW a \in Assumption, NEW n \in Sweep, Expire(a, n) PROVE Untroubled(d)'
  <2>1. d # Of[a]
    BY <1>9 DEF Expire, Flagged, Live, Untaken, TypeOK
  <2>2. QED
    BY <1>2, <1>9, <2>1, OneDecisionAtATime
<1>10. QED
  BY <1>3, <1>4, <1>5, <1>6, <1>7, <1>8, <1>9, LoudSteps

\* The strengthening of ActiveMeansTrusted that every step keeps.
TrustInv == TypeOK /\ Taken /\ ActiveMeansTrusted

\* It holds throughout, under the provisos.
LEMMA TrustInvariant ==
  ASSUME OneCommitter, AlwaysFlags
  PROVE  Spec => []TrustInv
<1>1. Init => TrustInv
  BY DEF Init, TrustInv, TypeOK, Validity, Work, Session, IdleRun, NoSession, Taken, NothingYet,
     Untroubled, OpenConflicts, DoubtfulUnder, Compromised, CandidatesTaken, CommitsDraft,
     Known, ActiveMeansTrusted
<1>2. TrustInv /\ [Next]_vars => TrustInv'
  BY TypeStep, TrustedStep, CandidatesStep, CommitsStep, KnownStep DEF TrustInv, Taken
<1>3. QED
  BY <1>1, <1>2, PTL DEF Spec

\* With one person committing at a time and no do_not_flag_decision policy, a
\* decision that reads ACTIVE has no open conflict and no doubtful assumption,
\* however commits, dismissals, supersessions, sweeps and late runs interleave.
THEOREM ActiveTrusted ==
  ASSUME OneCommitter, AlwaysFlags
  PROVE  Spec => []ActiveMeansTrusted
<1>1. TrustInv => ActiveMeansTrusted
  BY DEF TrustInv
<1>2. QED
  BY <1>1, TrustInvariant, PTL
------------------------------------------------------------------------------
\* Decision memory implements DecisionTrust.  The two kinds of concern, open
\* conflicts and doubtful assumptions, must be told apart by their names.
ConcernsApart == ConflictId \cap Assumption = {}

Concerns(d) == OpenConflicts(d) \cup DoubtfulUnder(validity, d)

\* How a status reads.
LEMMA StandingOf ==
  ASSUME TypeOK, NEW d \in Decision
  PROVE  /\ Standing(d) = "unknown"      <=> status[d] = "ABSENT"
         /\ Standing(d) = "proposed"     <=> status[d] = "DRAFT"
         /\ Standing(d) = "trusted"      <=> status[d] = "ACTIVE"
         /\ Standing(d) = "questioned"   <=> status[d] = "AT_RISK"
         /\ Standing(d) = "reconsidered" <=> status[d] = "REOPENED"
         /\ Standing(d) = "closed"       <=> status[d] \in {"SUPERSEDED", "ARCHIVED"}
<1>1. status[d] \in DecisionStatus \cup {"ABSENT"}
  BY DEF TypeOK
<1>2. QED
  BY <1>1 DEF Standing, DecisionStatus

\* A step of DecisionTrust, said of statuses and of what is held against the
\* one decision that changes.
TrustMove(d) ==
  \/ /\ status[d] = "ABSENT" /\ status'[d] = "DRAFT" /\ Concerns(d)' = Concerns(d)
  \/ /\ status[d] \in Untaken /\ status'[d] = "ACTIVE" /\ Concerns(d)' = Concerns(d)
  \/ /\ status[d] \notin Untaken
     /\ Concerns(d) \subseteq Concerns(d)' /\ Concerns(d)' # Concerns(d)
     /\ \/ status[d] \in Live /\ status'[d] = "AT_RISK"
        \/ status[d] \notin Live /\ status'[d] = status[d]
  \/ /\ status[d] \notin Untaken
     /\ ~ (Concerns(d) \subseteq Concerns(d)')
     /\ status'[d] = IF status[d] = "AT_RISK" /\ Concerns(d)' = {} THEN "ACTIVE" ELSE status[d]
  \/ /\ status[d] \in {"ACTIVE", "AT_RISK"} /\ status'[d] = "REOPENED"
     /\ Concerns(d)' = Concerns(d)
  \/ /\ status[d] # "ABSENT" /\ status'[d] \in {"SUPERSEDED", "ARCHIVED"}
     /\ Concerns(d)' \subseteq Concerns(d)

\* Such a move of one decision, the others standing still, is a step of DecisionTrust.
LEMMA TrustMoves ==
  ASSUME TypeOK, TypeOK', NEW d \in Decision, Elsewhere(d), TrustMove(d)
  PROVE  Trust!Next
<1>1. \A o \in Decision \ {d} : Standing(o)' = Standing(o) /\ Concerns(o)' = Concerns(o)
  BY DEF Elsewhere, Standing, Concerns
<1>2. /\ Standing(d)' = "proposed"     <=> status'[d] = "DRAFT"
      /\ Standing(d)' = "trusted"      <=> status'[d] = "ACTIVE"
      /\ Standing(d)' = "questioned"   <=> status'[d] = "AT_RISK"
      /\ Standing(d)' = "reconsidered" <=> status'[d] = "REOPENED"
      /\ Standing(d)' = "closed"       <=> status'[d] \in {"SUPERSEDED", "ARCHIVED"}
      /\ status'[d] = status[d] => Standing(d)' = Standing(d)
  <2>1. status'[d] \in DecisionStatus \cup {"ABSENT"}
    BY DEF TypeOK
  <2>2. QED
    BY <2>1 DEF Standing, DecisionStatus
<1>3. status[d] \in DecisionStatus \cup {"ABSENT"}
  BY DEF TypeOK
<1> DEFINE Same == Concerns(d)' = Concerns(d)
           Recorded == Standing(d) \notin {"unknown", "proposed"}
<1>4. \/ Standing(d) = "unknown" /\ Standing(d)' = "proposed" /\ Same
      \/ ~ Recorded /\ Standing(d)' = "trusted" /\ Same
      \/ /\ Recorded /\ Concerns(d) \subseteq Concerns(d)' /\ ~ Same
         /\ Standing(d)' = IF Standing(d) = "closed" THEN "closed" ELSE "questioned"
      \/ /\ Recorded /\ ~ (Concerns(d) \subseteq Concerns(d)')
         /\ Standing(d)' = IF Standing(d) = "questioned" /\ Concerns(d)' = {}
                             THEN "trusted" ELSE Standing(d)
      \/ Standing(d) \in {"trusted", "questioned"} /\ Standing(d)' = "reconsidered" /\ Same
      \/ Standing(d) # "unknown" /\ Standing(d)' = "closed" /\ Concerns(d)' \subseteq Concerns(d)
  BY <1>2, <1>3, StandingOf DEF TrustMove, Untaken, Live, DecisionStatus
<1> DEFINE standing == [o \in Decision |-> Standing(o)]
           concerns == [o \in Decision |-> OpenConflicts(o) \cup DoubtfulUnder(validity, o)]
<1>5. \A o \in Decision : standing[o] = Standing(o) /\ concerns[o] = Concerns(o)
  BY DEF Concerns
<1>6. \A o \in Decision : standing'[o] = Standing(o)' /\ concerns'[o] = Concerns(o)'
  BY DEF Concerns
<1> HIDE DEF standing, concerns
<1>7. \A o \in Decision \ {d} : standing'[o] = standing[o] /\ concerns'[o] = concerns[o]
  BY <1>1, <1>5, <1>6
<1>8. \/ standing[d] = "unknown" /\ standing'[d] = "proposed" /\ concerns'[d] = concerns[d]
      \/ /\ standing[d] \in {"unknown", "proposed"} /\ standing'[d] = "trusted"
         /\ concerns'[d] = concerns[d]
      \/ /\ standing[d] \notin {"unknown", "proposed"}
         /\ concerns[d] \subseteq concerns'[d] /\ concerns'[d] # concerns[d]
         /\ standing'[d] = IF standing[d] = "closed" THEN "closed" ELSE "questioned"
      \/ /\ standing[d] \notin {"unknown", "proposed"} /\ ~ (concerns[d] \subseteq concerns'[d])
         /\ standing'[d] = IF standing[d] = "questioned" /\ concerns'[d] = {}
                             THEN "trusted" ELSE standing[d]
      \/ /\ standing[d] \in {"trusted", "questioned"} /\ standing'[d] = "reconsidered"
         /\ concerns'[d] = concerns[d]
      \/ standing[d] # "unknown" /\ standing'[d] = "closed" /\ concerns'[d] \subseteq concerns[d]
  BY <1>4, <1>5, <1>6
<1>9. QED
  BY <1>7, <1>8 DEF standing, concerns, Trust!Next, Trust!Propose, Trust!Adopt, Trust!Question,
     Trust!Settle, Trust!Reconsider, Trust!Close, Trust!Recorded, Trust!SameConcerns

\* What changes nothing that DecisionTrust sees.
LEMMA TrustStutters ==
  ASSUME UNCHANGED <<status, validity, conflict>>
  PROVE  UNCHANGED Trust!vars
BY DEF Trust!vars, Standing, OpenConflicts, DoubtfulUnder

\* Confirming or dismissing a conflict settles one concern.
LEMMA SettlesConcern ==
  ASSUME ConcernsApart, TypeOK, NothingYet, NEW c \in ConflictId, Accept(c) \/ Dismiss(c)
  PROVE  TrustMove(DecisionOf(c))
<1> DEFINE d == DecisionOf(c)
           a == AssumptionOf(c)
<1> USE OfAssumption
<1>1. d \in Decision /\ a \in Assumption /\ Of[a] = d
  BY DEF DecisionOf, AssumptionOf, ConflictId
<1>2. c \in OpenConflicts(d) /\ c \notin Assumption
  BY DEF Accept, Dismiss, OpenConflicts, ConcernsApart
<1>3. OpenConflicts(d)' = OpenConflicts(d) \ {c}
  BY DEF Accept, Dismiss, OpenConflicts, TypeOK
<1>4. ~ (Concerns(d) \subseteq Concerns(d)')
  BY <1>2, <1>3 DEF Concerns, DoubtfulUnder
<1>5. status[d] \notin Untaken
  BY <1>1, <1>2 DEF NothingYet, Untroubled
<1>6. CASE Accept(c)
  <2>1. a \in Concerns(d)' /\ status' = status
    BY <1>1, <1>6 DEF Accept, Concerns, DoubtfulUnder, Compromised, TypeOK
  <2>2. QED
    BY <1>4, <1>5, <2>1 DEF TrustMove
<1>7. CASE Dismiss(c)
  <2>1. DoubtfulUnder(validity, d)' = DoubtfulUnder(ValidityAfterDismissal(c), d)
    BY <1>7 DEF Dismiss, DoubtfulUnder
  <2>2. StillCompromised(c) <=> Concerns(d)' # {}
    BY <1>3, <2>1 DEF StillCompromised, Concerns
  <2>3. status'[d] = IF status[d] = "AT_RISK" /\ Concerns(d)' = {} THEN "ACTIVE" ELSE status[d]
    BY <1>1, <1>7, <2>2 DEF Dismiss, TypeOK
  <2>4. QED
    BY <1>4, <1>5, <2>3 DEF TrustMove
<1>8. QED
  BY <1>6, <1>7

\* Evidence adds a concern to a decision that was taken.
LEMMA AddsConcern ==
  ASSUME ConcernsApart, AlwaysFlags, TypeOK, CandidatesTaken,
         NEW r \in Run, NEW k \in Candidate, NEW j \in Judgement, RaiseConflict(r, k, j)
  PROVE  TrustMove(Of[k.assumption])
<1> DEFINE d == Of[k.assumption]
           c == <<k.assumption, work[r].evidence>>
<1> USE OfAssumption
<1>1. c \in ConflictId /\ k.assumption \in Assumption /\ d \in Decision /\ DecisionOf(c) = d
  BY RaisedConflict DEF DecisionOf
<1>2. OpenConflicts(d)' = OpenConflicts(d) \cup {c} /\ c \notin OpenConflicts(d)
  <2>1. conflict' = [conflict EXCEPT ![c] = "OPEN"] /\ conflict[c] = "ABSENT"
    BY DEF RaiseConflict
  <2>2. QED
    BY <1>1, <2>1 DEF OpenConflicts, TypeOK
<1>3. /\ OutcomeFor(work[r].event, k, j).flagDecision
      /\ OutcomeFor(work[r].event, k, j).nextValidity \in NextValidity
  BY RecordedOutcome DEF RaiseConflict
<1>4. \A b \in Assumption : validity'[b] = validity[b] \/ validity'[b] \in Compromised
  BY <1>1, <1>3 DEF RaiseConflict, ValidityAfter, NextValidity, Compromised, Unchanged, TypeOK
<1>5. DoubtfulUnder(validity, d) \subseteq DoubtfulUnder(validity, d)'
  BY <1>4 DEF DoubtfulUnder
<1>6. c \notin DoubtfulUnder(validity, d)
  BY <1>1 DEF ConcernsApart, DoubtfulUnder
<1>7. Concerns(d) \subseteq Concerns(d)' /\ Concerns(d)' # Concerns(d)
  BY <1>2, <1>5, <1>6 DEF Concerns
<1>8. status[d] \notin Untaken
  BY DEF RaiseConflict, CandidatesTaken
<1>9. status'[d] = Flagged(status[d])
  BY <1>1, <1>3 DEF RaiseConflict, TypeOK
<1>10. QED
  BY <1>1, <1>7, <1>8, <1>9 DEF TrustMove, Flagged, Live, Untaken, TypeOK, DecisionStatus

\* Expiry finds the decision live and challenges an assumption nobody doubted.
LEMMA ExpiryAddsConcern ==
  ASSUME ConcernsApart, TypeOK, NEW a \in Assumption, NEW n \in Sweep, Expire(a, n)
  PROVE  TrustMove(Of[a])
<1> DEFINE d == Of[a]
           c == <<a, n>>
<1> USE OfAssumption
<1>1. c \in ConflictId /\ d \in Decision /\ DecisionOf(c) = d
  BY DEF ConflictId, DecisionOf
<1>2. OpenConflicts(d)' = OpenConflicts(d) \cup {c} /\ c \notin OpenConflicts(d)
  BY <1>1 DEF Expire, OpenConflicts, TypeOK
<1>3. DoubtfulUnder(validity, d) \subseteq DoubtfulUnder(validity, d)'
  BY DEF Expire, DoubtfulUnder, Compromised, TypeOK
<1>4. c \notin DoubtfulUnder(validity, d)
  BY <1>1 DEF ConcernsApart, DoubtfulUnder
<1>5. Concerns(d) \subseteq Concerns(d)' /\ Concerns(d)' # Concerns(d)
  BY <1>2, <1>3, <1>4 DEF Concerns
<1>6. status[d] \in Live /\ status'[d] = "AT_RISK"
  BY <1>1 DEF Expire, Flagged, Live, TypeOK
<1>7. QED
  BY <1>5, <1>6 DEF TrustMove, Live, Untaken

\* Proposals, commits, rejections, reopenings and supersessions move a decision
\* and leave what is held against it, or less.
LEMMA PersonMoves ==
  ASSUME TypeOK, Taken, NEW p \in Person, Commit(p) \/ Reject(p) \/ Supersede(p),
         NEW d \in Decision, d = session[p].decision
  PROVE  TrustMove(d)
<1>1. status[d] # "ABSENT"
  BY DEF Commit, Reject, Supersede, Taken, Known, NoSession
<1>2. CASE Commit(p)
  <2>1. Concerns(d)' = Concerns(d)
    BY <1>2 DEF Commit, Concerns, OpenConflicts, DoubtfulUnder
  <2>2. QED
    BY <1>1, <1>2, <2>1 DEF Commit, Taken, CommitsDraft, TrustMove, Untaken, TypeOK
<1>3. CASE Reject(p)
  <2>1. Concerns(d)' = Concerns(d)
    BY <1>3 DEF Reject, Concerns, OpenConflicts, DoubtfulUnder
  <2>2. QED
    BY <1>1, <1>3, <2>1 DEF Reject, TrustMove, TypeOK
<1>4. CASE Supersede(p)
  <2>1. OpenConflicts(d)' = {}
    BY <1>4 DEF Supersede, SupersededConflict, OpenConflicts, TypeOK
  <2>2. DoubtfulUnder(validity, d)' \subseteq DoubtfulUnder(validity, d)
    BY <1>4 DEF Supersede, SupersededValidity, DoubtfulUnder, Compromised, TypeOK
  <2>3. QED
    BY <1>1, <1>4, <2>1, <2>2 DEF Supersede, Concerns, TrustMove, TypeOK
<1>5. QED
  BY <1>1, <1>2, <1>3, <1>4

\* Every step of memory is a step of DecisionTrust or changes nothing it sees.
LEMMA TrustStep ==
  ASSUME OneCommitter, AlwaysFlags, ConcernsApart, TrustInv, [Next]_vars
  PROVE  [Trust!Next]_(Trust!vars)
<1>1. TypeOK /\ TypeOK' /\ Taken
  BY TypeStep DEF TrustInv
<1>2. CASE Quiet \/ RequestEvidence
  BY <1>2, TrustStutters DEF Quiet, RequestEvidence
<1>3. ASSUME NEW d \in Decision, Propose(d) \/ Create(d) \/ Reopen(d) PROVE [Trust!Next]_(Trust!vars)
  <2>1. Concerns(d)' = Concerns(d)
    BY <1>3 DEF Propose, Create, Reopen, Concerns, OpenConflicts, DoubtfulUnder
  <2>2. TrustMove(d) \/ UNCHANGED <<status, validity, conflict>>
    <3>1. CASE Propose(d) \/ Create(d)
      BY <1>1, <2>1, <3>1 DEF Propose, Create, TrustMove, Untaken, TypeOK
    <3>2. CASE Reopen(d) /\ status[d] = "REOPENED"
      BY <1>1, <3>2 DEF Reopen, TypeOK
    <3>3. CASE Reopen(d) /\ status[d] # "REOPENED"
      BY <1>1, <2>1, <3>3 DEF Reopen, TrustMove, AssertTransition, CanTransition,
         AllowedTransitions, DecisionStatus, TypeOK
    <3>4. QED
      BY <1>3, <3>1, <3>2, <3>3
  <2>3. QED
    BY <1>1, <1>3, <2>2, OneDecisionAtATime, TrustMoves, TrustStutters
<1>4. ASSUME NEW c \in ConflictId, Accept(c) \/ Dismiss(c) PROVE Trust!Next
  <2>1. DecisionOf(c) \in Decision
    BY OfAssumption DEF DecisionOf, ConflictId
  <2>2. Elsewhere(DecisionOf(c))
    BY <1>1, <1>4, OneDecisionAtATime
  <2>3. TrustMove(DecisionOf(c))
    BY <1>1, <1>4, SettlesConcern DEF Taken
  <2>4. QED
    BY <1>1, <2>1, <2>2, <2>3, TrustMoves
<1>5. ASSUME NEW p \in Person, Commit(p) \/ Reject(p) \/ Supersede(p) PROVE Trust!Next
  <2>1. PICK d \in Decision : d = session[p].decision
    BY <1>1, <1>5 DEF Commit, Reject, Supersede, TypeOK, Session, NoSession
  <2>2. Elsewhere(d)
    BY <1>1, <1>5, <2>1, OneDecisionAtATime
  <2>3. TrustMove(d)
    BY <1>1, <1>5, <2>1, PersonMoves
  <2>4. QED
    BY <1>1, <2>2, <2>3, TrustMoves
<1>6. ASSUME NEW r \in Run, NEW k \in Candidate, NEW j \in Judgement, RaiseConflict(r, k, j)
      PROVE  Trust!Next
  <2>1. Of[k.assumption] \in Decision
    BY OfAssumption DEF Candidate
  <2>2. Elsewhere(Of[k.assumption])
    BY <1>1, <1>6, OneDecisionAtATime
  <2>3. TrustMove(Of[k.assumption])
    BY <1>1, <1>6, AddsConcern DEF Taken
  <2>4. QED
    BY <1>1, <2>1, <2>2, <2>3, TrustMoves
<1>7. ASSUME NEW a \in Assumption, NEW n \in Sweep, Expire(a, n) PROVE Trust!Next
  <2>1. Of[a] \in Decision
    BY OfAssumption
  <2>2. Elsewhere(Of[a])
    BY <1>1, <1>7, OneDecisionAtATime
  <2>3. TrustMove(Of[a])
    BY <1>1, <1>7, ExpiryAddsConcern
  <2>4. QED
    BY <1>1, <2>1, <2>2, <2>3, TrustMoves
<1>8. QED
  BY <1>2, <1>3, <1>4, <1>5, <1>6, <1>7, LoudSteps

\* Whatever the interleaving of runs, sweeps and people, memory moves only as
\* DecisionTrust allows: trusted only while nothing is held against a decision,
\* questioned when something is, restored with the last concern, closed for good.
THEOREM MemoryKeepsTrust ==
  ASSUME OneCommitter, AlwaysFlags, ConcernsApart
  PROVE  Spec => KeepsTrust
<1>1. Init => Trust!Init
  BY DEF Init, Trust!Init, Standing, OpenConflicts, DoubtfulUnder, Compromised
<1>2. TrustInv /\ [Next]_vars => [Trust!Next]_(Trust!vars)
  BY TrustStep
<1>3. QED
  BY <1>1, <1>2, TrustInvariant, PTL DEF Spec, KeepsTrust, Trust!Spec

\* One step of DecisionTrust on one decision keeps what a reader relies on.
LEMMA TrustKept ==
  ASSUME NEW standing, NEW concerns, NEW standingNext, NEW concernsNext,
         /\ standing \in {"unknown", "proposed", "trusted"} => concerns = {}
         /\ standing = "questioned" => concerns # {},
         \/ standingNext = standing /\ concernsNext = concerns
         \/ standing = "unknown" /\ standingNext = "proposed" /\ concernsNext = concerns
         \/ /\ standing \in {"unknown", "proposed"} /\ standingNext = "trusted"
            /\ concernsNext = concerns
         \/ /\ concerns \subseteq concernsNext /\ concernsNext # concerns
            /\ standingNext = IF standing = "closed" THEN "closed" ELSE "questioned"
         \/ /\ standing \notin {"unknown", "proposed"} /\ ~ (concerns \subseteq concernsNext)
            /\ standingNext = IF standing = "questioned" /\ concernsNext = {}
                                THEN "trusted" ELSE standing
         \/ standingNext = "reconsidered"
         \/ standingNext = "closed"
  PROVE  /\ standingNext \in {"unknown", "proposed", "trusted"} => concernsNext = {}
         /\ standingNext = "questioned" => concernsNext # {}
OBVIOUS

\* In the abstract specification, of whatever implements it: a decision reads as trusted
\* only while nothing is held against it, and as questioned only while something is.
THEOREM TrustMeansNoConcern == Trust!Spec => []Trust!StandingMatchesConcerns
<1> DEFINE standing == [o \in Decision |-> Standing(o)]
           concerns == [o \in Decision |-> OpenConflicts(o) \cup DoubtfulUnder(validity, o)]
           Matches  == \A d \in Decision :
                         /\ standing[d] \in {"unknown", "proposed", "trusted"} => concerns[d] = {}
                         /\ standing[d] = "questioned" => concerns[d] # {}
<1>1. Trust!Init => Matches
  <2>1. Trust!Init => \A d \in Decision : standing[d] = "unknown" /\ concerns[d] = {}
    BY DEF Trust!Init
  <2>2. QED
    BY <2>1
<1>2. Matches /\ [Trust!Next]_(Trust!vars) => Matches'
  <2> SUFFICES ASSUME Matches, [Trust!Next]_(Trust!vars), NEW d \in Decision
               PROVE  /\ standing'[d] \in {"unknown", "proposed", "trusted"} => concerns'[d] = {}
                      /\ standing'[d] = "questioned" => concerns'[d] # {}
    OBVIOUS
  <2>1. \/ standing'[d] = standing[d] /\ concerns'[d] = concerns[d]
        \/ standing[d] = "unknown" /\ standing'[d] = "proposed" /\ concerns'[d] = concerns[d]
        \/ /\ standing[d] \in {"unknown", "proposed"} /\ standing'[d] = "trusted"
           /\ concerns'[d] = concerns[d]
        \/ /\ concerns[d] \subseteq concerns'[d] /\ concerns'[d] # concerns[d]
           /\ standing'[d] = IF standing[d] = "closed" THEN "closed" ELSE "questioned"
        \/ /\ standing[d] \notin {"unknown", "proposed"} /\ ~ (concerns[d] \subseteq concerns'[d])
           /\ standing'[d] = IF standing[d] = "questioned" /\ concerns'[d] = {}
                               THEN "trusted" ELSE standing[d]
        \/ standing'[d] = "reconsidered"
        \/ standing'[d] = "closed"
    <3>1. CASE standing' = standing /\ concerns' = concerns
      BY <3>1
    <3>2. CASE Trust!Next
      <4>1. PICK o \in Decision :
              /\ \A q \in Decision \ {o} : standing'[q] = standing[q] /\ concerns'[q] = concerns[q]
              /\ \/ Trust!Propose(o) \/ Trust!Adopt(o) \/ Trust!Question(o)
                 \/ Trust!Settle(o) \/ Trust!Reconsider(o) \/ Trust!Close(o)
        BY <3>2 DEF Trust!Next
      <4>2. CASE o # d
        BY <4>1, <4>2
      <4>3. CASE o = d
        BY <4>1, <4>3 DEF Trust!Propose, Trust!Adopt, Trust!Question, Trust!Settle,
           Trust!Reconsider, Trust!Close, Trust!Recorded, Trust!SameConcerns
      <4>4. QED
        BY <4>2, <4>3
    <3>3. QED
      BY <3>1, <3>2 DEF Trust!vars
  <2> HIDE DEF standing, concerns
  <2>2. QED
    BY <2>1, TrustKept
<1>3. Matches <=> Trust!StandingMatchesConcerns
  BY DEF Trust!StandingMatchesConcerns
<1> HIDE DEF Matches
<1>4. QED
  BY <1>1, <1>2, <1>3, PTL DEF Trust!Spec

\* So memory tells its readers the truth, under the same provisos.
COROLLARY MemoryReadsTrue ==
  ASSUME OneCommitter, AlwaysFlags, ConcernsApart
  PROVE  Spec => []Trust!StandingMatchesConcerns
BY MemoryKeepsTrust, TrustMeansNoConcern, PTL DEF KeepsTrust
------------------------------------------------------------------------------
\* One event opens one conflict on an assumption.  Without overruns, a run has
\* its event to itself, and what it has not judged nobody has.
Claimed == \A r \in Run : work[r] # IdleRun => inbox[work[r].event] = "PROCESSING"

Alone ==
  \A r, q \in Run :
    work[r] # IdleRun /\ work[q] # IdleRun /\ work[r].event = work[q].event => r = q

Reads ==
  \A r \in Run : work[r].stage \in {"ranked", "judging"} =>
    /\ EventOf[work[r].evidence] = work[r].event
    /\ \A k, l \in work[r].candidates : k.assumption = l.assumption => k = l

JudgedIn(stored, e, a) == \E m \in {j.method : j \in Judgement} : <<e, a, m>> \in stored

Unjudged ==
  \A r \in Run : work[r].stage = "judging" =>
    \A k \in work[r].candidates : ~ JudgedIn(evaluated, work[r].event, k.assumption)

\* A conflict is stored with the evaluation that opened it.
Settled ==
  \A a \in Assumption, x \in Evidence :
    conflict[<<a, x>>] # "ABSENT" => JudgedIn(evaluated, EventOf[x], a)

RetryInv ==
  /\ TypeOK
  /\ Claimed
  /\ Alone
  /\ Reads
  /\ Unjudged
  /\ Settled
  /\ OneConflictPerEvent

\* What is kept by steps that take no part in an evaluation.
LEMMA RetryKept ==
  ASSUME RetryInv, UNCHANGED <<inbox, evaluated, work>>,
         \A a \in Assumption, x \in Evidence :
           conflict'[<<a, x>>] # "ABSENT" => conflict[<<a, x>>] # "ABSENT"
  PROVE  Claimed' /\ Alone' /\ Reads' /\ Unjudged' /\ Settled' /\ OneConflictPerEvent'
<1>1. Claimed' /\ Alone' /\ Reads'
  BY DEF RetryInv, Claimed, Alone, Reads
<1>2. Unjudged' /\ Settled'
  BY DEF RetryInv, Unjudged, Settled
<1>3. OneConflictPerEvent'
  BY DEF RetryInv, OneConflictPerEvent
<1>4. QED
  BY <1>1, <1>2, <1>3

\* People and sweeps open no conflict with evidence.
LEMMA NoneOpened ==
  ASSUME TypeOK, Decide \/ Converse \/ (\E a \in Assumption, n \in Sweep : Expire(a, n)),
         NEW a \in Assumption, NEW x \in Evidence, conflict'[<<a, x>>] # "ABSENT"
  PROVE  conflict[<<a, x>>] # "ABSENT"
<1>1. <<a, x>> \in ConflictId
  BY DEF ConflictId
<1>2. CASE UNCHANGED conflict
  BY <1>2
<1>3. ASSUME NEW c \in ConflictId, Accept(c) \/ Dismiss(c) PROVE conflict[<<a, x>>] # "ABSENT"
  BY <1>1, <1>3 DEF Accept, Dismiss, TypeOK
<1>4. ASSUME NEW p \in Person, Supersede(p) PROVE conflict[<<a, x>>] # "ABSENT"
  BY <1>1, <1>4 DEF Supersede, SupersededConflict, OpenConflicts, TypeOK
<1>5. ASSUME NEW b \in Assumption, NEW n \in Sweep, Expire(b, n) PROVE conflict[<<a, x>>] # "ABSENT"
  BY <1>1, <1>5, EventAssumption DEF Expire, ConflictId, TypeOK
<1>6. CASE Decide
  BY <1>2, <1>3, <1>6 DEF Decide, Propose, Create, RequestCommit, Reopen, RequestEvidence, ResolveAlias
<1>7. CASE Converse
  BY <1>2, <1>4, <1>7 DEF Converse, ReadToCommit, Commit, ReadToReject, Reject, CloseRejected,
     ReadToSupersede, Abandon, memory
<1>8. QED
  BY <1>5, <1>6, <1>7

\* A claim finds nobody at work on the event.
LEMMA ClaimStep ==
  ASSUME ~ Overrun, RetryInv, NEW r \in Run, NEW e \in Event, Claim(r, e)
  PROVE  Claimed' /\ Alone' /\ Reads' /\ Unjudged' /\ Settled' /\ OneConflictPerEvent'
<1>1. \A q \in Run : work[q] # IdleRun => work[q].event # e
  BY DEF Claim, Claimable, RetryInv, Claimed
<1>2. /\ work'[r] = [stage |-> "claimed", event |-> e]
      /\ \A q \in Run \ {r} : work'[q] = work[q]
      /\ inbox'[e] = "PROCESSING"
      /\ \A q \in Run : work[q] # IdleRun => inbox'[work[q].event] = inbox[work[q].event]
  <2>1. \A q \in Run : work[q] # IdleRun => work[q].event \in Event
    BY DEF RetryInv, TypeOK, Work
  <2>2. QED
    BY <1>1, <2>1 DEF Claim, RetryInv, TypeOK
<1>3. Claimed' /\ Alone'
  BY <1>1, <1>2 DEF RetryInv, Claimed, Alone
<1>4. Reads' /\ Unjudged'
  BY <1>2 DEF Claim, RetryInv, Reads, Unjudged
<1>5. Settled' /\ OneConflictPerEvent'
  BY DEF Claim, memory, RetryInv, Settled, OneConflictPerEvent
<1>6. QED
  BY <1>3, <1>4, <1>5

\* What is read is read once; what is judged already is put aside.
LEMMA ReadingStep ==
  ASSUME RetryInv, NEW r \in Run, FindCandidates(r) \/ SkipEvaluated(r)
  PROVE  Claimed' /\ Alone' /\ Reads' /\ Unjudged' /\ Settled' /\ OneConflictPerEvent'
<1>1. /\ \A q \in Run \ {r} : work'[q] = work[q]
      /\ work[r] # IdleRun /\ work'[r] # IdleRun /\ work'[r].event = work[r].event
      /\ UNCHANGED <<inbox, evaluated, conflict>>
  <2>1. CASE FindCandidates(r)
    BY <2>1 DEF FindCandidates, memory, RetryInv, TypeOK, IdleRun
  <2>2. CASE SkipEvaluated(r)
    <3>1. work'[r].stage = "judging" /\ work'[r].event = work[r].event /\ work[r].stage = "ranked"
      BY <2>2 DEF SkipEvaluated, RetryInv, TypeOK, Work, IdleRun
    <3>2. work[r] # IdleRun /\ work'[r] # IdleRun
      BY <3>1 DEF IdleRun
    <3>3. \A q \in Run \ {r} : work'[q] = work[q]
      BY <2>2 DEF SkipEvaluated, RetryInv, TypeOK
    <3>4. QED
      BY <2>2, <3>1, <3>2, <3>3 DEF SkipEvaluated, memory
  <2>3. QED
    BY <2>1, <2>2
<1>2. Claimed' /\ Alone'
  BY <1>1 DEF RetryInv, Claimed, Alone
<1>3. Settled' /\ OneConflictPerEvent'
  BY <1>1 DEF RetryInv, Settled, OneConflictPerEvent
<1>4. CASE FindCandidates(r)
  <2> DEFINE read(found) == {[assumption |-> a, validity |-> validity[a]] : a \in found}
  <2>1. PICK x \in Evidence, found \in SUBSET Retrievable :
          /\ EventOf[x] = work[r].event
          /\ work' = [work EXCEPT ![r] = [stage |-> "ranked", event |-> work[r].event,
                                          evidence |-> x, candidates |-> read(found)]]
    BY <1>4 DEF FindCandidates
  <2>2. \A k, l \in read(found) : k.assumption = l.assumption => k = l
    OBVIOUS
  <2> HIDE DEF read
  <2>3. work'[r].stage = "ranked" /\ work'[r].evidence = x /\ work'[r].candidates = read(found)
    BY <2>1 DEF RetryInv, TypeOK
  <2>4. Reads'
    BY <1>1, <2>1, <2>2, <2>3 DEF RetryInv, Reads
  <2>5. Unjudged'
    BY <1>1, <2>3 DEF RetryInv, Unjudged
  <2>6. QED
    BY <1>2, <1>3, <2>4, <2>5
<1>5. CASE SkipEvaluated(r)
  <2>1. /\ work[r].stage = "ranked"
        /\ work'[r].stage = "judging" /\ work'[r].evidence = work[r].evidence
        /\ work'[r].candidates = NotYetEvaluated(work[r])
    BY <1>5 DEF SkipEvaluated, RetryInv, TypeOK, Work, IdleRun
  <2>2. \A k \in NotYetEvaluated(work[r]) :
          k \in work[r].candidates /\ ~ JudgedIn(evaluated, work[r].event, k.assumption)
    <3>1. \A k \in work[r].candidates : k.assumption \in Assumption
      BY <2>1 DEF RetryInv, TypeOK, Work, IdleRun, Candidate
    <3>2. QED
      BY <3>1 DEF NotYetEvaluated, EvaluatedFor, JudgedIn
  <2>3. Reads'
    BY <1>1, <2>1, <2>2 DEF RetryInv, Reads
  <2>4. Unjudged'
    BY <1>1, <2>1, <2>2 DEF RetryInv, Unjudged
  <2>5. QED
    BY <1>2, <1>3, <2>3, <2>4
<1>6. QED
  BY <1>2, <1>3, <1>4, <1>5

\* A judgement settles one candidate of one run, and opens a conflict only where
\* no evidence of the event has.
LEMMA JudgingStep ==
  ASSUME RetryInv, NEW r \in Run, NEW k \in Candidate, NEW j \in Judgement,
         RecordEvaluation(r, k, j) \/ RaiseConflict(r, k, j)
  PROVE  Claimed' /\ Alone' /\ Reads' /\ Unjudged' /\ Settled' /\ OneConflictPerEvent'
<1> DEFINE e == work[r].event
           a == k.assumption
<1>1. /\ work[r].stage = "judging" /\ k \in work[r].candidates /\ a \in Assumption
      /\ work[r].evidence \in Evidence /\ e \in Event /\ work[r] # IdleRun
  BY DEF RecordEvaluation, RaiseConflict, RetryInv, TypeOK, Work, IdleRun, Candidate
<1>2. /\ \A q \in Run \ {r} : work'[q] = work[q]
      /\ work'[r] # IdleRun /\ work'[r].event = e /\ work'[r].stage = "judging"
      /\ work'[r].evidence = work[r].evidence /\ work'[r].candidates = work[r].candidates \ {k}
      /\ UNCHANGED inbox
  BY <1>1 DEF RecordEvaluation, RaiseConflict, RetryInv, TypeOK, Work, IdleRun
<1>3. evaluated' = evaluated \cup {<<e, a, j.method>>}
  BY DEF RecordEvaluation, RaiseConflict
<1>4. \A f, b : JudgedIn(evaluated', f, b) <=> JudgedIn(evaluated, f, b) \/ (f = e /\ b = a)
  BY <1>3 DEF JudgedIn
<1>5. Claimed' /\ Alone'
  BY <1>1, <1>2 DEF RetryInv, Claimed, Alone
<1>6. Reads'
  BY <1>1, <1>2 DEF RetryInv, Reads
<1>7. Unjudged'
  <2> SUFFICES ASSUME NEW q \in Run, work'[q].stage = "judging", NEW l \in work'[q].candidates
               PROVE  ~ JudgedIn(evaluated', work'[q].event, l.assumption)
    BY DEF Unjudged
  <2>1. CASE q = r
    <3>1. l \in work[r].candidates /\ l # k
      BY <1>2, <2>1
    <3>2. l.assumption # a
      BY <1>1, <3>1 DEF RetryInv, Reads
    <3>3. QED
      BY <1>1, <1>2, <1>4, <2>1, <3>1, <3>2 DEF RetryInv, Unjudged
  <2>2. CASE q # r
    <3>1. work[q].event # e /\ work'[q] = work[q]
      BY <1>1, <1>2, <2>2 DEF RetryInv, Alone, IdleRun
    <3>2. QED
      BY <1>4, <3>1 DEF RetryInv, Unjudged
  <2>3. QED
    BY <2>1, <2>2
<1>8. Settled' /\ OneConflictPerEvent'
  <2>1. CASE RecordEvaluation(r, k, j)
    BY <1>4, <2>1 DEF RecordEvaluation, memory, RetryInv, Settled, OneConflictPerEvent
  <2>2. CASE RaiseConflict(r, k, j)
    <3> DEFINE y == work[r].evidence
    <3>1. \A b \in Assumption, x \in Evidence :
            conflict'[<<b, x>>] # "ABSENT" => conflict[<<b, x>>] # "ABSENT" \/ (b = a /\ x = y)
      BY <1>1, <2>2 DEF RaiseConflict, RetryInv, TypeOK, ConflictId
    <3>2. EventOf[y] = e
      BY <1>1 DEF RetryInv, Reads
    <3>3. \A x \in Evidence : EventOf[x] = e => conflict[<<a, x>>] = "ABSENT"
      BY <1>1 DEF RetryInv, Settled, Unjudged
    <3>4. Settled'
      BY <1>4, <3>1, <3>2 DEF RetryInv, Settled
    <3>5. OneConflictPerEvent'
      BY <3>1, <3>2, <3>3 DEF RetryInv, OneConflictPerEvent
    <3>6. QED
      BY <3>4, <3>5
  <2>3. QED
    BY <2>1, <2>2
<1>9. QED
  BY <1>5, <1>6, <1>7, <1>8

\* Who stops leaves the event to nobody.
LEMMA StoppingStep ==
  ASSUME RetryInv, NEW r \in Run, Finish(r) \/ Fail(r) \/ Crash(r)
  PROVE  Claimed' /\ Alone' /\ Reads' /\ Unjudged' /\ Settled' /\ OneConflictPerEvent'
<1>1. /\ work[r] # IdleRun /\ work'[r] = IdleRun
      /\ \A q \in Run \ {r} : work'[q] = work[q]
      /\ UNCHANGED <<evaluated, conflict>>
  BY DEF Finish, Fail, Crash, memory, RetryInv, TypeOK, IdleRun
<1>2. \A f \in Event : f # work[r].event => inbox'[f] = inbox[f]
  BY DEF Finish, Fail, Crash, RetryInv, TypeOK
<1>3. \A q \in Run : work[q] # IdleRun => work[q].event \in Event
  BY DEF RetryInv, TypeOK, Work
<1>4. Claimed' /\ Alone'
  BY <1>1, <1>2, <1>3 DEF RetryInv, Claimed, Alone
<1>5. Reads' /\ Unjudged'
  BY <1>1 DEF RetryInv, Reads, Unjudged, IdleRun
<1>6. Settled' /\ OneConflictPerEvent'
  BY <1>1 DEF RetryInv, Settled, OneConflictPerEvent
<1>7. QED
  BY <1>4, <1>5, <1>6

\* The strengthening of OneConflictPerEvent is kept by every step.
LEMMA RetryStep == ~ Overrun /\ RetryInv /\ [Next]_vars => RetryInv'
<1> SUFFICES ASSUME ~ Overrun, RetryInv, [Next]_vars PROVE RetryInv'
  OBVIOUS
<1> DEFINE Rest == Claimed /\ Alone /\ Reads /\ Unjudged /\ Settled /\ OneConflictPerEvent
<1>1. CASE Decide \/ Converse \/ (\E a \in Assumption, n \in Sweep : Expire(a, n))
  <2>1. \A a \in Assumption, x \in Evidence :
          conflict'[<<a, x>>] # "ABSENT" => conflict[<<a, x>>] # "ABSENT"
    BY <1>1, NoneOpened DEF RetryInv
  <2>2. UNCHANGED <<inbox, evaluated, work>>
    BY <1>1, PeopleOnly
  <2>3. Rest'
    BY <2>1, <2>2, RetryKept
  <2>4. QED
    BY <2>3, TypeStep DEF RetryInv
<1>2. CASE UNCHANGED vars
  <2>1. Rest'
    BY <1>2, RetryKept DEF vars, memory
  <2>2. QED
    BY <2>1, TypeStep DEF RetryInv
<1>3. CASE Evaluate
  <2>1. Rest'
    BY <1>3, ClaimStep, ReadingStep, JudgingStep, StoppingStep DEF Evaluate
  <2>2. QED
    BY <2>1, TypeStep DEF RetryInv
<1>4. QED
  BY <1>1, <1>2, <1>3 DEF Next

\* However often an event is retried after a crash or a failure, and whatever the
\* model reads out of it each time, it opens one conflict on an assumption.
THEOREM OneConflict ==
  ASSUME ~ Overrun
  PROVE  Spec => []OneConflictPerEvent
<1>1. Init => RetryInv
  BY TypeCorrect DEF Init, RetryInv, TypeOK, Validity, Work, Session, IdleRun, NoSession, Claimed,
     Alone, Reads, Unjudged, Settled, OneConflictPerEvent, ConflictId
<1>2. RetryInv /\ [Next]_vars => RetryInv'
  BY RetryStep
<1>3. RetryInv => OneConflictPerEvent
  BY DEF RetryInv
<1>4. QED
  BY <1>1, <1>2, <1>3, PTL DEF Spec
=============================================================================
