---------------------------- MODULE AnswerProofs -----------------------------
(***************************************************************************)
(* That what decision memory answers is right, for every size: the latest  *)
(* receipts an agent is shown (VerificationReceipts), the verdict that     *)
(* follows from facts (FactJudgment) and the decisions a change may affect *)
(* (DecisionGraph).                                                        *)
(***************************************************************************)
EXTENDS VerificationReceipts, DecisionGraph, FactJudgment, FiniteSetTheorems, TLAPS

(* Least elements, which stand in for induction.                           *)

\* A family of finite sets has a minimal one.
LEMMA MinimalSet ==
  ASSUME NEW S, NEW F, F # {}, F \subseteq FiniteSubsetsOf(S)
  PROVE  \E A \in F : \A B \in F : ~ (B \subseteq A /\ B # A)
<1> DEFINE R == StrictSubsetOrdering(S)
<1>1. IsWellFoundedOn(R, FiniteSubsetsOf(S))
  BY FS_StrictSubsetOrderingWellFounded
<1>2. \A A, B \in F : B \subseteq A /\ B # A => <<B, A>> \in R
  BY DEF StrictSubsetOrdering, FiniteSubsetsOf
<1> HIDE DEF R
<1>3. PICK A \in F : \A B \in F : ~ (<<B, A>> \in R)
  BY <1>1, WFMin
<1>4. QED
  BY <1>2, <1>3

\* A set of naturals has a least one.
LEMMA LeastNatural ==
  ASSUME NEW T, T \subseteq Nat, T # {}
  PROVE  \E m \in T : \A k \in T : m <= k
<1> DEFINE F == {0..(k - 1) : k \in T}
<1>1. F \subseteq FiniteSubsetsOf(Nat)
  <2>1. ASSUME NEW k \in T PROVE 0..(k - 1) \subseteq Nat /\ IsFiniteSet(0..(k - 1))
    <3>1. k - 1 \in Int /\ 0 \in Int
      OBVIOUS
    <3>2. QED
      BY <3>1, FS_Interval
  <2>2. QED
    BY <2>1 DEF FiniteSubsetsOf
<1>2. F # {}
  OBVIOUS
<1> HIDE DEF F
<1>3. PICK A \in F : \A B \in F : ~ (B \subseteq A /\ B # A)
  BY <1>1, <1>2, MinimalSet
<1>4. PICK m \in T : A = 0..(m - 1)
  BY DEF F
<1>5. ASSUME NEW k \in T, k < m PROVE FALSE
  <2>1. 0..(k - 1) \in F
    BY DEF F
  <2>2. 0..(k - 1) \subseteq A /\ 0..(k - 1) # A
    <3>1. k \in Nat /\ m \in Nat
      OBVIOUS
    <3>2. 0..(k - 1) \subseteq 0..(m - 1) /\ k \in 0..(m - 1) /\ k \notin 0..(k - 1)
      BY <1>5, <3>1
    <3>3. QED
      BY <1>4, <3>2
  <2>3. QED
    BY <1>3, <2>1, <2>2
<1>6. QED
  BY <1>5

\* A finite set that is strictly ordered has a first element.
LEMMA FirstExists ==
  ASSUME NEW S, IsFiniteSet(S), S # {}, NEW R,
         \A x, y, z \in S : <<x, y>> \in R /\ <<y, z>> \in R => <<x, z>> \in R,
         \A x \in S : <<x, x>> \notin R
  PROVE  \E x \in S : \A y \in S : <<y, x>> \notin R
<1> DEFINE Below(x) == {y \in S : <<y, x>> \in R}
           F == {Below(x) : x \in S}
<1>1. \A x \in S : Below(x) \subseteq S /\ IsFiniteSet(Below(x))
  BY FS_Subset
<1>2. PICK x \in S : \A y \in S : ~ (Below(y) \subseteq Below(x) /\ Below(y) # Below(x))
  <2> HIDE DEF Below
  <2>1. F # {} /\ F \subseteq FiniteSubsetsOf(S)
    BY <1>1 DEF FiniteSubsetsOf
  <2>2. \A x \in S : Below(x) \in F
    OBVIOUS
  <2>3. \A A \in F : \E x \in S : A = Below(x)
    OBVIOUS
  <2> HIDE DEF F
  <2>4. PICK A \in F : \A B \in F : ~ (B \subseteq A /\ B # A)
    BY <2>1, MinimalSet
  <2>5. PICK x \in S : A = Below(x)
    BY <2>3
  <2>6. ASSUME NEW y \in S PROVE ~ (Below(y) \subseteq Below(x) /\ Below(y) # Below(x))
    BY <2>2, <2>4, <2>5
  <2>7. QED
    BY <2>6
<1>3. ASSUME NEW y \in S, <<y, x>> \in R PROVE FALSE
  <2>1. Below(y) \subseteq Below(x) /\ y \in Below(x) /\ y \notin Below(y)
    BY <1>3
  <2>2. QED
    BY <1>2, <2>1
<1>4. QED
  BY <1>3

------------------------------------------------------------------------------
(* Receipts.                                                               *)

HasReceipt(d, a) == \E i \in 1..Len(receipts[d]) : receipts[d][i] = a
IsLinked(d, a)   == <<d, WorkflowOf[a]>> \in linkedTo

\* Who is at work on what: a delivered attempt, and only decisions it is linked to.
WorkIsKnown ==
  \A h \in Reporter : reporter[h].phase # "idle" =>
    /\ delivery[reporter[h].attempt] # "none"
    /\ reporter[h].phase = "store" =>
         \A d \in reporter[h].todo : IsLinked(d, reporter[h].attempt)

\* A receipt that is due is there or can still be asked for, is there once the job is
\* done, and while a worker stores the job's receipts is there or on the worker's list.
DueIsSeenTo ==
  /\ \A p \in due :
       /\ HasReceipt(p[1], p[2]) \/ (p[1] \in governs /\ IsLinked(p[1], p[2]))
       /\ delivery[p[2]] = "done" => HasReceipt(p[1], p[2])
  /\ \A h \in Reporter, p \in due : p[2] = reporter[h].attempt =>
       /\ reporter[h].phase = "store" => HasReceipt(p[1], p[2]) \/ p[1] \in reporter[h].todo
       /\ reporter[h].phase = "evaluate" => HasReceipt(p[1], p[2])

\* Decisions are few enough for the limit on rows, and have receipts of linked
\* workflows only.
RowsAreFew ==
  /\ IsFiniteSet(governs)
  /\ \A d \in Linked :
       /\ IsFiniteSet(WorkflowsOf(d)) /\ Cardinality(WorkflowsOf(d)) <= MaxWorkflows
       /\ \A i \in 1..Len(receipts[d]) : IsLinked(d, receipts[d][i])

ReceiptInv == ReceiptTypeOK /\ WorkIsKnown /\ DueIsSeenTo /\ RowsAreFew

\* An idle worker.
LEMMA WaitingIdle ==
  /\ Waiting \in [phase : {"idle", "find", "store", "evaluate"}, attempt : Attempt,
                  todo : SUBSET Linked]
  /\ Waiting.phase = "idle" /\ Waiting.todo = {}
BY ReceiptAssumption DEF Waiting

LEMMA ReceiptStart == ReceiptInit => ReceiptInv
<1> SUFFICES ASSUME ReceiptInit PROVE ReceiptInv
  OBVIOUS
<1> USE DEF ReceiptInit
<1>1. ReceiptTypeOK
  BY WaitingIdle DEF ReceiptTypeOK, IsInjective
<1>2. WorkIsKnown /\ DueIsSeenTo
  BY WaitingIdle DEF WorkIsKnown, DueIsSeenTo
<1>3. RowsAreFew
  <2>1. \A d \in Linked : WorkflowsOf(d) = {} /\ Len(receipts[d]) = 0
    BY DEF WorkflowsOf
  <2>2. IsFiniteSet(governs) /\ \A d \in Linked : IsFiniteSet(WorkflowsOf(d))
    BY <2>1, FS_EmptySet
  <2>3. \A d \in Linked : Cardinality(WorkflowsOf(d)) <= MaxWorkflows
    <3>1. 0 <= MaxWorkflows /\ Cardinality({}) = 0
      BY FS_EmptySet, ReceiptAssumption
    <3>2. QED
      BY <2>1, <3>1
  <2>4. QED
    BY <2>1, <2>2, <2>3 DEF RowsAreFew
<1>4. QED
  BY <1>1, <1>2, <1>3 DEF ReceiptInv

\* Storing a receipt adds it once, at the end.
LEMMA RecordedOnce ==
  ASSUME NEW rows \in Seq(Attempt), IsInjective(rows), NEW a \in Attempt
  PROVE  /\ Recorded(rows, a) \in Seq(Attempt) /\ IsInjective(Recorded(rows, a))
         /\ Len(Recorded(rows, a)) >= Len(rows)
         /\ \A i \in 1..Len(rows) : Recorded(rows, a)[i] = rows[i]
         /\ \E i \in 1..Len(Recorded(rows, a)) : Recorded(rows, a)[i] = a
         /\ \A i \in 1..Len(Recorded(rows, a)) : i \in 1..Len(rows) \/ Recorded(rows, a)[i] = a
<1>1. CASE Contains(rows, a)
  BY <1>1 DEF Recorded, Contains
<1>2. CASE ~Contains(rows, a)
  <2> DEFINE more == Append(rows, a)
  <2>1. /\ more \in Seq(Attempt) /\ Len(more) = Len(rows) + 1 /\ DOMAIN more = 1..(Len(rows) + 1)
        /\ \A i \in 1..Len(rows) : more[i] = rows[i]
        /\ more[Len(rows) + 1] = a
    OBVIOUS
  <2>2. /\ DOMAIN rows = 1..Len(rows) /\ Len(rows) \in Nat
        /\ \A i, j \in 1..Len(rows) : rows[i] = rows[j] => i = j
    BY DEF IsInjective
  <2>3. Recorded(rows, a) = more
    BY <1>2 DEF Recorded
  <2>4. \A i \in 1..Len(rows) : rows[i] # a
    BY <1>2 DEF Contains
  <2> HIDE DEF more
  <2>5. IsInjective(more)
    BY <2>1, <2>2, <2>4 DEF IsInjective
  <2>6. QED
    BY <2>1, <2>2, <2>3, <2>5
<1>3. QED
  BY <1>1, <1>2

\* What a worker's own step leaves of the others.
OnlyReporter(h) ==
  /\ reporter' \in [Reporter -> [phase : {"idle", "find", "store", "evaluate"},
                                 attempt : Attempt, todo : SUBSET Linked]]
  /\ \A q \in Reporter \ {h} : reporter'[q] = reporter[q]

\* What people do takes no receipt away, and no link.
LEMMA PeopleStep ==
  ASSUME ReceiptInv, NEW d \in Linked, NEW w \in Workflow,
         GoLive(d) \/ Close(d) \/ ConfigureVerificationCheck(d, w)
  PROVE  ReceiptInv'
<1> USE DEF ReceiptInv
<1>1. UNCHANGED <<receipts, delivery, reporter>>
  BY DEF GoLive, Close, ConfigureVerificationCheck
<1>2. linkedTo \subseteq linkedTo' /\ due' \subseteq due
  BY DEF GoLive, Close, ConfigureVerificationCheck
<1>3. ReceiptTypeOK'
  BY <1>1 DEF GoLive, Close, ConfigureVerificationCheck, ReceiptTypeOK
<1>4. WorkIsKnown'
  BY <1>1, <1>2 DEF WorkIsKnown, IsLinked
<1>5. ASSUME NEW p \in due'
      PROVE  /\ HasReceipt(p[1], p[2]) \/ (p[1] \in governs' /\ IsLinked(p[1], p[2])')
             /\ delivery[p[2]] = "done" => HasReceipt(p[1], p[2])
  <2>1. p \in due /\ (IsLinked(p[1], p[2]) => IsLinked(p[1], p[2])')
    BY <1>2 DEF IsLinked
  <2>2. CASE Close(d)
    <3>1. p[1] # d \/ delivery[p[2]] = "done"
      BY <2>2 DEF Close
    <3>2. governs' = governs \ {d}
      BY <2>2 DEF Close
    <3>3. QED
      BY <2>1, <3>1, <3>2 DEF DueIsSeenTo
  <2>3. CASE governs \subseteq governs'
    BY <2>1, <2>3 DEF DueIsSeenTo
  <2>4. QED
    BY <2>2, <2>3 DEF GoLive, ConfigureVerificationCheck
<1>6. DueIsSeenTo'
  BY <1>1, <1>2, <1>5 DEF DueIsSeenTo, HasReceipt
<1>7. IsFiniteSet(governs')
  <2>1. governs' \in {governs, governs \cup {d}, governs \ {d}}
    BY DEF GoLive, Close, ConfigureVerificationCheck
  <2>2. QED
    BY <2>1, FS_AddElement, FS_RemoveElement DEF RowsAreFew
<1>8. ASSUME NEW e \in Linked
      PROVE  IsFiniteSet(WorkflowsOf(e)') /\ Cardinality(WorkflowsOf(e)') <= MaxWorkflows
  <2>1. CASE WorkflowsOf(e)' = WorkflowsOf(e)
    BY <2>1 DEF RowsAreFew
  <2>2. CASE ConfigureVerificationCheck(d, w) /\ e = d
    <3>1. WorkflowsOf(e)' = WorkflowsOf(e) \cup {w} /\ w \notin WorkflowsOf(e)
      BY <2>2 DEF ConfigureVerificationCheck, WorkflowsOf
    <3>2. Cardinality(WorkflowsOf(e)) < MaxWorkflows /\ IsFiniteSet(WorkflowsOf(e))
      BY <2>2 DEF ConfigureVerificationCheck, RowsAreFew
    <3>3. Cardinality(WorkflowsOf(e)) \in Nat
      BY <3>2, FS_CardinalityType
    <3>4. /\ IsFiniteSet(WorkflowsOf(e)')
          /\ Cardinality(WorkflowsOf(e)') = Cardinality(WorkflowsOf(e)) + 1
      BY <3>1, <3>2, FS_AddElement
    <3>5. QED
      BY <3>2, <3>3, <3>4, ReceiptAssumption
  <2>3. QED
    BY <2>1, <2>2 DEF GoLive, Close, ConfigureVerificationCheck, WorkflowsOf
<1>9. RowsAreFew'
  BY <1>1, <1>2, <1>7, <1>8 DEF RowsAreFew, IsLinked
<1>10. QED
  BY <1>3, <1>4, <1>6, <1>9

\* A delivery makes receipts due that nobody works on yet.
LEMMA DeliverStep ==
  ASSUME ReceiptInv, NEW a \in Attempt, Deliver(a)
  PROVE  ReceiptInv'
<1> USE DEF ReceiptInv
<1>1. /\ UNCHANGED <<governs, closed, linkedTo, receipts, reporter>>
      /\ delivery[a] = "none" /\ delivery' = [delivery EXCEPT ![a] = "queued"]
      /\ due' = due \cup (FindDecisions(WorkflowOf[a]) \X {a})
  BY DEF Deliver
<1>2. FindDecisions(WorkflowOf[a]) \subseteq governs
  BY DEF FindDecisions
<1>3. ReceiptTypeOK'
  BY <1>1, <1>2 DEF ReceiptTypeOK
<1>4. WorkIsKnown'
  BY <1>1 DEF WorkIsKnown, IsLinked, ReceiptTypeOK
<1>5. \A p \in due' : p \in due \/ (p[2] = a /\ p[1] \in governs /\ IsLinked(p[1], p[2]))
  BY <1>1 DEF FindDecisions, IsLinked
<1>6. DueIsSeenTo'
  <2>1. \A h \in Reporter : reporter[h].phase # "idle" => reporter[h].attempt # a
    BY <1>1 DEF WorkIsKnown
  <2>2. delivery'[a] # "done" /\ \A b : b # a => delivery'[b] = delivery[b]
    BY <1>1 DEF ReceiptTypeOK
  <2>3. \A p \in due' :
          /\ HasReceipt(p[1], p[2]) \/ (p[1] \in governs /\ IsLinked(p[1], p[2]))
          /\ delivery'[p[2]] = "done" => HasReceipt(p[1], p[2])
    BY <1>5, <2>2 DEF DueIsSeenTo
  <2>4. \A h \in Reporter, p \in due' : p[2] = reporter[h].attempt =>
          /\ reporter[h].phase = "store" => HasReceipt(p[1], p[2]) \/ p[1] \in reporter[h].todo
          /\ reporter[h].phase = "evaluate" => HasReceipt(p[1], p[2])
    BY <1>5, <2>1 DEF DueIsSeenTo
  <2>5. QED
    BY <1>1, <2>3, <2>4 DEF DueIsSeenTo, HasReceipt, IsLinked
<1>7. RowsAreFew'
  BY <1>1 DEF RowsAreFew, WorkflowsOf, IsLinked
<1>8. QED
  BY <1>3, <1>4, <1>6, <1>7

\* A worker's step that stores nothing: it may begin, go on, finish or stop.
LEMMA WorkerMoves ==
  ASSUME ReceiptInv, NEW h \in Reporter, OnlyReporter(h),
         UNCHANGED <<governs, closed, linkedTo, receipts, due>>,
         delivery' \in [Attempt -> {"none", "queued", "running", "done", "dead"}],
         \A a \in Attempt : delivery[a] # "none" => delivery'[a] # "none",
         \A p \in due : delivery'[p[2]] = "done" /\ delivery[p[2]] # "done" => HasReceipt(p[1], p[2]),
         reporter'[h].phase # "idle" => delivery'[reporter'[h].attempt] # "none",
         reporter'[h].phase = "store" =>
           /\ \A d \in reporter'[h].todo : IsLinked(d, reporter'[h].attempt)
           /\ \A p \in due : p[2] = reporter'[h].attempt =>
                HasReceipt(p[1], p[2]) \/ p[1] \in reporter'[h].todo,
         reporter'[h].phase = "evaluate" =>
           \A p \in due : p[2] = reporter'[h].attempt => HasReceipt(p[1], p[2])
  PROVE  ReceiptInv'
<1> USE DEF ReceiptInv
<1>1. ReceiptTypeOK'
  BY DEF ReceiptTypeOK, OnlyReporter
<1>2. WorkIsKnown'
  BY DEF WorkIsKnown, OnlyReporter, IsLinked, ReceiptTypeOK
<1>3. DueIsSeenTo'
  BY DEF DueIsSeenTo, OnlyReporter, IsLinked, HasReceipt
<1>4. RowsAreFew'
  BY DEF RowsAreFew, WorkflowsOf, IsLinked
<1>5. QED
  BY <1>1, <1>2, <1>3, <1>4

LEMMA WorkerSteps ==
  ASSUME ReceiptInv, NEW h \in Reporter,
         \/ \E a \in Attempt : Take(h, a)
         \/ Find(h) \/ Stored(h) \/ Finish(h) \/ Fail(h) \/ DieReporting(h)
  PROVE  ReceiptInv'
<1> DEFINE a == reporter[h].attempt
<1>1. /\ reporter[h] \in [phase : {"idle", "find", "store", "evaluate"}, attempt : Attempt,
                          todo : SUBSET Linked]
      /\ delivery \in [Attempt -> {"none", "queued", "running", "done", "dead"}]
      /\ due \subseteq Linked \X Attempt
  BY DEF ReceiptInv, ReceiptTypeOK
<1>2. UNCHANGED <<governs, closed, linkedTo, receipts, due>>
  BY DEF Take, Find, Stored, Finish, Fail, DieReporting
<1>3. ASSUME NEW b \in Attempt, Take(h, b) PROVE ReceiptInv'
  <2>1. OnlyReporter(h) /\ reporter'[h].phase = "find" /\ reporter'[h].attempt = b
    BY <1>3 DEF Take, OnlyReporter, ReceiptInv, ReceiptTypeOK
  <2>2. delivery' = [delivery EXCEPT ![b] = "running"]
    BY <1>3 DEF Take
  <2>3. QED
    BY <1>1, <1>2, <2>1, <2>2, WorkerMoves
<1>4. CASE Find(h)
  <2>1. /\ reporter[h].phase = "find" /\ UNCHANGED delivery
        /\ reporter'[h] = [phase |-> "store", attempt |-> a, todo |-> FindDecisions(WorkflowOf[a])]
    BY <1>1, <1>4 DEF Find, ReceiptInv, ReceiptTypeOK
  <2>2. FindDecisions(WorkflowOf[a]) \subseteq Linked
    BY DEF FindDecisions, ReceiptInv, ReceiptTypeOK
  <2>3. OnlyReporter(h)
    BY <1>1, <1>4, <2>2 DEF Find, OnlyReporter, ReceiptInv, ReceiptTypeOK
  <2>4. \A d \in FindDecisions(WorkflowOf[a]) : IsLinked(d, a)
    BY DEF FindDecisions, IsLinked
  <2>5. \A p \in due : p[2] = a => HasReceipt(p[1], p[2]) \/ p[1] \in FindDecisions(WorkflowOf[a])
    BY DEF ReceiptInv, DueIsSeenTo, FindDecisions, IsLinked
  <2>6. delivery[a] # "none"
    BY <2>1 DEF ReceiptInv, WorkIsKnown
  <2>7. QED
    BY <1>1, <1>2, <2>1, <2>3, <2>4, <2>5, <2>6, WorkerMoves
<1>5. CASE Stored(h)
  <2>1. /\ reporter[h].phase = "store" /\ reporter[h].todo = {} /\ UNCHANGED delivery
        /\ reporter'[h] = [phase |-> "evaluate", attempt |-> a, todo |-> {}]
    BY <1>1, <1>5 DEF Stored, ReceiptInv, ReceiptTypeOK
  <2>2. OnlyReporter(h)
    BY <1>1, <1>5 DEF Stored, OnlyReporter, ReceiptInv, ReceiptTypeOK
  <2>3. \A p \in due : p[2] = a => HasReceipt(p[1], p[2])
    BY <2>1 DEF ReceiptInv, DueIsSeenTo
  <2>4. delivery[a] # "none"
    BY <2>1 DEF ReceiptInv, WorkIsKnown
  <2>5. QED
    BY <1>1, <1>2, <2>1, <2>2, <2>3, <2>4, WorkerMoves
<1>6. CASE Finish(h) \/ Fail(h) \/ DieReporting(h)
  <2>1. OnlyReporter(h) /\ reporter'[h].phase = "idle"
    BY <1>6, WaitingIdle DEF Finish, Fail, DieReporting, OnlyReporter, ReceiptInv, ReceiptTypeOK
  <2>2. /\ reporter[h].phase # "idle"
        /\ \/ \E s \in {"queued", "dead"} : delivery' = [delivery EXCEPT ![a] = s]
           \/ reporter[h].phase = "evaluate" /\ delivery' = [delivery EXCEPT ![a] = "done"]
           \/ UNCHANGED delivery
    BY <1>6 DEF Finish, Fail, DieReporting
  <2>3. reporter[h].phase = "evaluate" => \A p \in due : p[2] = a => HasReceipt(p[1], p[2])
    BY DEF ReceiptInv, DueIsSeenTo
  <2>4. /\ delivery' \in [Attempt -> {"none", "queued", "running", "done", "dead"}]
        /\ \A b \in Attempt : delivery[b] # "none" => delivery'[b] # "none"
    BY <1>1, <2>2
  <2>5. \A p \in due : delivery'[p[2]] = "done" /\ delivery[p[2]] # "done" => HasReceipt(p[1], p[2])
    BY <1>1, <2>2, <2>3
  <2>6. QED
    BY <1>2, <2>1, <2>4, <2>5, WorkerMoves
<1>7. QED
  BY <1>3, <1>4, <1>5, <1>6

\* A receipt is stored, whoever else is at it.
LEMMA RecordKeeps ==
  ASSUME ReceiptInv, NEW h \in Reporter, NEW d \in Linked, RecordVerificationRun(h, d)
  PROVE  ReceiptInv'
<1>1. /\ reporter[h] \in [phase : {"idle", "find", "store", "evaluate"}, attempt : Attempt,
                          todo : SUBSET Linked]
      /\ receipts \in [Linked -> Seq(Attempt)] /\ IsInjective(receipts[d])
      /\ due \subseteq Linked \X Attempt
  BY DEF ReceiptInv, ReceiptTypeOK
<1>a. PICK a \in Attempt : a = reporter[h].attempt
  BY <1>1
<1>2. /\ reporter[h].phase = "store" /\ d \in reporter[h].todo
      /\ receipts' = [receipts EXCEPT ![d] = Recorded(receipts[d], a)]
      /\ UNCHANGED <<governs, closed, linkedTo, delivery, due>>
  BY <1>a DEF RecordVerificationRun
<1>3. /\ OnlyReporter(h)
      /\ reporter'[h] = [phase |-> "store", attempt |-> a, todo |-> reporter[h].todo \ {d}]
  <2>1. reporter' = [reporter EXCEPT ![h].todo = reporter[h].todo \ {d}]
    BY DEF RecordVerificationRun
  <2>2. QED
    BY <1>1, <1>a, <1>2, <2>1 DEF OnlyReporter, ReceiptInv, ReceiptTypeOK
<1> DEFINE rows == Recorded(receipts[d], a)
<1>4. /\ rows \in Seq(Attempt) /\ IsInjective(rows) /\ Len(rows) >= Len(receipts[d])
      /\ \A i \in 1..Len(receipts[d]) : rows[i] = receipts[d][i]
      /\ \E i \in 1..Len(rows) : rows[i] = a
      /\ \A i \in 1..Len(rows) : i \in 1..Len(receipts[d]) \/ rows[i] = a
  BY <1>1, RecordedOnce
<1> HIDE DEF rows
<1>5. receipts' \in [Linked -> Seq(Attempt)] /\ receipts'[d] = rows
      /\ \A e \in Linked \ {d} : receipts'[e] = receipts[e]
  BY <1>1, <1>2, <1>4 DEF rows
<1>6. ReceiptTypeOK'
  BY <1>2, <1>3, <1>4, <1>5 DEF ReceiptInv, ReceiptTypeOK, OnlyReporter
<1>7. WorkIsKnown'
  BY <1>a, <1>2, <1>3 DEF ReceiptInv, WorkIsKnown, OnlyReporter, IsLinked
<1>8. /\ \A e \in Linked, b \in Attempt : HasReceipt(e, b) => HasReceipt(e, b)'
      /\ HasReceipt(d, a)'
  <2>1. Len(receipts[d]) \in Nat /\ Len(rows) \in Nat
    BY <1>1, <1>4
  <2>2. HasReceipt(d, a)'
    BY <1>4, <1>5 DEF HasReceipt
  <2>3. ASSUME NEW e \in Linked, NEW b \in Attempt, HasReceipt(e, b) PROVE HasReceipt(e, b)'
    <3>1. PICK i \in 1..Len(receipts[e]) : receipts[e][i] = b
      BY <2>3 DEF HasReceipt
    <3>2. CASE e = d
      <4>1. i \in 1..Len(rows) /\ rows[i] = b
        BY <1>4, <2>1, <3>1, <3>2
      <4>2. QED
        BY <1>5, <3>2, <4>1 DEF HasReceipt
    <3>3. CASE e # d
      BY <1>5, <3>1, <3>3 DEF HasReceipt
    <3>4. QED
      BY <3>2, <3>3
  <2>4. QED
    BY <2>2, <2>3
<1>9. DueIsSeenTo'
  <2>1. \A p \in due :
          /\ p[1] \in Linked /\ p[2] \in Attempt /\ (HasReceipt(p[1], p[2]) => HasReceipt(p[1], p[2])')
          /\ p[1] = d /\ p[2] = a => HasReceipt(p[1], p[2])'
    BY <1>1, <1>8
  <2>2. \A p \in due : (IsLinked(p[1], p[2]) => IsLinked(p[1], p[2])')
    BY <1>2 DEF IsLinked
  <2>3. \A p \in due' :
          /\ HasReceipt(p[1], p[2])' \/ (p[1] \in governs' /\ IsLinked(p[1], p[2])')
          /\ delivery'[p[2]] = "done" => HasReceipt(p[1], p[2])'
    BY <1>2, <2>1, <2>2 DEF ReceiptInv, DueIsSeenTo
  <2>4. ASSUME NEW q \in Reporter, NEW p \in due', p[2] = reporter'[q].attempt
        PROVE  /\ reporter'[q].phase = "store" => HasReceipt(p[1], p[2])' \/ p[1] \in reporter'[q].todo
               /\ reporter'[q].phase = "evaluate" => HasReceipt(p[1], p[2])'
    <3>1. CASE q = h
      BY <1>2, <1>3, <2>1, <2>4, <3>1, <1>a DEF ReceiptInv, DueIsSeenTo
    <3>2. CASE q # h
      <4>1. reporter'[q] = reporter[q]
        BY <1>3, <3>2 DEF OnlyReporter
      <4>2. QED
        BY <1>2, <2>1, <2>4, <4>1 DEF ReceiptInv, DueIsSeenTo
    <3>3. QED
      BY <3>1, <3>2
  <2>5. QED
    BY <2>3, <2>4 DEF DueIsSeenTo
<1>10. RowsAreFew'
  <2>1. IsLinked(d, a)
    BY <1>2, <1>a DEF ReceiptInv, WorkIsKnown
  <2>2. \A e \in Linked : \A i \in 1..Len(receipts'[e]) : <<e, WorkflowOf[receipts'[e][i]]>> \in linkedTo
    BY <1>4, <1>5, <2>1 DEF ReceiptInv, RowsAreFew, IsLinked
  <2>3. QED
    BY <1>2, <2>2 DEF ReceiptInv, RowsAreFew, WorkflowsOf, IsLinked
<1>11. QED
  BY <1>6, <1>7, <1>9, <1>10 DEF ReceiptInv

LEMMA ReceiptStep == ReceiptInv /\ [ReceiptNext]_receiptVars => ReceiptInv'
<1> SUFFICES ASSUME ReceiptInv, [ReceiptNext]_receiptVars PROVE ReceiptInv'
  OBVIOUS
<1>1. CASE UNCHANGED receiptVars
  <2>1. ReceiptTypeOK' /\ WorkIsKnown'
    BY <1>1 DEF receiptVars, ReceiptInv, ReceiptTypeOK, WorkIsKnown, IsLinked
  <2>2. DueIsSeenTo' /\ RowsAreFew'
    BY <1>1 DEF receiptVars, ReceiptInv, DueIsSeenTo, RowsAreFew, WorkflowsOf, IsLinked, HasReceipt
  <2>3. QED
    BY <2>1, <2>2 DEF ReceiptInv
<1>2. ASSUME NEW d \in Linked, GoLive(d) \/ Close(d) PROVE ReceiptInv'
  <2>1. CASE Workflow # {}
    BY <1>2, <2>1, PeopleStep
  <2>2. Workflow # {}
    BY ReceiptAssumption
  <2>3. QED
    BY <2>1, <2>2
<1>3. QED
  BY <1>1, <1>2, PeopleStep, DeliverStep, WorkerSteps, RecordKeeps DEF ReceiptNext

\* The inductive invariant of recording workflow runs (the github_event job,
\* github/src/index.ts) for any decisions, workflows and attempts and any workers, which
\* may die between two statements.
THEOREM ReceiptInvariant == ReceiptSpec => []ReceiptInv
  BY ReceiptStart, ReceiptStep, PTL DEF ReceiptSpec

------------------------------------------------------------------------------
(* What is shown.                                                          *)

\* The rows of a decision that are of one workflow.
Rows(d, w) == {i \in 1..Len(receipts[d]) : WorkflowOf[receipts[d][i]] = w}

\* Among a decision's rows of a workflow, one ranks before all others.
LEMMA LatestExists ==
  ASSUME ReceiptTypeOK, NEW d \in Linked, NEW w, Rows(d, w) # {}
  PROVE  \E i \in Rows(d, w) : \A j \in Rows(d, w) : ~Before(d, j, d, i)
<1> DEFINE S == Rows(d, w)
           R == {x \in S \X S : Before(d, x[1], d, x[2])}
<1>1. S \subseteq Int /\ \A i \in S : receipts[d][i] \in Attempt /\ CompletedAt[receipts[d][i]] \in Int
  BY ReceiptAssumption DEF ReceiptTypeOK, Rows
<1>2. IsFiniteSet(S)
  <2>1. Len(receipts[d]) \in Int /\ 1 \in Int
    BY DEF ReceiptTypeOK
  <2>2. IsFiniteSet(1..Len(receipts[d]))
    BY <2>1, FS_Interval
  <2>3. QED
    BY <2>2, FS_Subset DEF Rows
<1>3. \A x, y \in S : <<x, y>> \in R <=> Before(d, x, d, y)
  OBVIOUS
<1> HIDE DEF S, R
<1>4. \A x, y, z \in S : Before(d, x, d, y) /\ Before(d, y, d, z) => Before(d, x, d, z)
  BY <1>1 DEF Before
<1>5. \A x \in S : ~Before(d, x, d, x)
  BY <1>1 DEF Before
<1>6. \A x, y, z \in S : <<x, y>> \in R /\ <<y, z>> \in R => <<x, z>> \in R
  BY <1>3, <1>4
<1>7. \A x \in S : <<x, x>> \notin R
  BY <1>3, <1>5
<1>8. S # {}
  BY DEF S
<1>9. PICK i \in S : \A j \in S : <<j, i>> \notin R
  BY <1>2, <1>6, <1>7, <1>8, FirstExists
<1>10. QED
  BY <1>3, <1>9 DEF S

\* A decision's linked workflows can be numbered.
LEMMA WorkflowsNumbered ==
  ASSUME ReceiptInv, NEW d \in Linked
  PROVE  \E f : /\ f \in [WorkflowsOf(d) -> 1..MaxWorkflows]
                /\ \A v, w \in WorkflowsOf(d) : f[v] = f[w] => v = w
<1> DEFINE W == WorkflowsOf(d)
           n == Cardinality(W)
<1>1. IsFiniteSet(W) /\ n <= MaxWorkflows
  BY DEF ReceiptInv, RowsAreFew
<1>2. n \in Nat /\ ExistsBijection(1..n, W)
  BY <1>1, FS_CardinalityType
<1> HIDE DEF W
<1>3. PICK g \in [1..n -> W] : \A w \in W : \E i \in 1..n : g[i] = w
  BY <1>2 DEF ExistsBijection, Bijection, Surjection
<1> DEFINE f == [w \in W |-> CHOOSE i \in 1..n : g[i] = w]
<1>4. \A w \in W : f[w] \in 1..n /\ g[f[w]] = w
  BY <1>3
<1>5. f \in [W -> 1..n]
  BY <1>4
<1>6. 1..n \subseteq 1..MaxWorkflows
  BY <1>1, <1>2, ReceiptAssumption
<1> HIDE DEF f
<1>7. f \in [W -> 1..MaxWorkflows] /\ \A v, w \in W : f[v] = f[w] => v = w
  BY <1>4, <1>5, <1>6
<1>8. QED
  BY <1>7 DEF W

\* So few rows rank first that the limit takes none away.
LEMMA FirstRowsAreFew ==
  ASSUME ReceiptInv, NEW D \in SUBSET governs
  PROVE  /\ IsFiniteSet(RankOne(D))
         /\ Cardinality(RankOne(D)) <= RowLimit(D)
<1> DEFINE numbering(d) == CHOOSE f :
             /\ f \in [WorkflowsOf(d) -> 1..MaxWorkflows]
             /\ \A v, w \in WorkflowsOf(d) : f[v] = f[w] => v = w
           wf(r)  == WorkflowOf[receipts[r[1]][r[2]]]
           place(r) == <<r[1], numbering(r[1])[wf(r)]>>
           T == D \X (1..MaxWorkflows)
<1>1. D \subseteq Linked /\ IsFiniteSet(D)
  BY FS_Subset DEF ReceiptInv, ReceiptTypeOK, RowsAreFew
<1>2. \A d \in D : /\ numbering(d) \in [WorkflowsOf(d) -> 1..MaxWorkflows]
                   /\ \A v, w \in WorkflowsOf(d) : numbering(d)[v] = numbering(d)[w] => v = w
  BY <1>1, WorkflowsNumbered
<1> HIDE DEF numbering
<1>3. \A r \in RankOne(D) : /\ r = <<r[1], r[2]>> /\ r[1] \in D /\ r[2] \in 1..Len(receipts[r[1]])
                            /\ wf(r) \in WorkflowsOf(r[1])
  <2>1. ASSUME NEW r \in RankOne(D)
        PROVE  /\ r = <<r[1], r[2]>> /\ r[1] \in D /\ r[2] \in 1..Len(receipts[r[1]])
               /\ wf(r) \in WorkflowsOf(r[1])
    <3>1. r = <<r[1], r[2]>> /\ r[1] \in D /\ r[2] \in 1..Len(receipts[r[1]])
      BY DEF RankOne
    <3>2. <<r[1], wf(r)>> \in linkedTo
      BY <1>1, <3>1 DEF ReceiptInv, RowsAreFew, IsLinked
    <3>3. wf(r) \in WorkflowsOf(r[1])
      BY <3>2 DEF WorkflowsOf, ReceiptInv, ReceiptTypeOK
    <3>4. QED
      BY <3>1, <3>3
  <2>2. QED
    BY <2>1
<1>4. \A r, q \in RankOne(D) : r[1] = q[1] /\ wf(r) = wf(q) => r = q
  <2>1. ASSUME NEW r \in RankOne(D), NEW q \in RankOne(D), r[1] = q[1], wf(r) = wf(q)
        PROVE  r = q
    <3>1. ~Before(r[1], q[2], r[1], r[2]) /\ ~Before(r[1], r[2], r[1], q[2])
      BY <1>3, <2>1 DEF RankOne
    <3>2. /\ CompletedAt[receipts[r[1]][r[2]]] \in Int /\ CompletedAt[receipts[r[1]][q[2]]] \in Int
          /\ r[2] \in Int /\ q[2] \in Int
      BY <1>1, <1>3, <2>1, ReceiptAssumption DEF ReceiptInv, ReceiptTypeOK
    <3>3. r[2] = q[2]
      BY <3>1, <3>2 DEF Before
    <3>4. QED
      BY <1>3, <2>1, <3>3
  <2>2. QED
    BY <2>1
<1>5. \A r \in RankOne(D) : place(r) \in T
  BY <1>2, <1>3
<1>6. \A r, q \in RankOne(D) : place(r) = place(q) => r = q
  <2>1. ASSUME NEW r \in RankOne(D), NEW q \in RankOne(D), place(r) = place(q)
        PROVE  r = q
    <3>1. r[1] = q[1] /\ numbering(r[1])[wf(r)] = numbering(r[1])[wf(q)]
      BY <2>1
    <3>2. wf(r) = wf(q)
      BY <1>2, <1>3, <3>1
    <3>3. QED
      BY <1>4, <3>1, <3>2
  <2>2. QED
    BY <2>1
<1>7. IsFiniteSet(T) /\ Cardinality(T) = RowLimit(D)
  <2>1. 1 \in Int /\ MaxWorkflows \in Int
    BY ReceiptAssumption
  <2>2. IsFiniteSet(1..MaxWorkflows) /\ Cardinality(1..MaxWorkflows) = MaxWorkflows
    BY <2>1, FS_Interval, ReceiptAssumption
  <2>3. QED
    BY <1>1, <2>2, FS_Product DEF RowLimit
<1> HIDE DEF T, place
<1>8. [r \in RankOne(D) |-> place(r)] \in Injection(RankOne(D), T)
  BY <1>5, <1>6 DEF Injection, IsInjective
<1>9. QED
  BY <1>7, <1>8, FS_Injection

\* Whatever ranks first is shown.
LEMMA FirstRowsAreShown ==
  ASSUME ReceiptInv, NEW D \in SUBSET governs, NEW r \in RankOne(D)
  PROVE  r \in Shown(D)
<1> DEFINE Ahead == {q \in RankOne(D) : Before(q[1], q[2], r[1], r[2])}
<1>1. r \notin Ahead
  <2>1. r[1] \in Linked /\ r[2] \in 1..Len(receipts[r[1]])
    BY DEF RankOne, ReceiptInv, ReceiptTypeOK
  <2>2. CompletedAt[receipts[r[1]][r[2]]] \in Int /\ r[2] \in Int
    BY <2>1, ReceiptAssumption DEF ReceiptInv, ReceiptTypeOK
  <2>3. QED
    BY <2>2 DEF Before
<1>2. IsFiniteSet(RankOne(D)) /\ Cardinality(RankOne(D)) <= RowLimit(D)
  BY FirstRowsAreFew
<1>3. Ahead \in SUBSET RankOne(D) /\ Ahead # RankOne(D)
  BY <1>1
<1> HIDE DEF Ahead
<1>4. IsFiniteSet(Ahead) /\ Cardinality(Ahead) <= Cardinality(RankOne(D))
      /\ Cardinality(Ahead) # Cardinality(RankOne(D))
  BY <1>2, <1>3, FS_Subset
<1>5. Cardinality(Ahead) \in Nat /\ Cardinality(RankOne(D)) \in Nat
  BY <1>2, <1>4, FS_CardinalityType
<1>6. RowLimit(D) \in Nat
  <2>1. IsFiniteSet(D)
    BY FS_Subset DEF ReceiptInv, RowsAreFew
  <2>2. Cardinality(D) \in Nat
    BY <2>1, FS_CardinalityType
  <2>3. QED
    BY <2>2, ReceiptAssumption DEF RowLimit
<1>7. Cardinality(Ahead) < RowLimit(D)
  BY <1>2, <1>4, <1>5, <1>6
<1>8. QED
  BY <1>7 DEF Shown, Ahead

\* An agent is shown, for every workflow, a receipt no older than any that is due and
\* whose job is done: the limit of listVerificationRuns (storage-sql/store.ts) never
\* cuts off the latest.
THEOREM LatestShown == ReceiptSpec => []LatestReceiptShown
<1>1. ReceiptInv => LatestReceiptShown
  <2> SUFFICES ASSUME ReceiptInv, NEW D \in SUBSET governs, NEW p \in due,
                      p[1] \in D, delivery[p[2]] = "done"
               PROVE  \E r \in Shown(D) :
                        LET a == receipts[r[1]][r[2]]
                        IN /\ r[1] = p[1] /\ WorkflowOf[a] = WorkflowOf[p[2]]
                           /\ CompletedAt[a] >= CompletedAt[p[2]]
    BY DEF LatestReceiptShown
  <2> DEFINE d == p[1]
             w == WorkflowOf[p[2]]
  <2>1. d \in Linked /\ p[2] \in Attempt
    BY DEF ReceiptInv, ReceiptTypeOK
  <2>2. PICK k \in 1..Len(receipts[d]) : receipts[d][k] = p[2]
    BY DEF ReceiptInv, DueIsSeenTo, HasReceipt
  <2>3. k \in Rows(d, w)
    BY <2>2 DEF Rows
  <2>4. PICK i \in Rows(d, w) : \A j \in Rows(d, w) : ~Before(d, j, d, i)
    BY <2>1, <2>3, LatestExists DEF ReceiptInv
  <2>5. <<d, i>> \in RankOne(D)
    BY <2>4 DEF RankOne, Rows
  <2>6. <<d, i>> \in Shown(D)
    BY <2>5, FirstRowsAreShown
  <2>7. CompletedAt[receipts[d][i]] >= CompletedAt[p[2]]
    <3>1. receipts[d][i] \in Attempt
      BY <2>1, <2>4 DEF Rows, ReceiptInv, ReceiptTypeOK
    <3>2. CompletedAt[receipts[d][i]] \in Int /\ CompletedAt[p[2]] \in Int
      BY <2>1, <3>1, ReceiptAssumption
    <3>3. ~(CompletedAt[receipts[d][k]] > CompletedAt[receipts[d][i]])
      BY <2>3, <2>4 DEF Before
    <3>4. QED
      BY <2>2, <3>2, <3>3
  <2>8. WorkflowOf[receipts[d][i]] = w
    BY <2>4 DEF Rows
  <2>9. QED
    BY <2>6, <2>7, <2>8
<1>2. QED
  BY <1>1, ReceiptInvariant, PTL

------------------------------------------------------------------------------
(* Facts.                                                                  *)

IsVersion(v) == v.parts \in Seq(Nat) /\ v.prerelease \in Nat

LEMMA PartIsNatural ==
  ASSUME NEW v, IsVersion(v), NEW i \in Nat \ {0}
  PROVE  Part(v, i) \in Nat
<1>1. v.parts \in Seq(Nat) /\ Len(v.parts) \in Nat
  BY DEF IsVersion
<1>2. CASE i <= Len(v.parts)
  <2>1. i \in 1..Len(v.parts)
    BY <1>1, <1>2
  <2>2. QED
    BY <1>1, <1>2, <2>1 DEF Part
<1>3. CASE ~(i <= Len(v.parts))
  BY <1>3 DEF Part
<1>4. QED
  BY <1>2, <1>3

\* compareVersions (assumptions/model.ts) finds the first place at which two versions
\* differ, and its sign is what the reference says of their precedence.
THEOREM ComparesVersions ==
  ASSUME NEW v, NEW w, IsVersion(v), IsVersion(w)
  PROVE  /\ CompareVersions(v, w) \in Int
         /\ CompareVersions(v, w) < 0 <=> VersionBefore(v, w)
         /\ CompareVersions(v, w) > 0 <=> VersionBefore(w, v)
<1> DEFINE m == Len(v.parts)
           n == Len(w.parts)
           last == IF m > n THEN m ELSE n
           Same(k) == \A i \in 1..k : Part(v, i) = Part(w, i)
           diffs == {i \in 1..last : Part(v, i) # Part(w, i)}
           first == CHOOSE i \in diffs : \A j \in diffs : i <= j
<1>1. m \in Nat /\ n \in Nat /\ v.prerelease \in Nat /\ w.prerelease \in Nat
  BY DEF IsVersion
<1>2. \A i \in 1..(m + n) : Part(v, i) \in Nat /\ Part(w, i) \in Nat
  BY <1>1, PartIsNatural
<1>3. \A i \in 1..(m + n) : i \notin 1..last => Part(v, i) = Part(w, i)
  BY <1>1 DEF Part
<1> HIDE DEF m, n
<1>4. last \in Nat /\ last <= m + n
  BY <1>1
<1>5. /\ VersionBefore(v, w) <=>
           \/ \E k \in 1..(m + n) : Same(k - 1) /\ Part(v, k) < Part(w, k)
           \/ Same(m + n) /\ v.prerelease > 0 /\ (w.prerelease = 0 \/ v.prerelease < w.prerelease)
      /\ VersionBefore(w, v) <=>
           \/ \E k \in 1..(m + n) : Same(k - 1) /\ Part(w, k) < Part(v, k)
           \/ Same(m + n) /\ w.prerelease > 0 /\ (v.prerelease = 0 \/ w.prerelease < v.prerelease)
  <2>1. m + n = n + m
    BY <1>1
  <2>2. \A k : Same(k) <=> \A i \in 1..k : Part(w, i) = Part(v, i)
    OBVIOUS
  <2>3. QED
    BY <2>1, <2>2 DEF VersionBefore, m, n
<1>6. CompareVersions(v, w) =
        IF diffs # {} THEN Sign(Part(v, first) - Part(w, first))
        ELSE IF v.prerelease = 0 \/ w.prerelease = 0 THEN Sign(w.prerelease) - Sign(v.prerelease)
        ELSE Sign(v.prerelease - w.prerelease)
  BY DEF CompareVersions, m, n
<1>7. CASE diffs # {}
  <2>1. first \in diffs /\ \A j \in diffs : first <= j
    <3>1. diffs \subseteq Nat
      OBVIOUS
    <3> HIDE DEF diffs
    <3>2. \E i \in diffs : \A j \in diffs : i <= j
      BY <1>7, <3>1, LeastNatural
    <3>3. QED
      BY <3>2
  <2> HIDE DEF first
  <2>2. /\ first \in 1..(m + n) /\ Part(v, first) # Part(w, first)
        /\ \A i \in 1..(m + n) : i < first => Part(v, i) = Part(w, i)
    <3>1. first \in 1..last /\ Part(v, first) # Part(w, first)
      BY <2>1
    <3>2. first \in 1..(m + n)
      BY <1>1, <1>4, <3>1
    <3>3. ASSUME NEW i \in 1..(m + n), i < first PROVE Part(v, i) = Part(w, i)
      <4>1. i \notin diffs
        BY <1>1, <2>1, <3>2, <3>3
      <4>2. CASE i \in 1..last
        BY <4>1, <4>2
      <4>3. CASE i \notin 1..last
        BY <1>3, <4>3
      <4>4. QED
        BY <4>2, <4>3
    <3>4. QED
      BY <3>1, <3>2, <3>3
  <2> HIDE DEF diffs
  <2>3. ~Same(m + n) /\ Same(first - 1)
    BY <1>1, <2>2
  <2>4. \A k \in 1..(m + n) : Same(k - 1) /\ Part(v, k) # Part(w, k) => k = first
    <3>1. ASSUME NEW k \in 1..(m + n), Same(k - 1), Part(v, k) # Part(w, k), k # first PROVE FALSE
      <4>1. first < k
        BY <1>1, <2>2, <3>1
      <4>2. first \in 1..(k - 1)
        BY <1>1, <2>2, <4>1
      <4>3. QED
        BY <2>2, <3>1, <4>2
    <3>2. QED
      BY <3>1
  <2> DEFINE x == Part(v, first)
             y == Part(w, first)
  <2>5. x \in Nat /\ y \in Nat /\ \A i \in 1..(m + n) : Part(v, i) \in Nat /\ Part(w, i) \in Nat
    BY <1>2, <2>2
  <2>6. /\ VersionBefore(v, w) <=> x < y
        /\ VersionBefore(w, v) <=> y < x
    <3>1. \A k \in 1..(m + n) : Part(v, k) < Part(w, k) \/ Part(w, k) < Part(v, k) => Part(v, k) # Part(w, k)
      BY <2>5
    <3> HIDE DEF Same
    <3>2. QED
      BY <1>5, <2>2, <2>3, <2>4, <3>1
  <2>7. CompareVersions(v, w) = Sign(x - y)
    BY <1>6, <1>7
  <2> HIDE DEF x, y
  <2>8. QED
    BY <2>5, <2>6, <2>7 DEF Sign
<1>8. CASE diffs = {}
  <2>1. Same(m + n) /\ \A k \in 1..(m + n) : Part(v, k) = Part(w, k)
    BY <1>3, <1>8
  <2>2. /\ VersionBefore(v, w) <=>
             v.prerelease > 0 /\ (w.prerelease = 0 \/ v.prerelease < w.prerelease)
        /\ VersionBefore(w, v) <=>
             w.prerelease > 0 /\ (v.prerelease = 0 \/ w.prerelease < v.prerelease)
    BY <1>2, <1>5, <2>1
  <2>3. CompareVersions(v, w) =
          IF v.prerelease = 0 \/ w.prerelease = 0 THEN Sign(w.prerelease) - Sign(v.prerelease)
          ELSE Sign(v.prerelease - w.prerelease)
    BY <1>6, <1>8
  <2>4. QED
    BY <1>1, <2>2, <2>3 DEF Sign
<1>9. QED
  BY <1>7, <1>8

\* Whatever can be compared is compared right: the code's comparison of every type and
\* operator agrees with what the assumption says of the world.
THEOREM HoldsMeansSatisfies ==
  ASSUME NEW a \in AssumptionSpec, WellFormed(a), NEW f \in Fact, Comparable(a, f)
  PROVE  Holds(a, f.value) <=> Satisfies(a, f.value)
<1> DEFINE v == f.value
           e == a.expected
           op == a.operator
<1>1. /\ v \in Value /\ e \in Value
      /\ a.valueType \in {"NUMBER", "BOOLEAN", "CATEGORY", "DATE", "VERSION", "SET"}
      /\ op \in OperatorsByType[a.valueType] /\ ExpectedShape(a) /\ Decidable(a, v)
  BY JudgmentAssumption DEF Comparable, Applicable, WellFormed, OperatorsByType
<1>2. ASSUME NEW x, NEW y, NEW cmp \in Int, op \in Comparisons,
             cmp < 0 <=> Less(a, x, y), cmp > 0 <=> Less(a, y, x), x = v.is, y = e.is,
             a.valueType \in {"NUMBER", "DATE", "VERSION"}
      PROVE  Ordered(op, cmp) <=> Satisfies(a, v)
  <2>1. Satisfies(a, v) <=>
          \/ op \in {"<", "<=", "!="} /\ Less(a, x, y)
          \/ op \in {">", ">=", "!="} /\ Less(a, y, x)
          \/ op \in {"<=", ">=", "="} /\ ~Less(a, x, y) /\ ~Less(a, y, x)
    BY <1>2 DEF Satisfies, Comparisons
  <2>2. op \in {"<", "<=", ">", ">=", "=", "!="}
    BY <1>2 DEF Comparisons
  <2> HIDE DEF op
  <2>3. CASE op = "<"
    BY <1>2, <2>1, <2>3 DEF Ordered
  <2>4. CASE op = "<="
    BY <1>2, <2>1, <2>4 DEF Ordered
  <2>5. CASE op = ">"
    BY <1>2, <2>1, <2>5 DEF Ordered
  <2>6. CASE op = ">="
    BY <1>2, <2>1, <2>6 DEF Ordered
  <2>7. CASE op = "="
    BY <1>2, <2>1, <2>7 DEF Ordered
  <2>8. CASE op = "!="
    BY <1>2, <2>1, <2>8 DEF Ordered
  <2>9. QED
    BY <2>2, <2>3, <2>4, <2>5, <2>6, <2>7, <2>8
<1>3. CASE a.valueType = "NUMBER"
  <2>1. v.is \in Int /\ e.is \in Int /\ op \in Comparisons
    BY <1>1, <1>3, JudgmentAssumption DEF Value, Decidable, ExpectedShape, OperatorsByType
  <2>2. Sign(v.is - e.is) \in Int /\ (Sign(v.is - e.is) < 0 <=> Less(a, v.is, e.is))
        /\ (Sign(v.is - e.is) > 0 <=> Less(a, e.is, v.is))
    BY <1>3, <2>1 DEF Sign, Less
  <2>3. Holds(a, v) = Ordered(op, Sign(v.is - e.is))
    BY <1>3 DEF Holds
  <2>4. QED
    BY <1>2, <1>3, <2>1, <2>2, <2>3
<1>4. CASE a.valueType = "DATE"
  <2>1. DateOf[v.is] \in Int /\ DateOf[e.is] \in Int /\ op \in Comparisons
    BY <1>1, <1>4, JudgmentAssumption DEF Decidable, ExpectedShape, OperatorsByType
  <2>2. /\ Sign(DateOf[v.is] - DateOf[e.is]) \in Int
        /\ Sign(DateOf[v.is] - DateOf[e.is]) < 0 <=> Less(a, v.is, e.is)
        /\ Sign(DateOf[v.is] - DateOf[e.is]) > 0 <=> Less(a, e.is, v.is)
    BY <1>4, <2>1 DEF Sign, Less
  <2>3. Holds(a, v) = Ordered(op, Sign(DateOf[v.is] - DateOf[e.is]))
    BY <1>4 DEF Holds
  <2>4. QED
    BY <1>2, <1>4, <2>1, <2>2, <2>3
<1>5. CASE a.valueType = "VERSION"
  <2>1. IsVersion(VersionOf[v.is]) /\ IsVersion(VersionOf[e.is]) /\ op \in Comparisons
    BY <1>1, <1>5, JudgmentAssumption DEF IsVersion, Decidable, ExpectedShape, OperatorsByType
  <2>2. /\ CompareVersions(VersionOf[v.is], VersionOf[e.is]) \in Int
        /\ CompareVersions(VersionOf[v.is], VersionOf[e.is]) < 0 <=> Less(a, v.is, e.is)
        /\ CompareVersions(VersionOf[v.is], VersionOf[e.is]) > 0 <=> Less(a, e.is, v.is)
    BY <1>5, <2>1, ComparesVersions DEF Less
  <2>3. Holds(a, v) = Ordered(op, CompareVersions(VersionOf[v.is], VersionOf[e.is]))
    BY <1>5 DEF Holds
  <2>4. QED
    BY <1>2, <1>5, <2>1, <2>2, <2>3
<1>6. CASE a.valueType = "BOOLEAN"
  <2>1. v.kind = "boolean" /\ e.kind = "boolean" /\ op \in {"=", "!="}
    BY <1>1, <1>6 DEF Decidable, ExpectedShape, OperatorsByType
  <2>2. (v = e) <=> v.is = e.is
    BY <1>1, <2>1 DEF Value
  <2>3. QED
    BY <1>6, <2>1, <2>2 DEF Holds, Satisfies
<1>7. CASE a.valueType = "CATEGORY"
  <2>1. /\ v.kind = "text" /\ op \in {"=", "!=", "IN", "NOT_IN"}
        /\ e.kind = IF op \in {"IN", "NOT_IN"} THEN "list" ELSE "text"
    BY <1>1, <1>7 DEF Decidable, ExpectedShape, OperatorsByType
  <2>2. CASE op \in {"IN", "NOT_IN"}
    <3>1. Holds(a, v) <=> (op = "IN" <=> v.is \in e.is)
      BY <1>7, <2>1, <2>2 DEF Holds
    <3>2. ASSUME op = "IN" PROVE Satisfies(a, v) <=> v.is \in e.is
      BY <3>2 DEF Satisfies
    <3>3. ASSUME op = "NOT_IN" PROVE Satisfies(a, v) <=> v.is \notin e.is
      BY <3>3 DEF Satisfies
    <3>4. QED
      BY <2>2, <3>1, <3>2, <3>3
  <2>3. CASE op \in {"=", "!="}
    <3>1. (v = e) <=> v.is = e.is
      BY <1>1, <2>1, <2>3 DEF Value
    <3>2. QED
      BY <1>7, <2>1, <2>3, <3>1 DEF Holds, Satisfies
  <2>4. QED
    BY <2>1, <2>2, <2>3
<1>8. CASE a.valueType = "SET"
  <2>1. /\ e.kind = "text" /\ op \in {"CONTAINS", "NOT_CONTAINS"}
        /\ v.kind = "list" \/ v = e
    BY <1>1, <1>8 DEF Decidable, ExpectedShape, OperatorsByType
  <2>2. CASE op = "CONTAINS"
    <3>1. Holds(a, v) <=> v.kind # "list" \/ e.is \in v.is
      BY <1>8, <2>2 DEF Holds
    <3>2. Satisfies(a, v) <=> v.kind = "text" \/ e.is \in v.is
      BY <1>8, <2>2 DEF Satisfies
    <3>3. QED
      BY <2>1, <3>1, <3>2
  <2>3. CASE op = "NOT_CONTAINS"
    <3>1. Holds(a, v) <=> ~(v.kind # "list" \/ e.is \in v.is)
      BY <1>8, <2>3 DEF Holds
    <3>2. Satisfies(a, v) <=> v.kind = "list" /\ e.is \notin v.is
      BY <1>8, <2>3 DEF Satisfies
    <3>3. QED
      BY <2>1, <2>3, <3>1, <3>2
  <2>4. QED
    BY <2>1, <2>2, <2>3
<1>9. QED
  BY <1>1, <1>3, <1>4, <1>5, <1>6, <1>7, <1>8

\* What judge answers, the facts being what they are.
LEMMA JudgeIsRight ==
  ASSUME Judge PROVE JudgmentTypeOK' /\ VerdictFollowsFacts'
<1>1. PICK a \in {x \in AssumptionSpec : WellFormed(x)}, facts \in BoundedSeq(Fact, MaxFacts),
           text \in BOOLEAN, via \in {"predicate", "resource", "close", "far"}, budget \in 0..1 :
        /\ via = "predicate" => \E i \in DOMAIN facts : SamePredicate(a, facts[i])
        /\ \E v \in Verdicts(a, facts, text, via, budget) :
             judgment' = [method |-> v.method, relation |-> v.relation, assumption |-> a, facts |-> facts]
  BY Zenon DEF Judge
<1>2. PICK v \in Verdicts(a, facts, text, via, budget) :
        judgment' = [method |-> v.method, relation |-> v.relation, assumption |-> a, facts |-> facts]
  BY <1>1
<1>3. \A i \in DOMAIN facts : facts[i] \in Fact
  BY JudgmentAssumption DEF BoundedSeq, SeqOf
<1>4. \/ Results(a, facts) # {} /\ v = Verdict("DETERMINISTIC", Decisive(a, facts))
      \/ /\ Results(a, facts) = {}
         /\ v.method \in {"SKIPPED", "NONE"} /\ v.relation \in {None, "UNCERTAIN", "IRRELEVANT"}
      \/ /\ Results(a, facts) = {} /\ a.policy # "MANUAL"
         /\ a.valueType = "TEXT" \/ ~\E i \in DOMAIN facts : SamePredicate(a, facts[i])
         /\ v.method \in {"UNAVAILABLE", "SEMANTIC"}
         /\ v.relation \in {"SUPPORTS", "CONTRADICTS", "UNCERTAIN", "IRRELEVANT"}
  BY DEF Verdicts, Verdict, Skipped
<1> DEFINE observed == {f \in ToSet(facts) : Comparable(a, f)}
<1>5. \A f : f \in ToSet(facts) <=> \E i \in DOMAIN facts : f = facts[i]
  BY DEF ToSet
<1>6. observed # {} <=> Results(a, facts) # {}
  BY <1>5 DEF Results
<1>7. (\A f \in observed : Satisfies(a, f.value)) <=> \A i \in Results(a, facts) : Holds(a, facts[i].value)
  <2>1. \A i \in Results(a, facts) : Holds(a, facts[i].value) <=> Satisfies(a, facts[i].value)
    BY <1>1, <1>3, HoldsMeansSatisfies DEF Results
  <2>2. QED
    BY <1>5, <2>1 DEF Results
<1>8. Decisive(a, facts) = IF \A f \in observed : Satisfies(a, f.value) THEN "SUPPORTS" ELSE "CONTRADICTS"
  BY <1>7 DEF Decisive
<1>9. JudgmentTypeOK'
  BY <1>2, <1>3, <1>4, <1>8, JudgmentAssumption DEF JudgmentTypeOK, Verdict
<1>10. VerdictFollowsFacts'
  <2>1. /\ judgment'.assumption = a /\ judgment'.facts = facts
        /\ judgment'.method = v.method /\ judgment'.relation = v.relation
    BY <1>2
  <2> HIDE DEF observed
  <2>2. v.method = "DETERMINISTIC" <=> observed # {}
    BY <1>4, <1>6 DEF Verdict
  <2>3. observed # {} =>
          v.relation = IF \A f \in observed : Satisfies(a, f.value) THEN "SUPPORTS" ELSE "CONTRADICTS"
    BY <1>4, <1>6, <1>8 DEF Verdict
  <2>4. v.method \in {"SEMANTIC", "UNAVAILABLE"} =>
          /\ a.policy # "MANUAL"
          /\ a.valueType = "TEXT" \/ ~\E f \in ToSet(facts) : SamePredicate(a, f)
    BY <1>4, <1>5 DEF Verdict
  <2>5. QED
    BY <2>1, <2>2, <2>3, <2>4 DEF VerdictFollowsFacts, observed
<1>11. QED
  BY <1>9, <1>10

\* The types of what judge (triggers.ts) answers.
THEOREM JudgmentTypes == JudgmentSpec => []JudgmentTypeOK
<1>1. JudgmentInit => JudgmentTypeOK
  BY DEF JudgmentInit, JudgmentTypeOK
<1>2. JudgmentTypeOK /\ [JudgmentNext]_judgment => JudgmentTypeOK'
  BY JudgeIsRight DEF JudgmentNext, JudgmentTypeOK
<1>3. QED
  BY <1>1, <1>2, PTL DEF JudgmentSpec

\* For any values, versions, assumptions and facts in any number and order: the verdict
\* of judge (triggers.ts) follows from the facts.
THEOREM FactsDecide == JudgmentSpec => []VerdictFollowsFacts
<1>1. JudgmentInit => VerdictFollowsFacts
  BY DEF JudgmentInit, VerdictFollowsFacts
<1>2. VerdictFollowsFacts /\ [JudgmentNext]_judgment => VerdictFollowsFacts'
  <2>1. CASE Judge
    BY <2>1, JudgeIsRight
  <2>2. CASE judgment' = NotJudged
    BY <2>2 DEF VerdictFollowsFacts
  <2>3. CASE UNCHANGED judgment
    BY <2>3 DEF VerdictFollowsFacts
  <2>4. QED
    BY <2>1, <2>2, <2>3 DEF JudgmentNext
<1>3. QED
  BY <1>1, <1>2, PTL DEF JudgmentSpec
------------------------------------------------------------------------------
(* The traversal.                                                          *)

\* A decision is recorded after those it depends on.
OlderFirst ==
  \A e \in dependency :
    \E i, j \in 1..Len(recorded) : j < i /\ recorded[i] = e[1] /\ recorded[j] = e[2]

\* s is a chain of n dependencies between recorded decisions that leads from d to r.
Leads(s, n, d, r) ==
  /\ s \in [0..n -> ToSet(recorded)] /\ s[0] = d /\ s[n] = r
  /\ \A i \in 0..(n - 1) : <<s[i], s[i + 1]>> \in dependency

\* What is found is found once, at the length of a chain that leads to the root; the
\* frontier is what was found last.
LevelsAreHops ==
  traversal # NoAnswer =>
    /\ traversal.root \in Known /\ <<traversal.root, 0>> \in traversal.found
    /\ \A n \in traversal.found : n[2] < traversal.depth /\ \E s : Leads(s, n[2], n[1], traversal.root)
    /\ \A n, m \in traversal.found : n[1] = m[1] => n[2] = m[2]
    /\ \A d : d \in traversal.frontier <=> <<d, traversal.depth - 1>> \in traversal.found

\* What depends on a decision that the frontier has passed is found, at most a hop later.
NonePassedOver ==
  traversal # NoAnswer /\ ~clipped =>
    \A n \in traversal.found, d \in Known :
      n[2] + 1 < traversal.depth /\ <<d, n[1]>> \in dependency =>
        \E m \in traversal.found : m[1] = d /\ m[2] <= n[2] + 1

\* The traversal ends when nothing is left to follow, or says that it is truncated.
EndsWhenDone ==
  /\ traversal.phase = "hop" => traversal.depth <= MaxDepth
  /\ traversal.phase = "answered" =>
       traversal.frontier = {} \/ (traversal.depth = MaxDepth + 1 /\ traversal.truncated)

GraphInv == GraphTypeOK /\ OlderFirst /\ LevelsAreHops /\ NonePassedOver /\ EndsWhenDone

LEMMA GraphStart == GraphInit => GraphInv
<1> SUFFICES ASSUME GraphInit PROVE GraphInv
  OBVIOUS
<1>1. GraphTypeOK
  <2>1. recorded = <<>> /\ Len(recorded) = 0 /\ recorded \in Seq(Node)
    BY DEF GraphInit
  <2>2. IsInjective(recorded)
    BY <2>1 DEF IsInjective
  <2>3. traversal = NoAnswer /\ dependency \cup history = {}
    BY DEF GraphInit
  <2>4. askedAt \in 0..Len(recorded)
    <3>1. askedAt = 0
      BY DEF GraphInit
    <3>2. QED
      BY <2>1, <3>1
  <2>5. clipped \in BOOLEAN
    BY DEF GraphInit
  <2>6. QED
    BY <2>1, <2>2, <2>3, <2>4, <2>5 DEF GraphTypeOK
<1>2. QED
  BY <1>1 DEF GraphInit, NoAnswer, GraphInv, OlderFirst, LevelsAreHops, NonePassedOver, EndsWhenDone

\* A decision is recorded at the end, and nothing else moves.
LEMMA RecordingAppends ==
  ASSUME GraphTypeOK, NEW d \in Node, RecordDecision(d)
  PROVE  /\ recorded' \in Seq(Node) /\ IsInjective(recorded')
         /\ Len(recorded') = Len(recorded) + 1 /\ recorded'[Len(recorded) + 1] = d
         /\ \A i \in 1..Len(recorded) : recorded'[i] = recorded[i]
         /\ ToSet(recorded') = ToSet(recorded) \cup {d}
         /\ Known' = Known /\ d \notin Known
<1>1. /\ recorded \in Seq(Node) /\ recorded' = Append(recorded, d) /\ d \notin ToSet(recorded)
      /\ askedAt \in 0..Len(recorded) /\ askedAt' = askedAt /\ Len(recorded) \in Nat
      /\ IsInjective(recorded)
  BY DEF GraphTypeOK, RecordDecision
<1>2. /\ recorded' \in Seq(Node) /\ Len(recorded') = Len(recorded) + 1
      /\ recorded'[Len(recorded) + 1] = d
      /\ \A i \in 1..Len(recorded) : recorded'[i] = recorded[i]
  BY <1>1
<1>3. DOMAIN recorded = 1..Len(recorded) /\ DOMAIN recorded' = 1..(Len(recorded) + 1)
  BY <1>1, <1>2
<1>4. \A i \in 1..Len(recorded) : recorded[i] # d
  BY <1>1, <1>3 DEF ToSet
<1>5. \A i, j \in DOMAIN recorded' : recorded'[i] = recorded'[j] => i = j
  BY <1>1, <1>2, <1>3, <1>4 DEF IsInjective
<1>6. ToSet(recorded') = ToSet(recorded) \cup {d}
  BY <1>1, <1>2, <1>3 DEF ToSet
<1>7. Known' = Known /\ d \notin Known
  BY <1>1, <1>2, <1>4 DEF Known
<1>8. QED
  BY <1>2, <1>5, <1>6, <1>7 DEF IsInjective

LEMMA RecordKeepsGraph ==
  ASSUME GraphInv, NEW d \in Node, RecordDecision(d) PROVE GraphInv'
<1>1. PICK on \in SUBSET ToSet(recorded) : dependency' = dependency \cup ({d} \X on)
  BY DEF RecordDecision
<1>2. UNCHANGED <<history, traversal, askedAt, clipped>>
  BY DEF RecordDecision
<1>3. GraphTypeOK
  BY DEF GraphInv
<1>4. /\ recorded' \in Seq(Node) /\ IsInjective(recorded')
      /\ Len(recorded') = Len(recorded) + 1 /\ recorded'[Len(recorded) + 1] = d
      /\ \A i \in 1..Len(recorded) : recorded'[i] = recorded[i]
      /\ ToSet(recorded') = ToSet(recorded) \cup {d}
      /\ Known' = Known /\ d \notin Known
  BY <1>3, RecordingAppends
<1>5. GraphTypeOK'
  <2>1. dependency' \cup history' \subseteq ToSet(recorded') \X ToSet(recorded')
    BY <1>1, <1>2, <1>3, <1>4 DEF GraphTypeOK
  <2>2. askedAt' \in 0..Len(recorded') /\ clipped' \in BOOLEAN
    BY <1>2, <1>3, <1>4 DEF GraphTypeOK
  <2>3. dependency \subseteq dependency'
    BY <1>1
  <2>4. (traversal = NoAnswer \/
     traversal \in [phase : {"hop", "answered"}, root : ToSet(recorded), depth : 1..(MaxDepth + 1),
                    found : SUBSET (ToSet(recorded) \X (0..MaxDepth)), edges : SUBSET dependency,
                    frontier : SUBSET ToSet(recorded), truncated : BOOLEAN])'
    BY <1>2, <1>3, <1>4, <2>3 DEF GraphTypeOK, NoAnswer
  <2>5. QED
    BY <1>4, <2>1, <2>2, <2>4 DEF GraphTypeOK
<1>6. OlderFirst'
  <2>1. ASSUME NEW e \in dependency'
        PROVE  \E i, j \in 1..Len(recorded') : j < i /\ recorded'[i] = e[1] /\ recorded'[j] = e[2]
    <3>1. Len(recorded) \in Nat /\ DOMAIN recorded = 1..Len(recorded)
      BY <1>3 DEF GraphTypeOK
    <3>2. CASE e \in dependency
      BY <1>4, <3>1, <3>2 DEF GraphInv, OlderFirst
    <3>3. CASE e[1] = d /\ e[2] \in ToSet(recorded)
      <4>1. PICK j \in 1..Len(recorded) : recorded[j] = e[2]
        BY <3>1, <3>3 DEF ToSet
      <4>2. QED
        BY <1>4, <3>1, <3>3, <4>1
    <3>4. QED
      BY <1>1, <3>2, <3>3
  <2>2. QED
    BY <2>1 DEF OlderFirst
<1>7. \A s, n, x, r : Leads(s, n, x, r) => Leads(s, n, x, r)'
  BY <1>1, <1>4 DEF Leads
<1>8. LevelsAreHops'
  BY <1>2, <1>4, <1>7 DEF GraphInv, LevelsAreHops
<1>9. NonePassedOver'
  BY <1>1, <1>2, <1>4 DEF GraphInv, NonePassedOver
<1>10. EndsWhenDone'
  BY <1>2 DEF GraphInv, EndsWhenDone
<1>11. QED
  BY <1>5, <1>6, <1>8, <1>9, <1>10 DEF GraphInv

LEMMA HistoryKeepsGraph ==
  ASSUME GraphInv, NEW d \in Node, NEW e \in Node, RecordHistory(d, e) PROVE GraphInv'
<1>1. UNCHANGED <<recorded, dependency, traversal, askedAt, clipped>>
  BY DEF RecordHistory
<1>2. Known' = Known
  BY <1>1 DEF Known
<1>3. GraphTypeOK'
  BY <1>1 DEF GraphInv, GraphTypeOK, RecordHistory
<1>4. OlderFirst'
  BY <1>1 DEF GraphInv, OlderFirst
<1>5. \A s, n, x, r : Leads(s, n, x, r) => Leads(s, n, x, r)'
  BY <1>1 DEF Leads
<1>6. LevelsAreHops' /\ NonePassedOver' /\ EndsWhenDone'
  BY <1>1, <1>2, <1>5 DEF GraphInv, LevelsAreHops, NonePassedOver, EndsWhenDone
<1>7. QED
  BY <1>3, <1>4, <1>6 DEF GraphInv

LEMMA AskKeepsGraph ==
  ASSUME GraphInv, NEW d \in Node, Ask(d) PROVE GraphInv'
<1>1. /\ d \in ToSet(recorded) /\ UNCHANGED <<recorded, dependency, history>>
      /\ traversal' = [phase |-> "hop", root |-> d, depth |-> 1, found |-> {<<d, 0>>}, edges |-> {},
                       frontier |-> {d}, truncated |-> FALSE]
      /\ askedAt' = Len(recorded) /\ clipped' = FALSE
  BY DEF Ask
<1>2. MaxDepth \in Nat \ {0} /\ Len(recorded) \in Nat /\ DOMAIN recorded = 1..Len(recorded)
  BY GraphAssumption DEF GraphInv, GraphTypeOK
<1>3. /\ traversal'.phase = "hop" /\ traversal'.root = d /\ traversal'.depth = 1
      /\ traversal'.found = {<<d, 0>>} /\ traversal'.frontier = {d}
  BY <1>1
<1>4. GraphTypeOK'
  <2>1. (traversal \in [phase : {"hop", "answered"}, root : ToSet(recorded), depth : 1..(MaxDepth + 1),
                    found : SUBSET (ToSet(recorded) \X (0..MaxDepth)), edges : SUBSET dependency,
                    frontier : SUBSET ToSet(recorded), truncated : BOOLEAN])'
    BY <1>1, <1>2
  <2>2. recorded' \in Seq(Node) /\ IsInjective(recorded')
    BY <1>1 DEF GraphInv, GraphTypeOK
  <2>3. dependency' \cup history' \subseteq ToSet(recorded') \X ToSet(recorded')
    BY <1>1 DEF GraphInv, GraphTypeOK
  <2>4. askedAt' \in 0..Len(recorded')
    <3>1. recorded' = recorded /\ askedAt' = Len(recorded)
      BY <1>1
    <3>2. QED
      BY <1>2, <3>1
  <2>5. clipped' \in BOOLEAN
    BY <1>1
  <2>6. QED
    BY <2>1, <2>2, <2>3, <2>4, <2>5 DEF GraphTypeOK
<1>5. OlderFirst'
  BY <1>1 DEF GraphInv, OlderFirst
<1>6. LevelsAreHops'
  <2>1. d \in Known'
    BY <1>1, <1>2 DEF Known, ToSet
  <2>2. Leads([i \in 0..0 |-> d], 0, d, d)'
    BY <1>1 DEF Leads
  <2>3. \A x : x \in traversal'.frontier <=> <<x, traversal'.depth - 1>> \in traversal'.found
    BY <1>3
  <2>4. QED
    BY <1>3, <2>1, <2>2, <2>3 DEF LevelsAreHops
<1>7. NonePassedOver'
  BY <1>3 DEF NonePassedOver
<1>8. EndsWhenDone'
  BY <1>2, <1>3 DEF EndsWhenDone
<1>9. QED
  BY <1>4, <1>5, <1>6, <1>7, <1>8 DEF GraphInv

\* The decisions found so far are finitely many.
LEMMA RecordedIsFinite ==
  ASSUME GraphTypeOK, NEW S, S \subseteq ToSet(recorded)
  PROVE  IsFiniteSet(S) /\ Cardinality(S) \in Nat
<1>1. recorded \in Seq(Node) /\ Len(recorded) \in Nat /\ DOMAIN recorded = 1..Len(recorded)
  BY DEF GraphTypeOK
<1>2. IsFiniteSet(1..Len(recorded))
  BY <1>1, FS_Interval
<1> DEFINE f == [i \in 1..Len(recorded) |-> recorded[i]]
<1>3. f \in Surjection(1..Len(recorded), ToSet(recorded))
  BY <1>1 DEF ToSet, Surjection
<1> HIDE DEF f
<1>4. IsFiniteSet(ToSet(recorded))
  BY <1>2, <1>3, FS_Surjection
<1>5. QED
  BY <1>4, FS_Subset, FS_CardinalityType

\* A chain is prolonged at its near end.
LEMMA ChainGrows ==
  ASSUME NEW s, NEW n \in Nat, NEW e, NEW r, Leads(s, n, e, r),
         NEW d \in ToSet(recorded), <<d, e>> \in dependency
  PROVE  Leads([i \in 0..(n + 1) |-> IF i = 0 THEN d ELSE s[i - 1]], n + 1, d, r)
<1> DEFINE t == [i \in 0..(n + 1) |-> IF i = 0 THEN d ELSE s[i - 1]]
<1>1. /\ s \in [0..n -> ToSet(recorded)] /\ s[0] = e /\ s[n] = r
      /\ \A i \in 0..(n - 1) : <<s[i], s[i + 1]>> \in dependency
  BY DEF Leads
<1>2. t \in [0..(n + 1) -> ToSet(recorded)]
  <2>1. \A i \in 0..(n + 1) : i # 0 => i - 1 \in 0..n
    OBVIOUS
  <2>2. QED
    BY <1>1, <2>1
<1>3. t[0] = d /\ \A i \in 0..n : t[i + 1] = s[i]
  OBVIOUS
<1> HIDE DEF t
<1>4. t[n + 1] = r
  BY <1>1, <1>3
<1>5. ASSUME NEW i \in 0..n PROVE <<t[i], t[i + 1]>> \in dependency
  <2>1. CASE i = 0
    BY <1>1, <1>3, <2>1
  <2>2. CASE i # 0
    <3>1. PICK j \in 0..(n - 1) : i = j + 1
      <4>1. i - 1 \in 0..(n - 1) /\ i = (i - 1) + 1
        BY <2>2
      <4>2. QED
        BY <4>1
    <3>2. t[i] = s[j] /\ t[i + 1] = s[j + 1]
      BY <1>3, <3>1
    <3>3. QED
      BY <1>1, <3>2
  <2>3. QED
    BY <2>1, <2>2
<1>6. Leads(t, n + 1, d, r)
  BY <1>2, <1>3, <1>4, <1>5 DEF Leads
<1>7. QED
  BY <1>6 DEF t

LEMMA HopKeepsGraph == ASSUME GraphInv, Hop PROVE GraphInv'
<1> DEFINE k == traversal.depth
           r == traversal.root
<1>1. PICK loaded \in Listings(NewlyFound) :
        traversal' = [traversal EXCEPT
          !.edges = @ \cup HopEdges,
          !.found = @ \cup (loaded \X {traversal.depth}),
          !.frontier = loaded,
          !.truncated = Truncates(loaded),
          !.depth = @ + 1,
          !.phase = IF loaded = {} \/ traversal.depth = MaxDepth THEN "answered" ELSE "hop"]
  BY DEF Hop
<1>2. /\ traversal.phase = "hop" /\ UNCHANGED <<recorded, dependency, history, askedAt>>
      /\ clipped' = (clipped \/ Cardinality(NewlyFound) > ListLimit)
  BY DEF Hop
<1>3. GraphTypeOK /\ traversal # NoAnswer
  BY <1>2 DEF GraphInv, NoAnswer
<1>4. traversal \in [phase : {"hop", "answered"}, root : ToSet(recorded), depth : 1..(MaxDepth + 1),
                     found : SUBSET (ToSet(recorded) \X (0..MaxDepth)), edges : SUBSET dependency,
                     frontier : SUBSET ToSet(recorded), truncated : BOOLEAN]
  BY <1>3 DEF GraphTypeOK
<1>5. MaxDepth \in Nat \ {0} /\ ListLimit \in Nat /\ k \in 1..MaxDepth
  BY <1>2, <1>4, GraphAssumption DEF GraphInv, EndsWhenDone
<1>6. /\ traversal'.root = r /\ traversal'.depth = k + 1 /\ traversal'.frontier = loaded
      /\ traversal'.found = traversal.found \cup (loaded \X {k})
      /\ traversal'.edges = traversal.edges \cup HopEdges
      /\ traversal'.truncated = (k = MaxDepth /\ loaded # {})
      /\ traversal'.phase = IF loaded = {} \/ k = MaxDepth THEN "answered" ELSE "hop"
  BY <1>1, <1>4 DEF Truncates
<1>7. HopEdges \subseteq dependency /\ dependency \subseteq ToSet(recorded) \X ToSet(recorded)
  BY <1>3 DEF HopEdges, Dependencies, GraphTypeOK
<1>8. \A d : d \in NewlyFound <=> /\ \E e \in traversal.frontier : <<d, e>> \in dependency
                                  /\ ~\E n \in traversal.found : n[1] = d
  <2>1. \A d : d \in Found <=> \E n \in traversal.found : n[1] = d
    BY DEF Found
  <2>2. \A d : (\E h \in HopEdges : h[1] = d) <=> \E e \in traversal.frontier : <<d, e>> \in dependency
    <3>1. ASSUME NEW h \in HopEdges PROVE h = <<h[1], h[2]>> /\ h[2] \in traversal.frontier /\ h \in dependency
      BY <1>7 DEF HopEdges
    <3>2. ASSUME NEW d, NEW e \in traversal.frontier, <<d, e>> \in dependency
          PROVE  <<d, e>> \in HopEdges
      BY <3>2 DEF HopEdges, Dependencies
    <3>3. ASSUME NEW d, NEW h \in HopEdges, h[1] = d
          PROVE  \E e \in traversal.frontier : <<d, e>> \in dependency
      BY <3>1, <3>3
    <3>4. ASSUME NEW d, NEW e \in traversal.frontier, <<d, e>> \in dependency
          PROVE  \E h \in HopEdges : h[1] = d
      <4>1. <<d, e>>[1] = d
        OBVIOUS
      <4>2. QED
        BY <3>2, <3>4, <4>1
    <3>5. QED
      BY <3>3, <3>4
  <2>3. QED
    BY <2>1, <2>2 DEF NewlyFound
<1>9. NewlyFound \subseteq ToSet(recorded)
  <2>1. ASSUME NEW d \in NewlyFound PROVE d \in ToSet(recorded)
    <3>1. PICK e : <<d, e>> \in dependency
      BY <1>8
    <3>2. <<d, e>> \in ToSet(recorded) \X ToSet(recorded)
      BY <1>7, <3>1
    <3>3. QED
      BY <3>2
  <2>2. QED
    BY <2>1
<1>10. loaded \subseteq NewlyFound /\ (~clipped' => ~clipped /\ loaded = NewlyFound)
  <2>1. Cardinality(NewlyFound) \in Nat
    BY <1>3, <1>9, RecordedIsFinite
  <2>2. CASE Cardinality(NewlyFound) <= ListLimit
    BY <1>2, <1>5, <2>1, <2>2 DEF Listings
  <2>3. CASE Cardinality(NewlyFound) > ListLimit
    <3>1. ~(Cardinality(NewlyFound) <= ListLimit)
      BY <1>5, <2>1, <2>3
    <3>2. loaded \in kSubset(ListLimit, NewlyFound)
      BY <3>1 DEF Listings
    <3>3. clipped'
      BY <1>2, <2>3
    <3>4. QED
      BY <3>2, <3>3 DEF kSubset
  <2>4. QED
    BY <1>5, <2>1, <2>2, <2>3
<1>11. \A n : n \in traversal'.found <=>
                n \in traversal.found \/ (n[1] \in loaded /\ n[2] = k /\ n = <<n[1], n[2]>>)
  BY <1>6
<1>12. /\ r \in Known /\ <<r, 0>> \in traversal.found
       /\ \A n \in traversal.found : n[2] < k /\ \E s : Leads(s, n[2], n[1], r)
       /\ \A n, m \in traversal.found : n[1] = m[1] => n[2] = m[2]
       /\ \A d : d \in traversal.frontier <=> <<d, k - 1>> \in traversal.found
  BY <1>3 DEF GraphInv, LevelsAreHops
<1>13. \A n \in traversal.found : n[2] \in 0..(k - 1) /\ n = <<n[1], n[2]>>
  BY <1>4, <1>5, <1>12
<1>14. Known' = Known
  BY <1>2 DEF Known
<1> HIDE DEF k, r
<1>15. GraphTypeOK'
  <2>1. traversal' \in [phase : {"hop", "answered"}, root : ToSet(recorded), depth : 1..(MaxDepth + 1),
                        found : SUBSET (ToSet(recorded) \X (0..MaxDepth)), edges : SUBSET dependency,
                        frontier : SUBSET ToSet(recorded), truncated : BOOLEAN]
    <3>1. k + 1 \in 1..(MaxDepth + 1) /\ k \in 0..MaxDepth
      BY <1>5
    <3>2. loaded \X {k} \subseteq ToSet(recorded) \X (0..MaxDepth)
      BY <1>9, <1>10, <3>1
    <3>3. /\ traversal.found \cup (loaded \X {k}) \in SUBSET (ToSet(recorded) \X (0..MaxDepth))
          /\ traversal.edges \cup HopEdges \in SUBSET dependency
      BY <1>4, <1>7, <3>2
    <3>4. loaded \in SUBSET ToSet(recorded) /\ Truncates(loaded) \in BOOLEAN
      BY <1>9, <1>10 DEF Truncates
    <3> DEFINE edges == traversal.edges \cup HopEdges
               found == traversal.found \cup (loaded \X {k})
               phase == IF loaded = {} \/ k = MaxDepth THEN "answered" ELSE "hop"
    <3>5. phase \in {"hop", "answered"}
      OBVIOUS
    <3>6. traversal' = [traversal EXCEPT !.edges = edges, !.found = found, !.frontier = loaded,
                          !.truncated = Truncates(loaded), !.depth = k + 1, !.phase = phase]
      BY <1>1 DEF k
    <3> HIDE DEF edges, found, phase
    <3>7. QED
      BY <1>4, <3>1, <3>3, <3>4, <3>5, <3>6 DEF edges, found
  <2>2. clipped' \in BOOLEAN
    BY <1>2
  <2>3. QED
    BY <1>2, <1>3, <2>1, <2>2 DEF GraphTypeOK
<1>16. OlderFirst'
  BY <1>2 DEF GraphInv, OlderFirst
<1>17. LevelsAreHops'
  <2>1. ASSUME NEW d \in loaded PROVE \E s : Leads(s, k, d, r)
    <3>1. PICK e \in traversal.frontier : <<d, e>> \in dependency
      BY <1>8, <1>10
    <3>2. PICK s : Leads(s, k - 1, e, r)
      <4>1. <<e, k - 1>> \in traversal.found /\ <<e, k - 1>>[1] = e /\ <<e, k - 1>>[2] = k - 1
        BY <1>12, <3>1
      <4>2. QED
        BY <1>12, <4>1
    <3>3. k - 1 \in Nat /\ (k - 1) + 1 = k
      BY <1>5
    <3>4. \E t : Leads(t, (k - 1) + 1, d, r)
      BY <1>9, <1>10, <3>1, <3>2, <3>3, ChainGrows
    <3>5. QED
      BY <3>3, <3>4
  <2>2. ASSUME NEW n \in traversal'.found
        PROVE  n[2] < k + 1 /\ \E s : Leads(s, n[2], n[1], r)'
    <3>1. CASE n \in traversal.found
      <4>1. n[2] < k + 1
        BY <1>5, <1>13, <3>1
      <4>2. PICK s : Leads(s, n[2], n[1], r)
        BY <1>12, <3>1
      <4>3. Leads(s, n[2], n[1], r)'
        BY <1>2, <1>6, <4>2 DEF Leads, r
      <4>4. QED
        BY <4>1, <4>3
    <3>2. CASE n[1] \in loaded /\ n[2] = k
      <4>1. n[2] < k + 1
        BY <1>5, <3>2
      <4>2. PICK s : Leads(s, n[2], n[1], r)
        BY <2>1, <3>2
      <4>3. Leads(s, n[2], n[1], r)'
        BY <1>2, <1>6, <4>2 DEF Leads, r
      <4>4. QED
        BY <4>1, <4>3
    <3>3. QED
      BY <1>11, <3>1, <3>2
  <2>3. ASSUME NEW n \in traversal'.found, NEW m \in traversal'.found, n[1] = m[1]
        PROVE  n[2] = m[2]
    BY <1>8, <1>10, <1>11, <1>12, <2>3
  <2>4. \A d : d \in loaded <=> <<d, k>> \in traversal'.found
    <3>1. \A d : <<d, k>> \notin traversal.found
      BY <1>5, <1>12
    <3>2. QED
      BY <1>6, <3>1
  <2>5. (k + 1) - 1 = k
    BY <1>5
  <2>6. QED
    BY <1>6, <1>11, <1>12, <1>14, <2>2, <2>3, <2>4, <2>5 DEF LevelsAreHops, r
<1>18. NonePassedOver'
  <2>1. ASSUME ~clipped', NEW n \in traversal'.found, NEW d \in Known, n[2] + 1 < k + 1,
               <<d, n[1]>> \in dependency
        PROVE  \E m \in traversal'.found : m[1] = d /\ m[2] <= n[2] + 1
    <3>1. n \in traversal.found /\ n[2] \in 0..(k - 1)
      BY <1>5, <1>11, <1>13, <2>1
    <3>2. CASE n[2] + 1 < k
      <4>1. PICK m \in traversal.found : m[1] = d /\ m[2] <= n[2] + 1
        BY <1>3, <1>10, <2>1, <3>1, <3>2 DEF GraphInv, NonePassedOver, k
      <4>2. QED
        BY <1>11, <4>1
    <3>3. CASE n[2] = k - 1
      <4>1. n[1] \in traversal.frontier
        BY <1>12, <1>13, <3>1, <3>3
      <4>2. CASE \E m \in traversal.found : m[1] = d
        BY <1>5, <1>11, <1>13, <3>3, <4>2
      <4>3. CASE ~\E m \in traversal.found : m[1] = d
        <5>1. d \in loaded
          BY <1>8, <1>10, <2>1, <4>1, <4>3
        <5>2. <<d, k>> \in traversal'.found /\ k <= n[2] + 1
          BY <1>5, <1>6, <3>3, <5>1
        <5>3. QED
          BY <5>2
      <4>4. QED
        BY <4>2, <4>3
    <3>4. QED
      BY <1>5, <3>1, <3>2, <3>3
  <2>2. QED
    BY <1>2, <1>6, <1>14, <2>1 DEF NonePassedOver
<1>19. EndsWhenDone'
  <2>1. traversal'.phase = "hop" => k + 1 <= MaxDepth
    BY <1>5, <1>6
  <2>2. traversal'.phase = "answered" => loaded = {} \/ k = MaxDepth
    BY <1>6
  <2>3. k = MaxDepth /\ loaded # {} => traversal'.truncated
    BY <1>6
  <2>4. QED
    BY <1>6, <2>1, <2>2, <2>3 DEF EndsWhenDone
<1>20. QED
  BY <1>15, <1>16, <1>17, <1>18, <1>19 DEF GraphInv

LEMMA GraphStep == GraphInv /\ [GraphNext]_graphVars => GraphInv'
<1> SUFFICES ASSUME GraphInv, [GraphNext]_graphVars PROVE GraphInv'
  OBVIOUS
<1>1. CASE GraphNext
  BY <1>1, RecordKeepsGraph, HistoryKeepsGraph, AskKeepsGraph, HopKeepsGraph DEF GraphNext
<1>2. CASE UNCHANGED graphVars
  <2>1. UNCHANGED <<recorded, dependency, history, traversal, askedAt, clipped>>
    BY <1>2 DEF graphVars
  <2>2. Known' = Known
    BY <2>1 DEF Known
  <2>3. GraphTypeOK' /\ OlderFirst'
    BY <2>1 DEF GraphInv, GraphTypeOK, OlderFirst
  <2>4. \A s, n, x, r : Leads(s, n, x, r) => Leads(s, n, x, r)'
    BY <2>1 DEF Leads
  <2>5. LevelsAreHops' /\ NonePassedOver' /\ EndsWhenDone'
    BY <2>1, <2>2, <2>4 DEF GraphInv, LevelsAreHops, NonePassedOver, EndsWhenDone
  <2>6. QED
    BY <2>3, <2>5 DEF GraphInv
<1>3. QED
  BY <1>1, <1>2

\* A traversal finds a decision at the length of a chain that leads to the root, passes
\* over none that was recorded when it was asked, and stops only when it must.
THEOREM GraphInvariant == GraphSpec => []GraphInv
<1>1. QED
  BY GraphStart, GraphStep, PTL DEF GraphSpec

LEMMA LeastIsMin ==
  ASSUME NEW T, T \subseteq Nat, T # {} PROVE Min(T) \in T /\ \A y \in T : Min(T) <= y
<1>1. \E x \in T : \A y \in T : x <= y
  BY LeastNatural
<1>2. QED
  BY <1>1 DEF Min

\* The first m decisions.
First(m) == {recorded[i] : i \in 1..m}

LEMMA FirstOnes ==
  ASSUME GraphTypeOK
  PROVE  /\ Known = First(askedAt) /\ ToSet(recorded) = First(Len(recorded))
         /\ askedAt \in 0..Len(recorded) /\ Len(recorded) \in Nat
         /\ \A m \in 0..Len(recorded) :
              IsFiniteSet(First(m)) /\ Cardinality(First(m)) = m /\ First(m) \subseteq ToSet(recorded)
<1>1. /\ recorded \in Seq(Node) /\ Len(recorded) \in Nat /\ DOMAIN recorded = 1..Len(recorded)
      /\ IsInjective(recorded) /\ askedAt \in 0..Len(recorded)
  BY DEF GraphTypeOK
<1>2. Known = First(askedAt) /\ ToSet(recorded) = First(Len(recorded))
  BY <1>1 DEF Known, First, ToSet
<1>3. ASSUME NEW m \in 0..Len(recorded)
      PROVE  IsFiniteSet(First(m)) /\ Cardinality(First(m)) = m /\ First(m) \subseteq ToSet(recorded)
  <2> DEFINE f == [i \in 1..m |-> recorded[i]]
  <2>1. m \in Nat /\ 1..m \subseteq DOMAIN recorded
    BY <1>1
  <2>2. IsFiniteSet(1..m) /\ Cardinality(1..m) = m
    BY <2>1, FS_Interval
  <2>3. f \in Surjection(1..m, First(m))
    BY DEF First, Surjection
  <2>4. f \in Injection(1..m, First(m))
    BY <1>1, <2>1 DEF First, Injection, IsInjective
  <2> HIDE DEF f
  <2>5. IsFiniteSet(First(m)) /\ Cardinality(First(m)) = m
    BY <2>2, <2>3, <2>4, FS_Surjection
  <2>6. First(m) \subseteq ToSet(recorded)
    BY <2>1 DEF First, ToSet
  <2>7. QED
    BY <2>5, <2>6
<1>4. QED
  BY <1>1, <1>2, <1>3

\* Along a chain the decisions get older.
LEMMA ChainDescends ==
  ASSUME GraphTypeOK, OlderFirst, NEW n \in Nat, NEW s, NEW d, NEW r, Leads(s, n, d, r),
         NEW p \in 1..Len(recorded), d = recorded[p]
  PROVE  \A i \in 0..n : \E q \in 1..Len(recorded) : s[i] = recorded[q] /\ q + i <= p
<1> DEFINE At(i) == \E q \in 1..Len(recorded) : s[i] = recorded[q] /\ q + i <= p
           T == {i \in 0..n : ~At(i)}
<1>1. /\ recorded \in Seq(Node) /\ Len(recorded) \in Nat /\ DOMAIN recorded = 1..Len(recorded)
      /\ \A i, j \in 1..Len(recorded) : recorded[i] = recorded[j] => i = j
  BY DEF GraphTypeOK, IsInjective
<1>2. SUFFICES ASSUME T # {} PROVE FALSE
  OBVIOUS
<1>3. PICK i \in T : \A j \in T : i <= j
  <2>1. T \subseteq Nat
    OBVIOUS
  <2> HIDE DEF T
  <2>2. QED
    BY <1>2, <2>1, LeastNatural
<1>4. i # 0
  BY <1>1 DEF Leads
<1>5. PICK j \in 0..(n - 1) : i = j + 1
  <2>1. i - 1 \in 0..(n - 1) /\ i = (i - 1) + 1
    BY <1>4
  <2>2. QED
    BY <2>1
<1>6. PICK q \in 1..Len(recorded) : s[j] = recorded[q] /\ q + j <= p
  <2>1. j \in 0..n /\ ~(i <= j)
    BY <1>5
  <2>2. QED
    BY <1>3, <2>1
<1>7. PICK a, b \in 1..Len(recorded) : b < a /\ recorded[a] = s[j] /\ recorded[b] = s[j + 1]
  <2>1. <<s[j], s[j + 1]>> \in dependency
    BY <1>5 DEF Leads
  <2>2. QED
    BY <2>1 DEF OlderFirst
<1>8. a = q
  BY <1>1, <1>6, <1>7
<1>9. s[i] = recorded[b] /\ b + i <= p
  BY <1>1, <1>5, <1>6, <1>7, <1>8
<1>10. QED
  BY <1>3, <1>9

\* A chain that leads to the root from one of the first decisions is one of those the
\* reference considers: it stays among them, and it is not longer than they are many.
LEMMA ChainIsConsidered ==
  ASSUME GraphTypeOK, OlderFirst, NEW m \in 0..Len(recorded), NEW d \in First(m), NEW r,
         NEW n \in Nat, NEW s, Leads(s, n, d, r)
  PROVE  s \in Chain(d, r, First(m)) /\ Cardinality(DOMAIN s) - 1 = n
<1>1. PICK p \in 1..m : d = recorded[p]
  BY DEF First
<1>2. Len(recorded) \in Nat /\ Cardinality(First(m)) = m /\ p \in 1..Len(recorded) /\ m \in Nat
  BY FirstOnes
<1>3. \A i \in 0..n : \E q \in 1..Len(recorded) : s[i] = recorded[q] /\ q + i <= p
  BY <1>1, <1>2, ChainDescends
<1>4. s \in [0..n -> First(m)]
  <2>1. ASSUME NEW i \in 0..n PROVE s[i] \in First(m)
    <3>1. PICK q \in 1..Len(recorded) : s[i] = recorded[q] /\ q + i <= p
      BY <1>3
    <3>2. q \in 1..m
      BY <1>2, <3>1
    <3>3. QED
      BY <3>1, <3>2 DEF First
  <2>2. QED
    BY <2>1 DEF Leads
<1>5. n \in 0..(m - 1)
  <2>1. PICK q \in 1..Len(recorded) : q + n <= p
    <3>1. n \in 0..n
      OBVIOUS
    <3>2. QED
      BY <1>3, <3>1
  <2>2. QED
    BY <1>2, <2>1
<1>6. DOMAIN s = 0..n /\ Cardinality(0..n) = n + 1
  BY <1>4, FS_Interval
<1>7. Cardinality(DOMAIN s) - 1 = n
  BY <1>6
<1>8. s \in UNION {[0..k -> First(m)] : k \in 0..(Cardinality(First(m)) - 1)}
  BY <1>2, <1>4, <1>5
<1>9. QED
  BY <1>7, <1>8 DEF Chain, Leads

LEMMA ConsideredIsChain ==
  ASSUME GraphTypeOK, NEW m \in 0..Len(recorded), NEW d, NEW r, NEW s \in Chain(d, r, First(m))
  PROVE  \E n \in Nat : /\ n = Cardinality(DOMAIN s) - 1 /\ Leads(s, n, d, r)
                        /\ \A i \in 0..n : s[i] \in First(m)
<1>1. Cardinality(First(m)) = m /\ First(m) \subseteq ToSet(recorded) /\ m \in Nat
  BY FirstOnes
<1>2. s \in UNION {[0..k -> First(m)] : k \in 0..(Cardinality(First(m)) - 1)}
  BY DEF Chain
<1>3. PICK n \in 0..(m - 1) : s \in [0..n -> First(m)]
  BY <1>1, <1>2
<1>4. DOMAIN s = 0..n /\ Cardinality(0..n) = n + 1 /\ n \in Nat
  BY <1>3, FS_Interval
<1>5. Cardinality(DOMAIN s) - 1 = n
  BY <1>4
<1>6. /\ s[0] = d /\ s[n] = r
      /\ \A i \in 0..(n - 1) : <<s[i], s[i + 1]>> \in dependency
  BY <1>5 DEF Chain
<1>7. s \in [0..n -> ToSet(recorded)]
  BY <1>1, <1>3
<1>8. Leads(s, n, d, r)
  BY <1>6, <1>7 DEF Leads
<1>9. QED
  BY <1>3, <1>4, <1>5, <1>8

\* What a chain of known decisions leads through is found, hop by hop from the root, as
\* long as the traversal has come that far or has nothing left to follow.
LEMMA ChainIsFollowed ==
  ASSUME GraphInv, traversal # NoAnswer, ~clipped, NEW n \in Nat, NEW s, NEW d,
         Leads(s, n, d, traversal.root), \A i \in 0..n : s[i] \in Known,
         n + 1 <= traversal.depth \/ traversal.frontier = {}
  PROVE  \E f \in traversal.found : f[1] = d /\ f[2] <= n
<1> DEFINE Met(i) == \E f \in traversal.found : f[1] = s[n - i] /\ f[2] <= i
           T == {i \in 0..n : ~Met(i)}
<1>1. /\ traversal.depth \in Nat
      /\ \A f \in traversal.found : f[2] \in Nat /\ f[2] < traversal.depth /\ f = <<f[1], f[2]>>
      /\ <<traversal.root, 0>> \in traversal.found
      /\ \A x : x \in traversal.frontier <=> <<x, traversal.depth - 1>> \in traversal.found
  <2>1. MaxDepth \in Nat /\ GraphTypeOK
    BY GraphAssumption DEF GraphInv
  <2>2. traversal.depth \in 1..(MaxDepth + 1) /\ traversal.found \subseteq ToSet(recorded) \X (0..MaxDepth)
    BY <2>1 DEF GraphTypeOK
  <2>3. \A f \in traversal.found : f[2] \in Nat /\ f = <<f[1], f[2]>>
    BY <2>1, <2>2
  <2>4. QED
    BY <2>1, <2>2, <2>3 DEF GraphInv, LevelsAreHops
<1>2. ASSUME T # {} PROVE FALSE
  <2>1. PICK i \in T : \A j \in T : i <= j
    <3>1. T \subseteq Nat
      OBVIOUS
    <3> HIDE DEF T
    <3>2. QED
      BY <1>2, <3>1, LeastNatural
  <2>2. i # 0
    <3>1. <<traversal.root, 0>>[1] = s[n] /\ <<traversal.root, 0>>[2] = 0 /\ n - 0 = n
      BY DEF Leads
    <3>2. Met(0)
      BY <1>1, <3>1
    <3> HIDE DEF Met
    <3>3. QED
      BY <3>2
  <2>3. PICK j \in 0..(n - 1) : i = j + 1
    <3>1. i - 1 \in 0..(n - 1) /\ i = (i - 1) + 1
      BY <2>2
    <3>2. QED
      BY <3>1
  <2>4. PICK f \in traversal.found : f[1] = s[n - j] /\ f[2] <= j
    <3>1. j \in 0..n /\ ~(i <= j)
      BY <2>3
    <3>2. Met(j)
      BY <2>1, <3>1
    <3>3. QED
      BY <3>2
  <2>5. f[2] + 1 < traversal.depth
    <3>1. CASE n + 1 <= traversal.depth
      BY <1>1, <2>3, <2>4, <3>1
    <3>2. CASE traversal.frontier = {}
      <4>1. f[2] # traversal.depth - 1
        BY <1>1, <3>2
      <4>2. QED
        BY <1>1, <4>1
    <3>3. QED
      BY <3>1, <3>2
  <2>6. n - i \in 0..(n - 1) /\ (n - i) + 1 = n - j
    BY <2>3
  <2>7. <<s[n - i], f[1]>> \in dependency /\ s[n - i] \in Known
    <3>1. <<s[n - i], s[(n - i) + 1]>> \in dependency
      BY <2>6 DEF Leads
    <3>2. QED
      BY <2>4, <2>6, <3>1
  <2>8. PICK g \in traversal.found : g[1] = s[n - i] /\ g[2] <= f[2] + 1
    BY <2>5, <2>7 DEF GraphInv, NonePassedOver
  <2>9. g[2] <= i
    BY <1>1, <2>3, <2>4, <2>8
  <2>10. QED
    BY <2>1, <2>8, <2>9
<1>3. Met(n)
  BY <1>2
<1>4. s[n - n] = d
  BY DEF Leads
<1>5. QED
  BY <1>3, <1>4

LEMMA BlastRadius == GraphInv => BlastRadiusComplete
<1> SUFFICES ASSUME GraphInv, traversal.phase = "answered", ~clipped PROVE BlastRadiusComplete
  BY DEF BlastRadiusComplete
<1> DEFINE r == traversal.root
           Lengths(d) == {Cardinality(DOMAIN s) - 1 : s \in Chain(d, r, Known)}
<1>1. GraphTypeOK /\ OlderFirst /\ traversal # NoAnswer
  BY DEF GraphInv, NoAnswer
<1>2. /\ Known = First(askedAt) /\ ToSet(recorded) = First(Len(recorded))
      /\ askedAt \in 0..Len(recorded) /\ Len(recorded) \in 0..Len(recorded)
  BY <1>1, FirstOnes
<1>3. /\ \A n \in traversal.found : \E s : Leads(s, n[2], n[1], r)
      /\ \A n, m \in traversal.found : n[1] = m[1] => n[2] = m[2]
      /\ \A n \in traversal.found : n[2] < traversal.depth
  BY <1>1 DEF GraphInv, LevelsAreHops
<1>4. /\ MaxDepth \in Nat /\ traversal.depth \in Nat
      /\ \A n \in traversal.found : n[1] \in ToSet(recorded) /\ n[2] \in Nat
  <2>1. MaxDepth \in Nat
    BY GraphAssumption
  <2>2. traversal.depth \in 1..(MaxDepth + 1) /\ traversal.found \subseteq ToSet(recorded) \X (0..MaxDepth)
    BY <1>1 DEF GraphTypeOK
  <2>3. QED
    BY <2>1, <2>2
<1> HIDE DEF r
<1>5. ASSUME NEW d \in Known, Depends(d, r, Known)
      PROVE  /\ Distance(d, r, Known) \in Nat
             /\ \A k \in Lengths(d) : Distance(d, r, Known) <= k
             /\ Distance(d, r, Known) + 1 <= traversal.depth \/ traversal.frontier = {} =>
                  \E f \in traversal.found : f[1] = d /\ f[2] <= Distance(d, r, Known)
  <2>1. Lengths(d) \subseteq Nat /\ Lengths(d) # {}
    BY <1>1, <1>2, <1>5, ConsideredIsChain DEF Depends
  <2>2. Distance(d, r, Known) = Min(Lengths(d))
    BY DEF Distance
  <2>3. Distance(d, r, Known) \in Lengths(d) /\ \A k \in Lengths(d) : Distance(d, r, Known) <= k
    <3> HIDE DEF Lengths
    <3>1. QED
      BY <2>1, <2>2, LeastIsMin
  <2>4. PICK s \in Chain(d, r, Known) : Distance(d, r, Known) = Cardinality(DOMAIN s) - 1
    BY <2>3
  <2>5. PICK n \in Nat : /\ n = Distance(d, r, Known) /\ Leads(s, n, d, r)
                         /\ \A i \in 0..n : s[i] \in Known
    BY <1>1, <1>2, <2>4, ConsideredIsChain
  <2>6. n + 1 <= traversal.depth \/ traversal.frontier = {} =>
          \E f \in traversal.found : f[1] = d /\ f[2] <= n
    BY <1>1, <2>5, ChainIsFollowed DEF r
  <2>7. QED
    BY <2>3, <2>5, <2>6
<1>6. ASSUME NEW n \in traversal.found PROVE Depends(n[1], r, ToSet(recorded))
  BY <1>1, <1>2, <1>3, <1>4, ChainIsConsidered DEF Depends
<1>7. ASSUME NEW n \in traversal.found, n[1] \in Known PROVE n[2] = Distance(n[1], r, Known)
  <2>1. PICK s \in Chain(n[1], r, Known) : Cardinality(DOMAIN s) - 1 = n[2]
    BY <1>1, <1>2, <1>3, <1>4, <1>7, ChainIsConsidered
  <2>2. Depends(n[1], r, Known) /\ n[2] \in Lengths(n[1])
    BY <2>1 DEF Depends
  <2>3. Distance(n[1], r, Known) \in Nat /\ Distance(n[1], r, Known) <= n[2]
    BY <1>5, <1>7, <2>2
  <2>4. Distance(n[1], r, Known) + 1 <= traversal.depth
    BY <1>3, <1>4, <2>3
  <2>5. PICK f \in traversal.found : f[1] = n[1] /\ f[2] <= Distance(n[1], r, Known)
    BY <1>5, <1>7, <2>2, <2>4
  <2>6. f[2] = n[2]
    BY <1>3, <2>5
  <2>7. QED
    BY <1>4, <2>3, <2>5, <2>6
<1>8. ASSUME NEW d \in Known, Depends(d, r, Known),
             Distance(d, r, Known) <= MaxDepth \/ ~traversal.truncated
      PROVE  d \in Found
  <2>1. traversal.frontier = {} \/ (traversal.depth = MaxDepth + 1 /\ traversal.truncated)
    BY DEF GraphInv, EndsWhenDone
  <2>2. Distance(d, r, Known) \in Nat
    BY <1>5, <1>8
  <2>3. Distance(d, r, Known) + 1 <= traversal.depth \/ traversal.frontier = {}
    BY <1>4, <1>8, <2>1, <2>2
  <2>4. QED
    BY <1>5, <1>8, <2>3 DEF Found
<1>9. QED
  BY <1>6, <1>7, <1>8 DEF BlastRadiusComplete, r

\* The answer to what a change may affect (blastRadius, graph.ts) is right and complete, in
\* every store and whatever is recorded while it is looked for.
THEOREM AnswersAreComplete == GraphSpec => []BlastRadiusComplete
<1>1. QED
  BY GraphInvariant, BlastRadius, PTL

==============================================================================
