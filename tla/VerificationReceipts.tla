------------------------- MODULE VerificationReceipts -------------------------
(***************************************************************************)
(* What an agent is shown of the CI workflows linked to a decision.  A     *)
(* person links a workflow (configureVerificationCheck), GitHub delivers   *)
(* every completed attempt of it, a worker stores a receipt for each       *)
(* decision the workflow is linked to (github/index.ts), and the context   *)
(* of an action shows the latest receipt per workflow                      *)
(* (listVerificationRuns).  Deliveries arrive in any order, and a job is   *)
(* handed out again when it fails, when its worker dies and when its lock  *)
(* expires, so that two workers may be storing one attempt's receipts.     *)
(* The queue itself is EventPipeline's.                                    *)
(***************************************************************************)
EXTENDS Integers, Sequences, FiniteSets, SequencesExt

CONSTANTS
  Linked,       \* the decisions
  Workflow,     \* a repository and the name of a workflow
  Attempt,      \* completed attempts of runs
  WorkflowOf,   \* of every attempt
  CompletedAt,  \* of every attempt; two may complete at the same moment
  Reporter,     \* workers
  MaxWorkflows  \* workflows per decision

ASSUME ReceiptAssumption ==
  /\ Attempt # {} /\ WorkflowOf \in [Attempt -> Workflow] /\ CompletedAt \in [Attempt -> Int]
  /\ MaxWorkflows \in Nat

VARIABLES
  governs,      \* decisions that are live, as findDecisionsForVerificationCheck asks
  closed,       \* decisions that are replaced or archived
  linkedTo,     \* decision_verification_checks
  receipts,     \* decision_verification_runs of a decision, in order of creation
  delivery,     \* the job of every attempt
  reporter      \* where each worker is

\* Ghost: the receipts that are due, a decision and an attempt that was delivered when
\* the decision was live and linked to its workflow.
VARIABLE due

receiptVars == <<governs, closed, linkedTo, receipts, delivery, reporter, due>>

Waiting == [phase |-> "idle", attempt |-> CHOOSE a \in Attempt : TRUE, todo |-> {}]

ReceiptTypeOK ==
  /\ governs \subseteq Linked /\ closed \subseteq Linked \ governs
  /\ linkedTo \subseteq Linked \X Workflow
  /\ receipts \in [Linked -> Seq(Attempt)] /\ \A d \in Linked : IsInjective(receipts[d])
  /\ delivery \in [Attempt -> {"none", "queued", "running", "done", "dead"}]
  /\ reporter \in [Reporter -> [phase : {"idle", "find", "store", "evaluate"},
                                attempt : Attempt, todo : SUBSET Linked]]
  /\ due \subseteq Linked \X Attempt

ReceiptInit ==
  /\ governs = {} /\ closed = {} /\ linkedTo = {}
  /\ receipts = [d \in Linked |-> <<>>]
  /\ delivery = [a \in Attempt |-> "none"]
  /\ reporter = [h \in Reporter |-> Waiting]
  /\ due = {}

------------------------------------------------------------------------------
(* People.                                                                 *)

GoLive(d) ==
  /\ d \notin governs \cup closed
  /\ governs' = governs \cup {d}
  /\ UNCHANGED <<closed, linkedTo, receipts, delivery, reporter, due>>

\* Receipts that had not been stored yet are no longer due.
Close(d) ==
  /\ d \notin closed
  /\ governs' = governs \ {d}
  /\ closed' = closed \cup {d}
  /\ due' = {p \in due : p[1] # d \/ delivery[p[2]] = "done"}
  /\ UNCHANGED <<linkedTo, receipts, delivery, reporter>>

WorkflowsOf(d) == {w \in Workflow : <<d, w>> \in linkedTo}

\* One transaction, whatever the decision's status.  Linking again only changes the
\* kind and the description.
ConfigureVerificationCheck(d, w) ==
  /\ w \notin WorkflowsOf(d)
  /\ Cardinality(WorkflowsOf(d)) < MaxWorkflows
  /\ linkedTo' = linkedTo \cup {<<d, w>>}
  /\ UNCHANGED <<governs, closed, receipts, delivery, reporter, due>>

------------------------------------------------------------------------------
(* Deliveries.                                                             *)

\* findDecisionsForVerificationCheck.
FindDecisions(w) == {d \in governs : <<d, w>> \in linkedTo}

\* The webhook; a redelivery finds the job already there.
Deliver(a) ==
  /\ delivery[a] = "none"
  /\ delivery' = [delivery EXCEPT ![a] = "queued"]
  /\ due' = due \cup (FindDecisions(WorkflowOf[a]) \X {a})
  /\ UNCHANGED <<governs, closed, linkedTo, receipts, reporter>>

\* A running job is claimed once its lock has expired, though its worker may live.
Take(h, a) ==
  /\ reporter[h].phase = "idle"
  /\ delivery[a] \in {"queued", "running"}
  /\ delivery' = [delivery EXCEPT ![a] = "running"]
  /\ reporter' = [reporter EXCEPT ![h] = [phase |-> "find", attempt |-> a, todo |-> {}]]
  /\ UNCHANGED <<governs, closed, linkedTo, receipts, due>>

Find(h) ==
  /\ reporter[h].phase = "find"
  /\ reporter' = [reporter EXCEPT ![h].phase = "store",
                                  ![h].todo = FindDecisions(WorkflowOf[reporter[h].attempt])]
  /\ UNCHANGED <<governs, closed, linkedTo, receipts, delivery, due>>

\* ON CONFLICT DO NOTHING.
Recorded(rows, a) == IF Contains(rows, a) THEN rows ELSE Append(rows, a)

RecordVerificationRun(h, d) ==
  /\ reporter[h].phase = "store" /\ d \in reporter[h].todo
  /\ receipts' = [receipts EXCEPT ![d] = Recorded(@, reporter[h].attempt)]
  /\ reporter' = [reporter EXCEPT ![h].todo = @ \ {d}]
  /\ UNCHANGED <<governs, closed, linkedTo, delivery, due>>

Stored(h) ==
  /\ reporter[h].phase = "store" /\ reporter[h].todo = {}
  /\ reporter' = [reporter EXCEPT ![h].phase = "evaluate"]
  /\ UNCHANGED <<governs, closed, linkedTo, receipts, delivery, due>>

\* The evaluation comes last, so that its failure takes no receipt away.
Finish(h) ==
  /\ reporter[h].phase = "evaluate"
  /\ delivery' = [delivery EXCEPT ![reporter[h].attempt] = "done"]
  /\ reporter' = [reporter EXCEPT ![h] = Waiting]
  /\ UNCHANGED <<governs, closed, linkedTo, receipts, due>>

\* An error at any step, recorded in the job even when another worker has finished it.
Fail(h) ==
  /\ reporter[h].phase # "idle"
  /\ \E s \in {"queued", "dead"} : delivery' = [delivery EXCEPT ![reporter[h].attempt] = s]
  /\ reporter' = [reporter EXCEPT ![h] = Waiting]
  /\ UNCHANGED <<governs, closed, linkedTo, receipts, due>>

\* The process dies; its job stays locked until the lock expires.
DieReporting(h) ==
  /\ reporter[h].phase # "idle"
  /\ reporter' = [reporter EXCEPT ![h] = Waiting]
  /\ UNCHANGED <<governs, closed, linkedTo, receipts, delivery, due>>

ReceiptNext ==
  \/ \E d \in Linked : GoLive(d) \/ Close(d)
  \/ \E d \in Linked, w \in Workflow : ConfigureVerificationCheck(d, w)
  \/ \E a \in Attempt : Deliver(a)
  \/ \E h \in Reporter :
       \/ \E a \in Attempt : Take(h, a)
       \/ Find(h) \/ Stored(h) \/ Finish(h) \/ Fail(h) \/ DieReporting(h)
       \/ \E d \in Linked : RecordVerificationRun(h, d)

ReceiptSpec == ReceiptInit /\ [][ReceiptNext]_receiptVars

------------------------------------------------------------------------------
(* What is shown.                                                          *)

\* Row i of a decision ranks before row j when it completed later or, if they completed
\* together, was stored later.
Before(d, i, e, j) ==
  LET s == CompletedAt[receipts[d][i]]
      t == CompletedAt[receipts[e][j]]
  IN s > t \/ (s = t /\ d = e /\ i > j)

\* The latest row of every workflow.
RankOne(D) ==
  {r \in UNION {{d} \X (1..Len(receipts[d])) : d \in D} :
     \A i \in 1..Len(receipts[r[1]]) :
       WorkflowOf[receipts[r[1]][i]] = WorkflowOf[receipts[r[1]][r[2]]] => ~Before(r[1], i, r[1], r[2])}

\* Mutant: one decision's worth of rows, however many are asked about.
OneDecisionsWorth(D) == MaxWorkflows

\* getContext asks for this many rows.
RowLimit(D) == Cardinality(D) * MaxWorkflows

\* listVerificationRuns: the rows of the live decisions D that are shown.
Shown(D) ==
  {r \in RankOne(D) : Cardinality({q \in RankOne(D) : Before(q[1], q[2], r[1], r[2])}) < RowLimit(D)}

\* An agent that asks about any of the live decisions is shown, for every workflow whose
\* attempt was delivered while it was linked and whose job is done, a receipt of that
\* workflow that is no older: in whatever order attempts were delivered and stored, and
\* however often their jobs failed, were cut off or ran twice.
LatestReceiptShown ==
  \A D \in SUBSET governs : \A p \in due :
    p[1] \in D /\ delivery[p[2]] = "done" =>
      \E r \in Shown(D) :
        LET a == receipts[r[1]][r[2]]
        IN /\ r[1] = p[1] /\ WorkflowOf[a] = WorkflowOf[p[2]]
           /\ CompletedAt[a] >= CompletedAt[p[2]]
===============================================================================
