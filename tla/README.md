# DecisionLoop in TLA+

DecisionLoop records the decisions a team takes, the assumptions each rests on, and the
evidence that later speaks for or against them. Agents and people ask it what they may rely
on. Its correctness is a matter of concurrency: evidence is evaluated by background runs that
ask a model in between, while people commit, supersede, accept and dismiss, and a sweep
expires assumptions. This directory holds TLA+ models of that core, the TLC configurations
that check them, and TLAPS proofs of what matters most.

- [1. The system](#1-the-system)
- [2. The modules](#2-the-modules-and-the-code)
- [3. The runs](#3-the-runs)
- [4. The proofs](#4-the-proofs)
- [5. Where the code and its comments disagree](#5-where-the-code-and-its-comments-disagree)
- [6. What is not modelled](#6-what-is-not-modelled)
- [7. Plan](#7-plan)

## 1. The system

### Components

Paths are relative to `src/`. The core is `packages/core` (rules and services) and
`packages/storage-sql` (the store); the rest brings calls to it.

| Component | State | Operations | What makes it correct |
|---|---|---|---|
| Lifecycle and policy rules (`core/src/lifecycle`, `core/src/policy`) | none | allowed transitions, severity of a contradiction, policies, outcome of a check | the worst verdict stands whatever the order; policies only soften |
| Decisions (`services/decisions.ts`) | decisions with their status and replacement, assumptions | propose, create, commit, request a commit, reject, supersede | closed decisions stay closed; nothing is left to decide about them |
| Conflicts and approvals (`services/approvals.ts`) | conflicts with their resolution; approval requests of five kinds | accept, dismiss, reopen, approve, reject, request evidence | requests and conflicts agree; what a person confirmed is not undone; a restored decision has nothing held against it |
| Evaluation (`services/triggers.ts`, TriggerEngine) | evidence, evaluations, conflicts | process an event: claim, store evidence, find candidates, judge, apply | one conflict per event and assumption across retries; severity never falls |
| Expiry sweep (`services/expiry.ts`) | conflicts without evidence | expire an assumption whose `validUntil` passed | a decision at risk says why |
| Event inbox and job queue (`services/triggers.ts`, `services/worker.ts`, `storage-sql/src/store.ts`) | events with a status and the time of their claim; jobs with attempts, lock and delay | ingest, claim, conclude, fail; enqueue, claim, complete, fail, dead-letter | one evaluator per event; no false success; every job settles |
| GitHub integration (`packages/github`) | deliveries, verification receipts, comments | webhook, github_event job | a delivery is evaluated once; the latest receipt of every workflow is shown |
| Document ingestion (`lib/engine/documentIngestion.ts`, `app/api/documents`) | documents with a status, chunks | upload, confirm, extract, ingest, evaluate inline | what is PROCESSED is searchable and is evidence |
| Memory index and retrieval (`lib/engine/decisionMemory.ts`, `services/decisions.ts`) | chunks, an index status per decision, retry jobs | index, replace, retry, search | what is INDEXED is whole; what is not is on somebody's list |
| Capturing decisions (`app/api/decisions`, a part of the web application) | decisions by Idempotency-Key | create, replay, retry the index | a key names one decision |
| Deterministic fact evaluation (`core/src/assumptions`) | none | compare an observed fact with an expectation | never wrong where it answers; the order of facts does not matter |
| Context and action checks (`services/context.ts`) | none (reads) | what an agent is told | nothing is missed that was true from the first read to the last |
| Decision graph (`services/graph.ts`) | none (reads) | bounded traversal | everything within the bound, at its distance |
| Migrations (`storage-sql/src/migrate.ts`) | a ledger of files and one of statements | apply those pending | what is recorded was applied; files take effect in order |
| Accounts (`app/api/auth/signup`, a part of the web application) | workspaces, users, sessions | sign up | one owner per workspace |
| Domain packs, resources, runtime, API/SDK/MCP/CLI, providers, the rest of the web application and of the 1.x engine | configuration, sessions | adapters | - |

### How they interact

```
 API / SDK / MCP   upload          webhook
        |             |               |
        v             v               v
   EvidenceService.ingest        jobs: github_event
     |          |                     |
   inbox   jobs: process_event        |
     |          |                     |
     |       Worker.runOnce  <--------+
     |          |
     +--> TriggerEngine.process <-- the upload itself, inline
                |   reads candidates, asks a model, then
                v   one transaction per candidate
     decisions, assumptions, conflicts, approvals
        ^                ^              ^
   DecisionService  ApprovalService  expiry sweep
   (people, agents)   (people)
```

- A request stores an event and queues a job in two statements. Workers poll the queue every
  second; an upload evaluates its own event inline, beside the job queued for it.
- TriggerEngine claims the event with one conditional update; whoever loses polls for the
  winner's result. Candidates and their validities are read once, before any model is asked.
- Each candidate's outcome is applied in a transaction of its own, computed from what was read.
- People's requests read a decision or an approval request and then write in a transaction.
- An agent's check reads decisions, replacements, conflicts and constraints in seven statements
  outside any transaction, while all of the above go on.
- Capturing a decision, intake of a document and signing up are sequences of statements in one
  request each, which may be repeated, overlap or be cut off. A worker retries an index that
  failed in the services; a person's client retries one that failed in the web application.
- Every transaction checks the status transition again. What else a write depends on is read
  again only by the sweep, accept and dismiss.

### What is hard

Runs and people interleave between a read and the write that relies on it; several runs judge
one assumption; a run throws or dies at any point and its event is retried with facts the
model may extract differently; locks and claims expire at different ages; the loser of a claim
waits for a winner that may be dead; what holds a decision at risk is spread over two tables
that four kinds of transaction write. `PROJECT.json` lists these hazards at their lines, with
the properties that cover each.

## 2. The modules and the code

| Module | Models | Used by |
|---|---|---|
| `Lifecycle` | the pure rules, as operators | the three below |
| `SequentialEvaluation` | one assumption judged against evidence one item at a time | `MCSequentialEvaluation`, which `MCServices` extends |
| `DecisionTrust` | abstract: what memory promises about a decision's standing | `DecisionMemory` |
| `DecisionMemory` | decisions, assumptions, conflicts, approvals under evaluation runs, people and the sweep | `MCDecisionMemory` |
| `EventPipeline` | inbox, jobs, workers and requests, with time | `MCEventPipeline` |
| `AgentContext` | getContext, checkAction and getConstraints, reading `DecisionMemory` while it changes | `MCAgentContext` |
| `DecisionCapture` | saving a decision under a key, indexing it, adding assumptions | `MCServices` |
| `DocumentIntake` | a document's way to being searchable and being evidence | `MCServices` |
| `VerificationReceipts` | CI workflows linked to decisions, their receipts, and which are shown | `MCServices` |
| `MigrationRunner` | migration runners over one schema and two ledgers | `MCServices` |
| `DecisionGraph` | the traversal of dependencies while decisions are recorded | `MCServices` |
| `FactJudgment` | comparison of facts with an assumption, and the verdict | `MCServices` |
| `Accounts` | signing up, local and hosted | `MCServices` |
| `AnswerProofs` | theorems about `VerificationReceipts`, `FactJudgment` and `DecisionGraph` | `ServicesProofs` |
| `ServicesProofs` | theorems about `MigrationRunner`, `DocumentIntake` and `Accounts`, and about all of `MCServices` | - |
| the other `*Proofs` | theorems about the module they are named after; `DecisionMemoryProofs` also about `DecisionTrust` | - |

**Lifecycle.** Confidences, authorities and importances are integers in hundredths. The code
computes `assumptionAuthority - 0.1` in binary floating point; `RoundsUp` lists the authorities
for which the result lies above the decimal one, so the comparison decides as the code does on
every two-decimal authority. `Outcome` is `resolveEvaluationOutcome` after classification and
policies, in the code's order of early returns.

**SequentialEvaluation** keeps an assumption's validity, whether its decision was flagged, and
what was seen. It says what the rules achieve when no step interleaves; `DecisionMemory` shows
what is left of that when steps do.

**DecisionMemory.** Every `store.transaction` is one atomic step: the code targets serializable
transactions (CockroachDB's default). What is read outside a transaction is kept in the actor's
record, `work[run]` or `session[person]`, and used later. The actions are the operations:

| Code | Actions |
|---|---|
| `propose`, `create`, `commit` by an agent | `Propose`, `Create`, `RequestCommit` |
| `commit` by a person, `approve` of a commit | `ReadToCommit`, `Commit` |
| `reject`, `link_existing` | `ReadToReject`, `Reject`, `CloseRejected` (two transactions) |
| `supersede` | `ReadToSupersede`, `Supersede` |
| `acceptConflict`, `dismissConflict`, `reopenDecision` | `Accept`, `Dismiss`, `Reopen` |
| `requestEvidence`, profile suggestions | `RequestEvidence`, `ResolveAlias` |
| `expireDueAssumptions` | `Expire` |
| `TriggerEngine.process` | `Claim`, `FindCandidates`, `SkipEvaluated`, `RecordEvaluation`, `RaiseConflict`, `Finish`, `Fail`, `Crash` |
| a request that dies or is refused | `Abandon` |

Which candidates are found and what a model answers is left open: any set of live assumptions,
any judgement in `Judgement`. The evidence an event becomes may differ on a retry (`EventOf`
maps several pieces of evidence to an event), as its identity hashes extracted facts.
`Overrun` says whether a run may still be at work ten minutes after its claim.

**EventPipeline.** Every SQL statement is one step. A caller (request or worker) keeps its stage
and its errand; `Throw` fails any step, with or without the failure being written down (a request
that dies writes nothing), and `Crash` ends a worker with its batch. `Tick` ages claims, locks,
delays and polls, each up to the limit the code compares it with, so time needs no bound. What an
evaluation does to memory is not repeated here.

**DecisionTrust** knows a standing and a set of concerns per decision. A step concerns one
decision; raising a concern questions it, settling the last one restores trust, closing is for
good. `DecisionMemory` implements it with `Standing` and the open conflicts together with the
doubtful assumptions: TLC checks `KeepsTrust` and `MemoryKeepsTrust` proves it.

**AgentContext** extends `DecisionMemory`: an asker takes one read per step (`Match`, `ReadRows`,
`Hydrate`, `ReadReplacements`, `HydrateReplacements`, `Tell`, `Check`; `MatchLive` and
`ListConstraints` for getConstraints), and between any two of them any step of `DecisionMemory`
may happen. An answer put together from several moments is not true of one, so its properties
speak of what held from the first read to the last; ghosts (`alwaysLive`, ...) keep that. The
order of relevance is left open: when more is matched than fits, any choice within the budget.

**DecisionCapture** follows one Idempotency-Key, hence one decision, whose memory is a unit for
itself and one per assumption. A chunk is a unit with the request that wrote it, so that two
chunks of one unit differ.

| Code | Actions |
|---|---|
| `POST /api/decisions` | `Post`, `Create`, `MarkPending`, `DeleteChunks`, `InsertChunk`, `InsertFails`, `Inserted`, `MarkIndexed`, `MarkFailed`, `Straggled` |
| `POST /api/decisions/[id]/memory` | `RetryIndex`, and from `MarkPending` on as above |
| `proposeAssumption` by a person | `AddAssumption`, `ReadDecision`, `ReplaceMemory`, `MarkCore`, or `CoreFails` and `QueueJob` |
| `resolve` of ADD_ASSUMPTION | `Approve`, `AddApproved`, the indexing above, `ResolveAdd`; `RejectAdd` |
| the `index_decision` job | `StartJob` and the indexing above |
| the death of a process | `Die` |

**DocumentIntake**: a confirmation goes through `StartProcessing`, `Extract`, `Lookup`, then
`MarkCopy` for a copy of a processed document or `Index` and `MarkProcessed`, then
`IngestEvidence` and `Evaluated`; `IntakeFails`, `RecordFailure` and `CutOff` end it anywhere.

**VerificationReceipts**: `due` collects the pairs of a decision and an attempt that was
delivered while the two were linked; the jobs that store receipts are taken by any worker,
fail, die and run twice. `Shown` is the ranking and the limit of `listVerificationRuns`.

**MigrationRunner**: what a statement does when it is executed twice is all that matters of it
(`Kind`). Executing it and recording it are two steps (`Execute`, `RecordStep`), as are the last
statement and the file's own record (`RecordFile`).

**DecisionGraph**: one hop is one step, since its second read asks for the ids its first
read found; `Listings` is what a page of `listDecisions` may hold. The answer is compared with
chains of dependencies, enumerated.

**FactJudgment**: `Comparable` and `Holds` translate the code's branches by value type and
operator; `VerdictFollowsFacts` compares the verdict with `Satisfies`, a definition of each
operator from an order on values, and with the set of facts instead of their sequence.

**Accounts**: the check, the creation of the workspace, the insertion under the workspace's
lock, and the session are a step each.

The specification modules also define, beside some operators, a variant a plausible bug would
produce ("mutant"). Each property of each passing run is known to fail with one of them put in
the operator's place.

## 3. The runs

| Run | Instance | Distinct states | Shows |
|---|---|---|---|
| `memory_races` | a decision and its replacement, 1 assumption, 1 event that may become 2 pieces of evidence, 2 runs that may overrun, 1 person | about 360,000 | `RiskHasReason`, `ConfirmedNeverRestored`, `ReviewAgreesWithConflict`, `HistoryIsFinal`, `KeepsTrust` |
| `memory_one_decision` | 1 decision with 2 assumptions, one expiring and named differently by evidence, 1 event with 2 readings, every judgement, 1 run, 1 person | 947,563 | `ActiveMeansTrusted`, `OneConflictPerEvent` |
| `event_pipeline` | 2 events, a request that uploads one or delivers the other, 2 workers, everyone mortal | 238,673 | `OneEvaluator`, `SucceededMeansProcessed`, `ProcessedIsFinal`, `JobsSettle` |
| `agent_context` | 2 decisions, the first of which governs the action and may be superseded by the other; 1 assumption that may expire; 1 person; budgets of 1 and 2 | 111,051 | `GoverningIsTold`, `StopNotMissed`, `DoubtIsTold`, `ReplacementGoverns` |
| `services` | the eight components that share no state, see below; for sequential evaluation seven items around the thresholds, 5 sets of policies, 3 authorities, 2 importances (3,840 states) | about 664,000 | fifteen invariants, one to four per component |
| `tolerance_edge`, `late_evidence`, `late_supersession`, `parked_review`, `cut_off_upload`, `unqueued_event`, `retried_index` | the smallest that shows the point | | section 5 |

Why these are large enough.

- *Sequential evaluation.* The rules compare with four thresholds; there is an item on each
  side of each. Validity moves at most twice, so seven items cover every order that matters.
- *Memory.* The invariants relate a decision to its conflicts and assumptions. Two pieces of
  evidence give two conflicts on one assumption; two assumptions give concerns of different
  origin; a replacement gives supersession; two runs give every stale read against a write. The
  constraint `ReplacementOnly` keeps the second decision to that role, and `Sweep` bounds the
  sweep to one expiry, enough for a conflict without evidence.
- *Pipeline.* The code's limits are five attempts, 30 s of polling, backoff up to 32 s, ten
  minutes for a claim and thirty for a lock. `event_pipeline` keeps that order in small numbers
  (`MaxAttempts` 2, `Patience` 1, `Backoff` 1, `Takeover` 3, `LockTimeout` 4; a batch of 2): one
  retry, one dead letter and one takeover are each reached. `cut_off_upload` and
  `unqueued_event` use the code's values in ticks of 30 s (5, 1, 2, 20, 60), because what they
  show is a matter of those values.

- *Context.* Each property relates one governing decision to one answer, and the second decision
  is the replacement or the competitor for the budget. `NoProposals` leaves out drafts, which no
  read returns. The changes are a person's and the sweep's: between them they take a decision
  through every status, and an evaluation changes nothing else that a read looks at.
- *Services.* `MCServices` puts eight specifications side by side. `part`, chosen initially,
  says which of them moves while the others rest, so a run explores the sum of the state spaces.
  Two requests (runners, reporters, workers) give every overlap, and each may fail or die at
  every step. Three migration files hold one of each kind of statement, the second file may
  fail, and a DROP is followed by the ADD it prepares. Two bodies race for one key; a decision
  grows from no assumption to two, one being the requested one (`FewUnits` ends this once
  requests overlap and the invariants ask less). Two documents of one content make copies. Two
  attempts of one workflow are delivered in either order. Four decisions with `MaxDepth` 2 and a
  page of 2 reach truncation, two paths to one decision and a clipped page. Every value type meets
  every operator and up to two facts of every type, including a prerelease, an unequal number of
  version parts and a unit that differs. Two signups, with one or two addresses, are local or
  hosted. Requests, bodies and linked decisions are symmetric (no liveness is checked here), and
  `InOrder` records the graph's decisions in the order of their numbers, which are names.

`CHECK_DEADLOCK FALSE` is given everywhere but in `agent_context`: a workspace in which all is
decided, or a queue without jobs and deliveries, rightly rests.

**Provisos.** `ActiveMeansTrusted` and `KeepsTrust` hold when at most one request of a person that
takes several steps (a commit, a rejection or a supersession) is under way at a time, and without
a workspace rule `do_not_flag_decision`. With two commits that both read DRAFT, the second makes a
decision ACTIVE that evidence has put at risk meanwhile (`decisions.ts:332`).
`WorstVerdictStands` is proved for evidence that is not exactly a tenth below an authority in
`RoundsUp` (`AwayFromTheEdge`; the run has no such item, and `tolerance_edge` shows why).
`OneConflictPerEvent`, `OneEvaluator` and `ProcessedIsFinal` assume that no evaluation outlasts
its claim; `memory_races` allows it. The properties of `AgentContext` except an answer that
used up the caller's budget; they speak of decisions that governed, and of doubt that lasted,
throughout the request: one reopened or superseded after its row was read is still answered
clear (`Rechecked`). In the services some properties name the case in which they fail
to hold, by a ghost that a reader of the code will want to know of:

- `IndexedMeansWhole` and `ApprovedAddsOnce`: two requests worked on the decision at once, or
  one died after adding an assumption (`disturbed`). Then chunks may be doubled or missing
  under INDEXED (`retried_index`), and an approved assumption may be added twice, or one that was
  rejected meanwhile added all the same.
- `ProcessedIsEvidence`: a request died, or a document was taken for a copy of one whose
  evaluation was still under way (`leaned`) and then failed.
- `RecordedMeansApplied`: a runner looked for a DROP CONSTRAINT in the ledger before another
  recorded it, and drops the constraint the other has since added (`dropRaced`).
- `BlastRadiusComplete`: one hop found more decisions than a page lists (`clipped`).

**Fairness** is assumed only in `EventPipeline`: time passes; a worker at rest claims or starts a
job; a caller proceeds or throws. The worker's loop polls each second and awaits one handler at
a time, and a request is answered or given up, so each of these is what the code does. Nothing
is assumed about arrivals, about evaluations succeeding, or about who dies when. Under it
`JobsSettle`: every job ends SUCCEEDED or DEAD and is never touched again.

## 4. The proofs

TLAPS proves these for every value of the constants that the named assumptions allow.

| Theorem | Says |
|---|---|
| `PoliciesSoften` (`LifecycleProofs`) | more rules never invalidate, record or flag more |
| `EvaluationTypes` (`SequentialEvaluationProofs`) | `EvaluationSpec => []EvaluationTypeOK`: no combination of rules writes an undefined validity |
| `WorstStands` | with `AwayFromTheEdge`, after any evidence in any order the worst verdict of it all stands |
| `SofteningAlways` | under any rules an assumption and its decision fare no worse than without rules |
| `TypeCorrect` (`DecisionMemoryProofs`) | `Spec => []TypeOK` |
| `RiskExplained` | a decision at risk has an open conflict or a doubtful assumption |
| `ConfirmedStands` | an assumption confirmed invalid is never restored |
| `ReviewsAgree` | reviews and conflicts agree |
| `HistoryFinal` | no step changes a resolution or leaves SUPERSEDED or ARCHIVED |
| `ActiveTrusted` | with `OneCommitter` and `AlwaysFlags`, a decision that reads ACTIVE has nothing held against it |
| `MemoryKeepsTrust` | with these and `ConcernsApart`, `Spec => Trust!Spec`: decision memory implements `DecisionTrust` |
| `TrustMeansNoConcern` | in the abstract specification, standing and concerns match |
| `MemoryReadsTrue` | hence, through the refinement, they match in decision memory |
| `OneConflict` | with `~ Overrun`, one event opens one conflict on an assumption |
| `PipelineTypes` (`EventPipelineProofs`) | `Spec => []TypeOK` |
| `OneAtATime` | with `~ Overrun`, an event has at most one evaluator |
| `SuccessIsReal` | with `~ Overrun`, a job is SUCCEEDED only when its event is PROCESSED |
| `ProcessedStays` | with `~ Overrun`, a processed event stays so |
| `AttemptsCounted` | overruns or not, no step takes an attempt back or queues a DEAD job again |
| `ContextTypes` (`AgentContextProofs`) | `ContextSpec => []ContextTypeOK`, budgets included |
| `GoverningTold`, `StopTold`, `DoubtTold`, `ReplacementTold` | the four properties of an agent's answer |
| `CaptureInvariant` (`DecisionCaptureProofs`) | the inductive invariant of capturing a decision |
| `OneDecisionPerKey`, `UnindexedKnown`, `AddedOnce`, `IndexedWhole` | its four properties |
| `ReceiptInvariant`, `LatestShown` (`AnswerProofs`) | the row limit never hides the latest receipt of a workflow |
| `ComparesVersions` | `CompareVersions` orders versions of any length by the first place they differ, then by the prerelease |
| `HoldsMeansSatisfies` | for every type, operator and comparable value, `Holds` is what the assumption says |
| `FactsDecide` | the verdict follows from the facts, whatever their number and order |
| `GraphInvariant`, `AnswersAreComplete` | a traversal names exactly what depends on its root within its depth, at its distance, or says it is truncated |
| `MigrationInvariant` (`ServicesProofs`) | the inductive invariant of the runners |
| `RecordedIsApplied`, `OrderKept` | the ledger is true; files take effect in order |
| `IntakeInvariant` | the inductive invariant of intake |
| `ProcessedFound`, `ProcessedCounts` | what is PROCESSED is searchable, and is evidence |
| `AccountInvariant`, `OneOwnerEach` | no workspace has two owners, no email two accounts |
| `ServicesTypes` | in every behaviour of `MCServices` each of the eight components is type-correct |

*Sequential evaluation.* `WorstVerdictStands` compares the validity with the whole history, yet
is inductive: whether an item is heard, and whether it settles the matter, depend on the item
and the setting alone (`Heard`, `Settles`), so an evaluation takes the worse of what stands and
what the item deserves (`EvaluationTakesTheWorse`), from `Lifecycle`'s definition of `Outcome`.
`SofteningAlways` is `PoliciesSoften` at every validity reached.

*Decision memory.* Each of `RiskHasReason`, `ConfirmedNeverRestored` and
`ReviewAgreesWithConflict` is inductive together with `TypeOK`; the step lemmas (`TypeStep`,
`RiskStep`, `ConfirmedStep`, `ReviewStep`, `FinalStep`) have one case per action. `LoudSteps`
reduces `Next` to the actions that write conflicts, validities, statuses or reviews;
`RaisedConflict` says what the outcome rules make of a conflict's assumption, from `Lifecycle`'s
`OutcomeRange`. `RiskExplained` turns on three facts: a status becomes AT_RISK only in a step that
opens a conflict on the decision; a conflict is closed by acceptance, which leaves its assumption
INVALIDATED, by supersession, which leaves the decision closed, or by dismissal, which counts
again; and an evaluation that overwrites a validity never makes it unquestioned. `ConfirmedStands`
needs that a validity is restored by dismissal alone, which looks for an accepted conflict on the
same assumption.

`ActiveMeansTrusted` is not inductive: a commit must find a draft, and a draft must have nothing
held against it. `Taken` adds that what a run holds as a candidate has been taken (a live
decision never becomes a draft again, `TakenForGood`), that who read a draft to commit it still
finds one, which is where `OneCommitter` is used, and that nothing absent is asked about.
`Elsewhere` says that a transaction changes one decision; `TrustMove` says a step of
`DecisionTrust` in terms of statuses and concerns, and each action is shown to be such a move or
to change nothing the abstract specification sees. `ConcernsApart` is about names only: a pair
that names a conflict is not an assumption.

`OneConflictPerEvent` rests on `RetryInv`: a run at work has its event PROCESSING and to itself
(`Claimed`, `Alone`), has each assumption once among its candidates (`Reads`), and while judging
holds none that the event was judged against (`Unjudged`); a conflict is never without the
evaluation that opened it (`Settled`), since one transaction stores both.

*Pipeline.* `OneEvaluator` is not inductive: that nobody is evaluating an event another may claim
must follow from the age of the claim. The invariant proved is `WellFormed` (`TypeOK`; a worker at
work has a job's errand; a queued job has an attempt left) with `Protected`: an evaluator's event
is PROCESSING and its claim is younger than `Takeover`; there is one of them; a caller that
returned has its event PROCESSED; and so has a job that SUCCEEDED. `Tick` keeps it because without
overrun no claim under evaluation reaches `Takeover`. `AttemptsCounted` needs none of `Protected`:
an unqueued job has made no attempt and a dead one all of them (`AttemptsAreCounted`), in every
deployment.

*Context.* The invariant says, for every stage of a request, that a decision live since the
first read is still among what was matched, read or told, and that what its row says then is
something it was in that time. A step of `DecisionMemory` changes none of what a request holds
and can only shrink what has always been so; this is where `TypeCorrect` is used.

*Migrations.* Four facts carry the ledger: a runner that is past a statement has it recorded;
what is recorded has taken effect, drops that were raced excepted; a recorded file has all its
statements recorded; and the statements of a file are recorded in order.

*Intake.* `ProcessedIsEvidence` is not inductive: a document is PROCESSED before its evidence is
stored. `SeenTo` adds that some request is then on its way to store it or to record its failure.

*Capture.* `CaptureInv` is `CaptureTypeOK` with four parts, one per property. `Keys`: whoever is
past creation works with the winner's body. `Attended`: an index that is not done has a job, an
informed caller or a request on its way to settle it. `Once`: undisturbed, there is one request
at work, and an assumption that was added has its approval on the way to be closed. `Indexing`:
undisturbed, an INDEXED decision is whole or has just been given an assumption by a request that
is about to index it, and in every phase the chunks are exactly those the request has inserted.
`Placed` and its lemmas say where a request is after each kind of move, and every action has a
lemma of its own.

*Receipts.* The limit is a number of rows, so the invariant (`ReceiptInv`) counts: a decision is
linked to no more than `MaxWorkflows` workflows and has receipts of those only, so the rows that
are the first of their workflow are no more than `RowLimit` (`FirstRowsAreFew`, by numbering each
decision's workflows), and all of them are shown (`FirstRowsAreShown`). `DueIsSeenTo` follows a
receipt that is due: it is stored, or on the list of the worker that stores it, or its decision is
still linked for a job to find. That a workflow's rows have a first one, ties included, is
`LatestExists`.

*Least elements.* Induction being out of reach, `AnswerProofs` takes least elements: the strict
subset ordering on finite sets is well founded (a library theorem without operator parameters),
so a family of finite sets has a minimal member, a set of naturals a least one and a finite
strict order a first element (`MinimalSet`, `LeastNatural`, `FirstExists`).

*Facts.* `ComparesVersions` takes the least place at which two versions differ;
`HoldsMeansSatisfies` goes through the operators of each value type; `JudgeIsRight` through the
verdicts, the order of the facts dropping out because a verdict looks at who is there. The
definition of the reference, `Satisfies`, is a disjunction, since operators of several types
share a name and arms of a CASE that overlap would leave the choice open.

*Graph.* `GraphInv` says that a decision is recorded after those it depends on (`OlderFirst`), that
what was found sits at the length of a chain to the root (`LevelsAreHops`), that nothing hangs off
a passed frontier unfound (`NonePassedOver`), and that a traversal ends with an empty frontier or
truncated (`EndsWhenDone`). A chain of decisions known when it was asked is then followed from
the root (`ChainIsFollowed`, by the least hop that would be missing); chains run towards older
decisions, so none is longer than there are decisions.

*Accounts.* `OwnersAreApart` is not inductive by itself: that a hosted workspace has no owner
when its request inserts one is because no other request makes that workspace (`Hosted`,
`SignupIsDone`); the shared one is checked in the statement that inserts.

*Services.* `PartsBehave`: a step of `MCServices` is a step of one component that leaves the rest
alone, so the theorems about each component hold of the composition.

*Assumptions.* The constants are constrained by named `ASSUME`s in the modules that declare
them: ranges (authorities and confidences in 0..100, `EvaluationAssumption`), functions of the
right shape, names that are apart (`Unsaved` is no body), at least one attempt or address
(`ReceiptAssumption`, `AccountAssumption`), versions that are sequences of naturals and facts
whose types have operators (`JudgmentAssumption`). TLC evaluates them in the runs. The four that
restrict behaviour rather than data (`OneCommitter`, `AlwaysFlags`, `~ Overrun`,
`AwayFromTheEdge`) are hypotheses of the theorems that need them; section 3 (Provisos) says what
happens without.

*Only model-checked.* `JobsSettle`: liveness under fairness is out of the prover's reach. Its safe
half is `AttemptsCounted`. Every other property of a passing run is stated by a theorem.

## 5. Where the code and its comments disagree

Each is a run whose one property states the comment and fails.

| Run | The comment | What happens |
|---|---|---|
| `tolerance_edge` | evidence may sit a tenth below the assumption's authority | 0.7 against 0.8 does not reach it in floating point |
| `late_evidence` | a weaker contradiction must not turn INVALIDATED back into CHALLENGED | the severity is compared with what the run read, so a late run does |
| `late_supersession` | nothing is left to decide about a replaced decision | a run that read its candidates before opens a conflict and a review on it |
| `parked_review` | open requests still need a person | a review parked for evidence outlives its conflict and can no longer be decided |
| `cut_off_upload` | a failure is retried by the worker | five attempts are spent within four minutes, the claim lapses after ten |
| `unqueued_event` | evaluation happens on the worker | a retry of a submission cut off between its two statements is answered, but no job exists |
| `retried_index` | a retry replaces the prior partial index | it deletes while the first request still inserts: one chunk twice, another lost, INDEXED |

One more thing looks like a disagreement and is not counted as one. No code reads the policy
`SEMANTIC_ONLY`, and an assumption under `MANUAL` is compared like any other whenever a fact is
comparable. The explanation "not evaluated automatically" (`triggers.ts:573`) is given only when
nothing could be compared, and docs/v2 lets the policy restrict the semantic fallback alone.
`FactJudgment` models what is done: `VerdictFollowsFacts` covers these assumptions too.

## 6. What is not modelled

- Retrieval, embeddings, ranking and judgement by a model: their results are nondeterministic
  choices. Scoring is floating-point arithmetic over vectors.
- Constraint findings and related decisions of an evaluation, and the advisory comment on a pull
  request.
- `supersede_old` after a commit and a creation that names what it supersedes, as one request:
  the two halves are separate actions here. The closing of ADD_ASSUMPTION by a supersession.
- List limits other than the graph's and the receipts' (one hundred conflicts or requests per
  page): the models list all.
- Isolation weaker than serializable.
- Text: extraction of facts, chunking, the splitting of SQL into statements, globs and aliases
  of resources, units. They are parsers without state, beyond what TLC can enumerate.
- Traces, audit records and memory events, which are written and never read back by the code
  that decides anything; `includeSuperseded`; `SessionService.inspect`, which joins listings.
- `conflictDetection.ts` of the 1.x engine, which is deprecated: seeds and tests alone reach it.
- Adapters (HTTP, SDK, MCP, CLI), providers, pages, sessions after signup, API keys, request
  limits: parsing, network, hashing, one-statement counters and rendering without protocol of
  their own. They are most of the repository's lines.

## 7. Plan

Done, in this order: `Lifecycle`, `SequentialEvaluation`, `DecisionMemory`, `DecisionTrust`,
`EventPipeline`, `AgentContext`, `MigrationRunner`, `DecisionCapture`, `DocumentIntake`,
`VerificationReceipts`, `DecisionGraph`, `FactJudgment`, `Accounts`, and the proofs above. Next:

1. Composite requests (`supersede_old`, a creation that supersedes) as the several transactions
   they are, with a failure between any two.
2. `EventPipeline` with overrunning evaluations, and with the comment.
3. List limits in `DecisionMemory` as a constant.
