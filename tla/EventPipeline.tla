---------------------------- MODULE EventPipeline ----------------------------
(***************************************************************************)
(* How an event gets evaluated: it is received into the inbox, a durable    *)
(* job is queued for it, and workers, or the request that brought it, run   *)
(* TriggerEngine.process on it (services/triggers.ts, services/worker.ts,   *)
(* and the inbox and the job table of storage-sql/store.ts).               *)
(*                                                                         *)
(* Every SQL statement is one step.  A caller of process, be it a worker    *)
(* or a request, holds between its steps only its stage and what it works   *)
(* for.  What an evaluation does to memory is DecisionMemory's; here it is  *)
(* only under way, concluded, or thrown out of.                            *)
(*                                                                         *)
(* Time passes in ticks.  The clocks that matter are the ages of an event's *)
(* claim and of a job's lock, a job's backoff, and the polls a caller has   *)
(* left; each stops at the limit the code compares it with.                *)
(***************************************************************************)
EXTENDS Naturals, FiniteSets

CONSTANTS
  Event,
  Request, Brings,   \* a delivery, and the <<how, event>> pairs it may bring
  Worker,
  MaxAttempts, BatchSize,
  Patience,          \* the polls of a caller that found the event claimed
  Backoff,           \* the longest delay before a retry
  Takeover,          \* the age at which an event's claim may be taken over
  LockTimeout,       \* the age at which a job's lock may
  Mortal,            \* the callers that may throw or die
  Overrun            \* may an evaluation outlast Takeover?

\* How an event is brought: submitted to the API, uploaded as a document, sent
\* as a webhook; or by one of the two kinds of job that process events.
How     == {"api", "document", "webhook"}
JobKind == {"process_event", "github_event"}
Job     == JobKind \X Event
Errand  == (How \cup JobKind) \X Event

Caller == Request \cup Worker

ASSUME BringsAssumption == Brings \in [Request -> SUBSET (How \X Event)]
ASSUME CallerAssumption == Request \cap Worker = {} /\ Mortal \subseteq Caller
ASSUME LimitAssumption ==
  /\ MaxAttempts \in Nat \ {0}
  /\ BatchSize \in Nat \ {0}
  /\ Patience \in Nat
  /\ Backoff \in Nat \ {0}
  /\ Takeover \in Nat \ {0}
  /\ LockTimeout \in Nat \ {0}
  /\ Overrun \in BOOLEAN

VARIABLES
  inbox,      \* the status of an event, or ABSENT
  claimAge,   \* since processing_started_at
  job,        \* status, attempts, ticks until run_after, ticks since locked_at
  caller,     \* where each request and each worker is, and for whom
  batch       \* the jobs a worker has claimed and not yet finished

vars == <<inbox, claimAge, job, caller, batch>>

Stage == {"new", "storing", "queueing", "reading", "claiming", "waiting", "evaluating",
          "returned", "threw", "answered"}

Idle        == [stage |-> "idle"]
CallerState == {Idle} \cup [stage : Stage, errand : Errand, polls : 0 .. Patience]

JobState    == [status   : {"ABSENT", "QUEUED", "RUNNING", "SUCCEEDED", "DEAD"},
                attempts : 0 .. MaxAttempts,
                delay    : 0 .. Backoff,
                lockAge  : 0 .. LockTimeout]

TypeOK ==
  /\ inbox \in [Event -> {"ABSENT", "RECEIVED", "PROCESSING", "PROCESSED", "FAILED"}]
  /\ claimAge \in [Event -> 0 .. Takeover]
  /\ job \in [Job -> JobState]
  /\ caller \in [Caller -> CallerState]
  /\ batch \in [Worker -> SUBSET Job]

Row(status, attempts, delay, lockAge) ==
  [status |-> status, attempts |-> attempts, delay |-> delay, lockAge |-> lockAge]

Init ==
  /\ inbox = [e \in Event |-> "ABSENT"]
  /\ claimAge = [e \in Event |-> 0]
  /\ job = [j \in Job |-> Row("ABSENT", 0, 0, 0)]
  /\ caller \in [Caller -> {Idle} \cup [stage : {"new"}, errand : How \X Event, polls : {0}]]
  /\ \A q \in Request : caller[q] # Idle /\ caller[q].errand \in Brings[q]
  /\ \A w \in Worker : caller[w] = Idle
  /\ batch = [w \in Worker |-> {}]

------------------------------------------------------------------------------
EventOf(p) == caller[p].errand[2]
Why(p)     == caller[p].errand[1]

At(p, stage)    == caller[p].stage = stage
GoTo(p, stage)  == caller' = [caller EXCEPT ![p].stage = stage]
Evaluators(e)   == {p \in Caller : At(p, "evaluating") /\ EventOf(p) = e}

\* enqueueJob: the dedupe key makes a second call a no-op.
Enqueued(j) == IF job[j].status = "ABSENT" THEN [job EXCEPT ![j] = Row("QUEUED", 0, 0, 0)] ELSE job

------------------------------------------------------------------------------
(* Receiving (EvidenceService.ingest and the requests around it).          *)

\* A webhook delivery only queues a job; the others ingest in the request.
Deliver(q) ==
  /\ At(q, "new")
  /\ IF Why(q) = "webhook"
       THEN /\ job' = Enqueued(<<"github_event", EventOf(q)>>)
            /\ GoTo(q, "answered")
       ELSE /\ GoTo(q, "storing")
            /\ UNCHANGED job
  /\ UNCHANGED <<inbox, claimAge, batch>>

\* An upload and a github_event job go on to process the event themselves.
AfterIngest(p) == IF Why(p) = "api" THEN "answered" ELSE "reading"

\* insertEvent: a replayed event is answered with the original and queues nothing.
Store(p) ==
  /\ At(p, "storing")
  /\ IF inbox[EventOf(p)] = "ABSENT"
       THEN /\ inbox' = [inbox EXCEPT ![EventOf(p)] = "RECEIVED"]
            /\ GoTo(p, "queueing")
       ELSE /\ GoTo(p, AfterIngest(p))
            /\ UNCHANGED inbox
  /\ UNCHANGED <<claimAge, job, batch>>

Queue(p) ==
  /\ At(p, "queueing")
  /\ job' = Enqueued(<<"process_event", EventOf(p)>>)
  /\ GoTo(p, AfterIngest(p))
  /\ UNCHANGED <<inbox, claimAge, batch>>

------------------------------------------------------------------------------
(* TriggerEngine.process, up to its evaluation and after it.               *)

\* An event that is already processed has its stored result returned.
Read(p) ==
  /\ At(p, "reading")
  /\ GoTo(p, IF inbox[EventOf(p)] = "PROCESSED" THEN "returned" ELSE "claiming")
  /\ UNCHANGED <<inbox, claimAge, job, batch>>

\* Mutants: the age of the claim is not looked at; nor is the end of the work.
ClaimsAnyway(e)    == inbox[e] \in {"RECEIVED", "FAILED", "PROCESSING"}
ClaimsProcessed(e) == inbox[e] # "PROCESSING" \/ claimAge[e] = Takeover
Claimable(e) ==
  \/ inbox[e] \in {"RECEIVED", "FAILED"}
  \/ inbox[e] = "PROCESSING" /\ claimAge[e] = Takeover

\* claimEvent: one conditional UPDATE, so of two callers one gets the event.
Claim(p) ==
  LET e == EventOf(p) IN
  /\ At(p, "claiming")
  /\ IF Claimable(e)
       THEN /\ inbox' = [inbox EXCEPT ![e] = "PROCESSING"]
            /\ claimAge' = [claimAge EXCEPT ![e] = 0]
            /\ GoTo(p, "evaluating")
       ELSE /\ caller' = [caller EXCEPT ![p] =
                 [stage |-> "waiting", errand |-> caller[p].errand, polls |-> Patience]]
            /\ UNCHANGED <<inbox, claimAge>>
  /\ UNCHANGED <<job, batch>>

\* The loser polls for the winner's result.  Mutant: it takes any end of the
\* winner's work for a result.
AnyEnd(e)    == inbox[e] \in {"PROCESSED", "FAILED"}
HasResult(e) == inbox[e] = "PROCESSED"

Look(p) ==
  LET e == EventOf(p) IN
  /\ At(p, "waiting")
  /\ \/ HasResult(e) /\ GoTo(p, "returned")
     \/ ~ HasResult(e) /\ inbox[e] \in {"FAILED", "RECEIVED"} /\ GoTo(p, "threw")
     \/ inbox[e] = "PROCESSING" /\ caller[p].polls = 0 /\ GoTo(p, "threw")
  /\ UNCHANGED <<inbox, claimAge, job, batch>>

\* The result is stored, whatever the status has become meanwhile.
Conclude(p) ==
  /\ At(p, "evaluating")
  /\ inbox' = [inbox EXCEPT ![EventOf(p)] = "PROCESSED"]
  /\ GoTo(p, "returned")
  /\ UNCHANGED <<claimAge, job, batch>>

\* So is the failure of an evaluation, unless that write fails as well; any
\* other step's failure is only thrown.  A job can still fail after its result
\* is in: the comment on the pull request, or completeJob, may not go through.
Throw(p) ==
  /\ p \in Mortal
  /\ \/ caller[p].stage \in {"storing", "queueing", "reading", "claiming", "waiting", "evaluating"}
     \/ At(p, "returned") /\ p \in Worker
  /\ IF At(p, "evaluating")
       THEN \/ inbox' = [inbox EXCEPT ![EventOf(p)] = "FAILED"]
            \/ UNCHANGED inbox
       ELSE UNCHANGED inbox
  /\ GoTo(p, "threw")
  /\ UNCHANGED <<claimAge, job, batch>>

\* An upload is answered with what its document changed.
Answer(q) ==
  /\ q \in Request
  /\ At(q, "returned")
  /\ GoTo(q, "answered")
  /\ UNCHANGED <<inbox, claimAge, job, batch>>

------------------------------------------------------------------------------
(* The worker (Worker.runOnce, runJob and the statements they call).       *)

LockExpired(j) == job[j].status = "RUNNING" /\ job[j].lockAge = LockTimeout

\* A job whose last attempt took its worker down is dead-lettered ...
NeverSpent(j) == FALSE   \* mutant: such a job goes back to the queue
Spent(j)      == LockExpired(j) /\ job[j].attempts >= MaxAttempts

\* ... and one that is due, or whose worker is gone, is handed out.
OnlyQueued(j) == job[j].status = "QUEUED" /\ job[j].delay = 0   \* mutant: never reclaims
Due(j) ==
  \/ job[j].status = "QUEUED" /\ job[j].delay = 0
  \/ LockExpired(j) /\ ~ Spent(j)

\* claimJobs.  Jobs that are due together come in any order.
ClaimJobs(w) ==
  LET spent == {j \in Job : Spent(j)}
      due   == {j \in Job : Due(j)}
  IN
  /\ At(w, "idle") /\ batch[w] = {}
  /\ spent \cup due # {}
  /\ \E taken \in SUBSET due :
       /\ Cardinality(taken) <= BatchSize
       /\ taken # due => Cardinality(taken) = BatchSize
       /\ batch' = [batch EXCEPT ![w] = taken]
       /\ job' = [j \in Job |->
            IF j \in taken      THEN Row("RUNNING", job[j].attempts + 1, 0, 0)
            ELSE IF j \in spent THEN Row("DEAD", job[j].attempts, 0, 0)
            ELSE job[j]]
  /\ UNCHANGED <<inbox, claimAge, caller>>

\* A batch is run one job after the other; a github_event job ingests first.
StartJob(w) ==
  /\ At(w, "idle")
  /\ \E j \in batch[w] :
       caller' = [caller EXCEPT ![w] =
         [stage |-> IF j[1] = "github_event" THEN "storing" ELSE "reading", errand |-> j, polls |-> 0]]
  /\ UNCHANGED <<inbox, claimAge, job, batch>>

\* completeJob and failJob write the job by its id, whoever holds its lock.
CompleteJob(w) ==
  LET j == caller[w].errand IN
  /\ w \in Worker
  /\ At(w, "returned")
  /\ job' = [job EXCEPT ![j] = Row("SUCCEEDED", job[j].attempts, 0, 0)]
  /\ batch' = [batch EXCEPT ![w] = @ \ {j}]
  /\ caller' = [caller EXCEPT ![w] = Idle]
  /\ UNCHANGED <<inbox, claimAge>>

FailJob(w) ==
  LET j == caller[w].errand IN
  /\ w \in Worker
  /\ At(w, "threw")
  /\ \E delay \in 1 .. Backoff :
       job' = [job EXCEPT ![j] =
         Row(IF job[j].attempts >= MaxAttempts THEN "DEAD" ELSE "QUEUED", job[j].attempts, delay, 0)]
  /\ batch' = [batch EXCEPT ![w] = @ \ {j}]
  /\ caller' = [caller EXCEPT ![w] = Idle]
  /\ UNCHANGED <<inbox, claimAge>>

\* The worker's process ends, or completeJob and failJob cannot be written: the
\* rest of the batch is forgotten, and its locks are left to expire.
Crash(w) ==
  /\ w \in Worker \cap Mortal
  /\ batch[w] # {}
  /\ batch' = [batch EXCEPT ![w] = {}]
  /\ caller' = [caller EXCEPT ![w] = Idle]
  /\ UNCHANGED <<inbox, claimAge, job>>

------------------------------------------------------------------------------
Older(age, limit) == IF age < limit THEN age + 1 ELSE age
Less(left)        == IF left > 0 THEN left - 1 ELSE left

Tick ==
  /\ ~ Overrun => \A p \in Caller : At(p, "evaluating") => claimAge[EventOf(p)] + 1 < Takeover
  /\ claimAge' = [e \in Event |->
       IF inbox[e] = "PROCESSING" THEN Older(claimAge[e], Takeover) ELSE claimAge[e]]
  /\ job' = [j \in Job |->
       Row(job[j].status, job[j].attempts, Less(job[j].delay),
           IF job[j].status = "RUNNING" THEN Older(job[j].lockAge, LockTimeout) ELSE job[j].lockAge)]
  /\ caller' = [p \in Caller |->
       IF At(p, "waiting") THEN [caller[p] EXCEPT !.polls = Less(@)] ELSE caller[p]]
  /\ UNCHANGED <<inbox, batch>>

\* What a caller does next when nothing goes wrong.
Proceed(p) ==
  \/ Store(p) \/ Queue(p)
  \/ Read(p) \/ Claim(p) \/ Look(p) \/ Conclude(p)
  \/ Answer(p) \/ CompleteJob(p) \/ FailJob(p)

Next ==
  \/ \E q \in Request : Deliver(q)
  \/ \E w \in Worker : ClaimJobs(w) \/ StartJob(w) \/ Crash(w)
  \/ \E p \in Caller : Proceed(p) \/ Throw(p)
  \/ Tick

Spec == Init /\ [][Next]_vars

\* A worker polls every second and awaits one handler at a time; a request goes on
\* to its answer or is given up; and time goes on.  That a request arrives, that
\* an evaluation succeeds, and that a process dies or survives is never assumed.
Fairness ==
  /\ WF_vars(Tick)
  /\ \A w \in Worker : WF_vars(ClaimJobs(w) \/ StartJob(w))
  /\ \A p \in Caller : WF_vars(Proceed(p) \/ Throw(p))

FairSpec == Spec /\ Fairness

------------------------------------------------------------------------------
(* What must hold.                                                         *)

\* "Exactly one processor evaluates an event" (triggers.ts), as long as none
\* outlasts its claim: a worker and the upload request, two workers that hold
\* the job one after the other, or the two jobs of a webhook never evaluate it
\* together, and none evaluates it once its result is in.
OneEvaluator ==
  \A e \in Event :
    /\ \A p, q \in Evaluators(e) : p = q
    /\ Evaluators(e) # {} => inbox[e] = "PROCESSING"

\* A job is done only when the event's result is: a caller that lost the claim
\* does not report the winner's failure, or its own impatience, as a success.
SucceededMeansProcessed ==
  \A j \in Job : job[j].status = "SUCCEEDED" => inbox[j[2]] = "PROCESSED"

\* A processed event stays processed, whoever still works on it.
ProcessedIsFinal ==
  [][\A e \in Event : inbox[e] = "PROCESSED" => inbox'[e] = "PROCESSED"]_vars

\* "Failures retry, exhausted jobs move to DEAD, and a worker that dies mid-job
\* has its lock reclaimed" (worker.ts): once deliveries stop, every job comes to
\* be done or dead-lettered, and no worker ever holds or finds one again.
JobsSettle ==
  <>[](\A j \in Job : job[j].status \in {"ABSENT", "SUCCEEDED", "DEAD"})

\* What comments claim and the code does not keep.

\* "The event is queued durably first (so a failure here is retried by the
\* worker)" (documentIngestion.ts): a job does not give up on an event whose
\* evaluation was cut off.
FailureIsRetried ==
  \A e \in Event :
    inbox[e] = "PROCESSING" /\ Evaluators(e) = {} => job[<<"process_event", e>>].status # "DEAD"

\* "Evaluation happens asynchronously on the worker" (triggers.ts): an event whose
\* submission has been answered has its job, once nobody is about to queue it.
AnsweredIsQueued ==
  \A q \in Request :
    At(q, "answered") /\ Why(q) = "api" =>
      \/ job[<<"process_event", EventOf(q)>>].status # "ABSENT"
      \/ \E p \in Caller : At(p, "queueing") /\ EventOf(p) = EventOf(q)
=============================================================================
