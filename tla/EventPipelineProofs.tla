------------------------- MODULE EventPipelineProofs -------------------------
(* The safety of event processing, for any number of events, deliveries and  *)
(* workers and any limits.                                                  *)
EXTENDS EventPipeline, TLAPS

\* A worker that is at work is at work for a job.
WorkersWorkForJobs == \A w \in Worker : caller[w] # Idle => caller[w].errand \in Job

\* A job that waits to be claimed has an attempt left.
AttemptLeft ==
  \A j \in Job : job[j].status \in {"ABSENT", "QUEUED"} => job[j].attempts < MaxAttempts

WellFormed == TypeOK /\ WorkersWorkForJobs /\ AttemptLeft

\* A caller that goes from one stage to another stays well formed.
LEMMA Moves ==
  ASSUME WellFormed, NEW p \in Caller, caller[p] # Idle, NEW stage \in Stage, GoTo(p, stage)
  PROVE  /\ caller' \in [Caller -> CallerState]
         /\ \A w \in Worker : caller'[w] # Idle => caller'[w].errand \in Job
<1>1. caller[p] \in [stage : Stage, errand : Errand, polls : 0 .. Patience]
  BY DEF WellFormed, TypeOK, CallerState
<1>2. caller' = [caller EXCEPT ![p] = [caller[p] EXCEPT !.stage = stage]]
  BY DEF GoTo
<1>3. [caller[p] EXCEPT !.stage = stage] \in [stage : Stage, errand : Errand, polls : 0 .. Patience]
  BY <1>1
<1>4. [caller[p] EXCEPT !.stage = stage].errand = caller[p].errand
  BY <1>1
<1>5. QED
  BY <1>2, <1>3, <1>4 DEF WellFormed, TypeOK, CallerState, WorkersWorkForJobs, Caller

\* Queueing a job leaves the job table well formed.
LEMMA Enqueues ==
  ASSUME WellFormed, NEW j \in Job, job' = Enqueued(j)
  PROVE  /\ job' \in [Job -> JobState]
         /\ AttemptLeft'
         /\ \A i \in Job : job'[i].status = "SUCCEEDED" => job[i].status = "SUCCEEDED"
<1>1. CASE job' = job
  BY <1>1 DEF WellFormed, TypeOK, AttemptLeft
<1>2. CASE job[j].status = "ABSENT" /\ job' = [job EXCEPT ![j] = Row("QUEUED", 0, 0, 0)]
  BY <1>2, LimitAssumption DEF WellFormed, TypeOK, AttemptLeft, JobState, Row
<1>3. QED
  BY <1>1, <1>2 DEF Enqueued
------------------------------------------------------------------------------
LEMMA WellFormedStep == WellFormed /\ [Next]_vars => WellFormed'
<1> SUFFICES ASSUME WellFormed, [Next]_vars PROVE WellFormed'
  OBVIOUS
<1>b. /\ MaxAttempts \in Nat /\ Patience \in Nat /\ Backoff \in Nat
      /\ Takeover \in Nat /\ LockTimeout \in Nat
  BY LimitAssumption
<1>a. ASSUME NEW p \in Caller, NEW stage \in Stage, At(p, stage)
      PROVE  caller[p] # Idle /\ EventOf(p) \in Event /\ Why(p) \in How \cup JobKind
  <2>1. caller[p] \in [stage : Stage, errand : Errand, polls : 0 .. Patience]
    BY <1>a DEF WellFormed, TypeOK, CallerState, Idle, At, Stage
  <2>2. QED
    BY <2>1 DEF Stage, Idle, EventOf, Why, Errand
<1>1. ASSUME NEW q \in Request, Deliver(q) PROVE WellFormed'
  <2>1. q \in Caller /\ EventOf(q) \in Event /\ caller[q] # Idle
    BY <1>1, <1>a DEF Deliver, Caller, Stage
  <2>2. CASE Why(q) = "webhook"
    BY <1>1, <2>1, <2>2, Moves, Enqueues DEF Deliver, WellFormed, TypeOK, WorkersWorkForJobs, Stage, Job, JobKind
  <2>3. CASE Why(q) # "webhook"
    BY <1>1, <2>1, <2>3, Moves DEF Deliver, WellFormed, TypeOK, WorkersWorkForJobs, AttemptLeft, Stage
  <2>4. QED
    BY <2>2, <2>3
<1>2. ASSUME NEW p \in Caller, Store(p) PROVE WellFormed'
  <2>1. EventOf(p) \in Event /\ caller[p] # Idle
    BY <1>2, <1>a DEF Store, Stage
  <2>2. AfterIngest(p) \in Stage /\ "queueing" \in Stage
    BY DEF AfterIngest, Stage
  <2>3. QED
    BY <1>2, <2>1, <2>2, Moves DEF Store, WellFormed, TypeOK, WorkersWorkForJobs, AttemptLeft
<1>3. ASSUME NEW p \in Caller, Queue(p) PROVE WellFormed'
  <2>1. EventOf(p) \in Event /\ caller[p] # Idle
    BY <1>3, <1>a DEF Queue, Stage
  <2>2. AfterIngest(p) \in Stage /\ <<"process_event", EventOf(p)>> \in Job
    BY <2>1 DEF AfterIngest, Stage, Job, JobKind
  <2>3. QED
    BY <1>3, <2>1, <2>2, Moves, Enqueues DEF Queue, WellFormed, TypeOK, WorkersWorkForJobs
<1>4. ASSUME NEW p \in Caller, Read(p) \/ Look(p) \/ Answer(p) PROVE WellFormed'
  <2>1. caller[p] # Idle
    BY <1>4, <1>a DEF Read, Look, Answer, Stage
  <2>2. \E stage \in Stage : GoTo(p, stage)
    BY <1>4 DEF Read, Look, Answer, Stage
  <2>3. QED
    BY <1>4, <2>1, <2>2, Moves DEF Read, Look, Answer, WellFormed, TypeOK, WorkersWorkForJobs, AttemptLeft
<1>5. ASSUME NEW p \in Caller, Conclude(p) \/ Throw(p) PROVE WellFormed'
  <2>1. caller[p] # Idle
    BY <1>5, <1>a DEF Conclude, Throw, Stage, At
  <2>2. \E stage \in Stage : GoTo(p, stage)
    BY <1>5 DEF Conclude, Throw, Stage
  <2>3. QED
    BY <1>5, <2>1, <2>2, Moves DEF Conclude, Throw, WellFormed, TypeOK, WorkersWorkForJobs, AttemptLeft
<1>6. ASSUME NEW p \in Caller, Claim(p) PROVE WellFormed'
  <2>1. caller[p] # Idle /\ EventOf(p) \in Event
    BY <1>6, <1>a DEF Claim, Stage
  <2>2. CASE Claimable(EventOf(p))
    BY <1>b, <1>6, <2>1, <2>2, Moves DEF Claim, WellFormed, TypeOK, WorkersWorkForJobs, AttemptLeft, Stage
  <2>3. CASE ~ Claimable(EventOf(p))
    <3>1. caller' = [caller EXCEPT ![p] =
            [stage |-> "waiting", errand |-> caller[p].errand, polls |-> Patience]]
      BY <1>6, <2>3 DEF Claim
    <3>2. caller[p] \in [stage : Stage, errand : Errand, polls : 0 .. Patience]
      BY <2>1 DEF WellFormed, TypeOK, CallerState
    <3>3. [stage |-> "waiting", errand |-> caller[p].errand, polls |-> Patience]
            \in [stage : Stage, errand : Errand, polls : 0 .. Patience]
      BY <1>b, <3>2 DEF Stage
    <3>4. QED
      BY <1>6, <2>1, <2>3, <3>1, <3>3
         DEF Claim, WellFormed, TypeOK, CallerState, WorkersWorkForJobs, AttemptLeft, Caller
  <2>4. QED
    BY <2>2, <2>3
<1>7. ASSUME NEW w \in Worker, ClaimJobs(w) PROVE WellFormed'
  <2>1. PICK taken \in SUBSET {j \in Job : Due(j)} :
          /\ batch' = [batch EXCEPT ![w] = taken]
          /\ job' = [j \in Job |->
               IF j \in taken                     THEN Row("RUNNING", job[j].attempts + 1, 0, 0)
               ELSE IF j \in {i \in Job : Spent(i)} THEN Row("DEAD", job[j].attempts, 0, 0)
               ELSE job[j]]
    BY <1>7 DEF ClaimJobs
  <2>2. ASSUME NEW j \in taken PROVE job[j].attempts + 1 \in 0 .. MaxAttempts
    BY <1>b DEF Due, Spent, LockExpired, WellFormed, TypeOK, JobState, AttemptLeft
  <2>3. ASSUME NEW j \in Job
        PROVE  /\ job'[j] \in JobState
               /\ job'[j].status \in {"ABSENT", "QUEUED"} => job'[j].attempts < MaxAttempts
    <3>1. job[j] \in JobState
      BY DEF WellFormed, TypeOK
    <3>2. CASE j \in taken
      BY <1>b, <2>1, <2>2, <3>2 DEF JobState, Row
    <3>3. CASE j \notin taken /\ Spent(j)
      BY <1>b, <2>1, <3>1, <3>3 DEF JobState, Row
    <3>4. CASE j \notin taken /\ ~ Spent(j)
      BY <2>1, <3>1, <3>4 DEF WellFormed, AttemptLeft
    <3>5. QED
      BY <3>2, <3>3, <3>4
  <2>4. job' \in [Job -> JobState] /\ AttemptLeft'
    BY <2>1, <2>3 DEF AttemptLeft
  <2>5. QED
    BY <1>7, <2>1, <2>4 DEF ClaimJobs, WellFormed, TypeOK, WorkersWorkForJobs
<1>8. ASSUME NEW w \in Worker, StartJob(w) PROVE WellFormed'
  <2>1. PICK j \in batch[w] : caller' = [caller EXCEPT ![w] =
          [stage |-> IF j[1] = "github_event" THEN "storing" ELSE "reading", errand |-> j, polls |-> 0]]
    BY <1>8 DEF StartJob
  <2>2. j \in Job
    BY DEF WellFormed, TypeOK
  <2>3. [stage |-> IF j[1] = "github_event" THEN "storing" ELSE "reading", errand |-> j, polls |-> 0]
          \in [stage : Stage, errand : Errand, polls : 0 .. Patience]
    BY <1>b, <2>2 DEF Stage, Job, Errand
  <2>4. QED
    BY <1>8, <2>1, <2>2, <2>3
       DEF StartJob, WellFormed, TypeOK, CallerState, WorkersWorkForJobs, AttemptLeft, Caller
<1>9. ASSUME NEW w \in Caller, CompleteJob(w) PROVE WellFormed'
  <2>1. caller[w].errand \in Job
    BY <1>9, <1>a DEF CompleteJob, WellFormed, WorkersWorkForJobs, Caller, Stage
  <2>2. job' = [job EXCEPT ![caller[w].errand] = Row("SUCCEEDED", job[caller[w].errand].attempts, 0, 0)]
    BY <1>9 DEF CompleteJob
  <2>3. Row("SUCCEEDED", job[caller[w].errand].attempts, 0, 0) \in JobState
    BY <1>b, <2>1 DEF WellFormed, TypeOK, JobState, Row
  <2>4. job' \in [Job -> JobState] /\ AttemptLeft'
    BY <2>1, <2>2, <2>3 DEF WellFormed, TypeOK, AttemptLeft, Row
  <2>5. QED
    BY <1>9, <2>4 DEF CompleteJob, WellFormed, TypeOK, CallerState, WorkersWorkForJobs, Caller
<1>10. ASSUME NEW w \in Caller, FailJob(w) PROVE WellFormed'
  <2>1. caller[w].errand \in Job
    BY <1>10, <1>a DEF FailJob, WellFormed, WorkersWorkForJobs, Caller, Stage
  <2>2. PICK delay \in 1 .. Backoff : job' = [job EXCEPT ![caller[w].errand] =
          Row(IF job[caller[w].errand].attempts >= MaxAttempts THEN "DEAD" ELSE "QUEUED",
              job[caller[w].errand].attempts, delay, 0)]
    BY <1>10 DEF FailJob
  <2>3. job[caller[w].errand] \in JobState
    BY <2>1 DEF WellFormed, TypeOK
  <2>4. job' \in [Job -> JobState] /\ AttemptLeft'
    BY <1>b, <2>1, <2>2, <2>3 DEF WellFormed, TypeOK, AttemptLeft, JobState, Row
  <2>5. QED
    BY <1>10, <2>4 DEF FailJob, WellFormed, TypeOK, CallerState, WorkersWorkForJobs, Caller
<1>11. ASSUME NEW w \in Worker, Crash(w) PROVE WellFormed'
  BY <1>11 DEF Crash, WellFormed, TypeOK, CallerState, WorkersWorkForJobs, AttemptLeft, Caller
<1>12. CASE Tick
  <2>1. ASSUME NEW j \in Job
        PROVE  /\ job'[j] \in JobState
               /\ job'[j].status = job[j].status
               /\ job'[j].attempts = job[j].attempts
    <3>1. job[j] \in JobState
      BY DEF WellFormed, TypeOK
    <3>2. job'[j] = Row(job[j].status, job[j].attempts, Less(job[j].delay),
            IF job[j].status = "RUNNING" THEN Older(job[j].lockAge, LockTimeout) ELSE job[j].lockAge)
      BY <1>12 DEF Tick
    <3>3. Less(job[j].delay) \in 0 .. Backoff /\ Older(job[j].lockAge, LockTimeout) \in 0 .. LockTimeout
      BY <1>b, <3>1 DEF Less, Older, JobState
    <3>4. QED
      BY <3>1, <3>2, <3>3 DEF JobState, Row
  <2>2. ASSUME NEW p \in Caller
        PROVE  /\ caller'[p] \in CallerState
               /\ caller[p] = Idle => caller'[p] = Idle
               /\ caller[p] # Idle => caller'[p].errand = caller[p].errand
    <3>1. CASE At(p, "waiting")
      <4>1. caller[p] \in [stage : Stage, errand : Errand, polls : 0 .. Patience]
        BY <3>1, <1>a DEF Stage, WellFormed, TypeOK, CallerState
      <4>2. caller'[p] = [caller[p] EXCEPT !.polls = Less(caller[p].polls)]
        BY <1>12, <3>1 DEF Tick
      <4>3. Less(caller[p].polls) \in 0 .. Patience
        BY <1>b, <4>1 DEF Less
      <4>4. caller[p] # Idle
        BY <3>1, <1>a DEF Stage
      <4>5. QED
        BY <4>1, <4>2, <4>3, <4>4 DEF CallerState
    <3>2. CASE ~ At(p, "waiting")
      BY <1>12, <3>2 DEF Tick, WellFormed, TypeOK
    <3>3. QED
      BY <3>1, <3>2
  <2>3. claimAge' \in [Event -> 0 .. Takeover]
    BY <1>b, <1>12 DEF Tick, WellFormed, TypeOK, Older
  <2>4. job' \in [Job -> JobState] /\ AttemptLeft'
    BY <1>12, <2>1 DEF Tick, AttemptLeft, WellFormed
  <2>5. caller' \in [Caller -> CallerState] /\ WorkersWorkForJobs'
    BY <1>12, <2>2 DEF Tick, WorkersWorkForJobs, WellFormed, Caller
  <2>6. QED
    BY <1>12, <2>3, <2>4, <2>5 DEF Tick, WellFormed, TypeOK
<1>13. CASE UNCHANGED vars
  BY <1>13 DEF vars, WellFormed, TypeOK, WorkersWorkForJobs, AttemptLeft
<1>14. ASSUME NEW p \in Caller, Proceed(p) PROVE WellFormed'
  BY <1>2, <1>3, <1>4, <1>5, <1>6, <1>9, <1>10, <1>14 DEF Proceed
<1>15. ASSUME NEW p \in Caller, Throw(p) PROVE WellFormed'
  BY <1>5, <1>15
<1>16. QED
  BY <1>1, <1>7, <1>8, <1>11, <1>12, <1>13, <1>14, <1>15 DEF Next

\* And from the start.
LEMMA WellFormedInit == Init => WellFormed
<1> SUFFICES ASSUME Init PROVE WellFormed
  OBVIOUS
<1>1. \A p \in Caller : caller[p] \in CallerState
  BY LimitAssumption DEF Init, CallerState, Stage, Errand
<1>2. QED
  BY <1>1, LimitAssumption DEF Init, WellFormed, TypeOK, JobState, Row, WorkersWorkForJobs, AttemptLeft

\* The pipeline is type correct; in particular no job is attempted more than
\* MaxAttempts times, however many workers die with it.
THEOREM PipelineTypes == Spec => []TypeOK
<1>1. WellFormed => TypeOK
  BY DEF WellFormed
<1>2. QED
  BY <1>1, WellFormedInit, WellFormedStep, PTL DEF Spec
------------------------------------------------------------------------------
(* Without overruns, a claim protects its evaluation.                      *)

\* Whoever evaluates an event holds its claim, which is not up for takeover yet.
HoldsClaim ==
  \A p \in Caller : At(p, "evaluating") =>
    inbox[EventOf(p)] = "PROCESSING" /\ claimAge[EventOf(p)] < Takeover

Alone ==
  \A p, q \in Caller :
    At(p, "evaluating") /\ At(q, "evaluating") /\ EventOf(p) = EventOf(q) => p = q

\* Process returns only once the result is stored.
ReturnsResult == \A p \in Caller : At(p, "returned") => inbox[EventOf(p)] = "PROCESSED"

Protected == HoldsClaim /\ Alone /\ ReturnsResult /\ SucceededMeansProcessed

\* A step of p leaves the other callers where they are, and p's event is p's.
LEMMA OthersStay ==
  ASSUME WellFormed, NEW p \in Caller, caller[p] # Idle, NEW stage, GoTo(p, stage)
  PROVE  /\ \A q \in Caller \ {p}, s \in Stage : At(q, s)' <=> At(q, s)
         /\ \A q \in Caller : EventOf(q)' = EventOf(q)
         /\ \A s \in Stage : At(p, s)' <=> s = stage
<1>1. caller[p] \in [stage : Stage, errand : Errand, polls : 0 .. Patience]
  BY DEF WellFormed, TypeOK, CallerState
<1>2. caller' = [caller EXCEPT ![p] = [caller[p] EXCEPT !.stage = stage]] /\ caller \in [Caller -> CallerState]
  BY DEF GoTo, WellFormed, TypeOK
<1>3. /\ [caller[p] EXCEPT !.stage = stage].errand = caller[p].errand
      /\ [caller[p] EXCEPT !.stage = stage].stage = stage
  BY <1>1
<1>4. QED
  BY <1>2, <1>3 DEF At, EventOf

\* A step that changes neither inbox nor who evaluates or has returned, and
\* completes no job, keeps all of it.
LEMMA ProtectedFrame ==
  ASSUME Protected, inbox' = inbox, claimAge' = claimAge,
         \A p \in Caller : At(p, "evaluating")' => At(p, "evaluating") /\ EventOf(p)' = EventOf(p),
         \A p \in Caller : At(p, "returned")' => At(p, "returned") /\ EventOf(p)' = EventOf(p),
         \A j \in Job : job'[j].status = "SUCCEEDED" => job[j].status = "SUCCEEDED"
  PROVE  Protected'
BY DEF Protected, HoldsClaim, Alone, ReturnsResult, SucceededMeansProcessed

\* In particular a caller that goes on to neither evaluate nor return.
LEMMA QuietMove ==
  ASSUME WellFormed, Protected, NEW p \in Caller, caller[p] # Idle,
         NEW stage \in Stage \ {"evaluating", "returned"}, GoTo(p, stage),
         inbox' = inbox, claimAge' = claimAge,
         \A j \in Job : job'[j].status = "SUCCEEDED" => job[j].status = "SUCCEEDED"
  PROVE  Protected'
<1>1. \A q \in Caller, s \in {"evaluating", "returned"} : At(q, s)' => At(q, s) /\ EventOf(q)' = EventOf(q)
  BY OthersStay DEF Stage
<1>2. QED
  BY <1>1, ProtectedFrame

LEMMA ProtectedStep ==
  ASSUME ~ Overrun, WellFormed, Protected, [Next]_vars
  PROVE  Protected'
<1>a. ASSUME NEW p \in Caller, NEW stage \in Stage, At(p, stage)
      PROVE  caller[p] # Idle /\ EventOf(p) \in Event
  <2>1. caller[p] \in [stage : Stage, errand : Errand, polls : 0 .. Patience]
    BY <1>a DEF WellFormed, TypeOK, CallerState, Idle, At, Stage
  <2>2. QED
    BY <2>1 DEF Stage, Idle, EventOf, Errand
<1>b. "evaluating" \in Stage /\ "returned" \in Stage
  BY DEF Stage
<1>1. ASSUME NEW q \in Request, Deliver(q) PROVE Protected'
  <2>1. q \in Caller /\ EventOf(q) \in Event /\ caller[q] # Idle
    BY <1>1, <1>a DEF Deliver, Caller, Stage
  <2>2. CASE Why(q) = "webhook"
    <3>1. <<"github_event", EventOf(q)>> \in Job
      BY <2>1 DEF Job, JobKind
    <3>2. GoTo(q, "answered") /\ job' = Enqueued(<<"github_event", EventOf(q)>>)
      BY <1>1, <2>2 DEF Deliver
    <3>3. \A j \in Job : job'[j].status = "SUCCEEDED" => job[j].status = "SUCCEEDED"
      BY <3>1, <3>2, Enqueues
    <3>4. QED
      BY <1>1, <2>1, <3>2, <3>3, QuietMove DEF Deliver, Stage
  <2>3. CASE Why(q) # "webhook"
    BY <1>1, <2>1, <2>3, QuietMove DEF Deliver, Stage
  <2>4. QED
    BY <2>2, <2>3
<1>2. ASSUME NEW p \in Caller, Store(p) PROVE Protected'
  <2>1. EventOf(p) \in Event /\ caller[p] # Idle
    BY <1>2, <1>a DEF Store, Stage
  <2>2. PICK stage \in Stage \ {"evaluating", "returned"} : GoTo(p, stage)
    BY <1>2 DEF Store, AfterIngest, Stage
  <2>3. CASE inbox' = inbox
    BY <1>2, <2>1, <2>2, <2>3, QuietMove DEF Store
  <2>4. CASE inbox[EventOf(p)] = "ABSENT" /\ inbox' = [inbox EXCEPT ![EventOf(p)] = "RECEIVED"]
    <3>1. \A q \in Caller, s \in {"evaluating", "returned"} :
            At(q, s)' => At(q, s) /\ EventOf(q)' = EventOf(q) /\ EventOf(q) \in Event
      BY <2>1, <2>2, <1>a, OthersStay DEF Stage
    <3>2. \A e \in Event : inbox[e] \in {"PROCESSING", "PROCESSED"} => inbox'[e] = inbox[e]
      BY <2>4 DEF WellFormed, TypeOK
    <3>3. claimAge' = claimAge /\ job' = job
      BY <1>2 DEF Store
    <3>4. \A j \in Job : j[2] \in Event
      BY DEF Job
    <3>5. QED
      BY <3>1, <3>2, <3>3, <3>4 DEF Protected, HoldsClaim, Alone, ReturnsResult, SucceededMeansProcessed
  <2>5. QED
    BY <1>2, <2>3, <2>4 DEF Store
<1>3. ASSUME NEW p \in Caller, Queue(p) PROVE Protected'
  <2>1. EventOf(p) \in Event /\ caller[p] # Idle
    BY <1>3, <1>a DEF Queue, Stage
  <2>2. <<"process_event", EventOf(p)>> \in Job
    BY <2>1 DEF Job, JobKind
  <2>3. \A j \in Job : job'[j].status = "SUCCEEDED" => job[j].status = "SUCCEEDED"
    BY <1>3, <2>2, Enqueues DEF Queue
  <2>4. AfterIngest(p) \in Stage \ {"evaluating", "returned"}
    BY DEF AfterIngest, Stage
  <2>5. QED
    BY <1>3, <2>1, <2>3, <2>4, QuietMove DEF Queue
<1>4. ASSUME NEW p \in Caller, Read(p) \/ Look(p) \/ Answer(p) PROVE Protected'
  <2>1. EventOf(p) \in Event /\ caller[p] # Idle
    BY <1>4, <1>a DEF Read, Look, Answer, Stage
  <2>2. inbox' = inbox /\ claimAge' = claimAge /\ job' = job
    BY <1>4 DEF Read, Look, Answer
  <2>3. PICK stage \in Stage \ {"evaluating"} :
          GoTo(p, stage) /\ (stage = "returned" => inbox[EventOf(p)] = "PROCESSED")
    BY <1>4 DEF Read, Look, Answer, HasResult, Stage
  <2>4. CASE stage # "returned"
    BY <2>1, <2>2, <2>3, <2>4, QuietMove
  <2>5. CASE stage = "returned"
    <3>1. /\ \A q \in Caller : At(q, "evaluating")' => At(q, "evaluating")
          /\ \A q \in Caller : At(q, "returned")' => At(q, "returned") \/ q = p
          /\ \A q \in Caller : EventOf(q)' = EventOf(q)
      BY <2>1, <2>3, <2>5, <1>b, OthersStay
    <3>2. QED
      BY <2>2, <2>3, <2>5, <3>1 DEF Protected, HoldsClaim, Alone, ReturnsResult, SucceededMeansProcessed
  <2>6. QED
    BY <2>4, <2>5
<1>5. ASSUME NEW p \in Caller, Claim(p) PROVE Protected'
  <2>1. EventOf(p) \in Event /\ caller[p] # Idle
    BY <1>5, <1>a DEF Claim, Stage
  <2>2. CASE Claimable(EventOf(p))
    <3>1. /\ inbox' = [inbox EXCEPT ![EventOf(p)] = "PROCESSING"]
          /\ claimAge' = [claimAge EXCEPT ![EventOf(p)] = 0]
          /\ GoTo(p, "evaluating")
          /\ job' = job
      BY <1>5, <2>2 DEF Claim
    <3>2. /\ \A q \in Caller \ {p} : At(q, "evaluating")' => At(q, "evaluating")
          /\ \A q \in Caller : At(q, "returned")' => At(q, "returned")
          /\ \A q \in Caller : EventOf(q)' = EventOf(q)
      BY <2>1, <3>1, <1>b, OthersStay
    <3>3. \A q \in Caller : At(q, "evaluating") => EventOf(q) # EventOf(p)
      BY <2>2, LimitAssumption DEF Claimable, Protected, HoldsClaim
    <3>4. inbox[EventOf(p)] # "PROCESSED"
      BY <2>2 DEF Claimable
    <3>5. \A q \in Caller, s \in {"evaluating", "returned"} : At(q, s) => EventOf(q) \in Event
      BY <1>a, <1>b
    <3>6. HoldsClaim'
      BY <2>1, <3>1, <3>2, <3>3, <3>5, LimitAssumption DEF Protected, HoldsClaim, WellFormed, TypeOK
    <3>7. Alone'
      BY <3>2, <3>3 DEF Protected, Alone
    <3>8. ReturnsResult' /\ SucceededMeansProcessed'
      BY <3>1, <3>2, <3>4, <3>5
         DEF Protected, ReturnsResult, SucceededMeansProcessed, WellFormed, TypeOK, Job
    <3>9. QED
      BY <3>6, <3>7, <3>8 DEF Protected
  <2>3. CASE ~ Claimable(EventOf(p))
    <3>1. caller' = [caller EXCEPT ![p] =
            [stage |-> "waiting", errand |-> caller[p].errand, polls |-> Patience]]
      BY <1>5, <2>3 DEF Claim
    <3>2. \A q \in Caller, s \in {"evaluating", "returned"} : At(q, s)' => At(q, s) /\ EventOf(q)' = EventOf(q)
      BY <3>1 DEF At, EventOf, WellFormed, TypeOK
    <3>3. QED
      BY <1>5, <2>3, <3>2, ProtectedFrame DEF Claim
  <2>4. QED
    BY <2>2, <2>3
<1>6. ASSUME NEW p \in Caller, Conclude(p) PROVE Protected'
  <2>1. EventOf(p) \in Event /\ caller[p] # Idle
    BY <1>6, <1>a DEF Conclude, Stage
  <2>2. /\ inbox' = [inbox EXCEPT ![EventOf(p)] = "PROCESSED"]
        /\ claimAge' = claimAge /\ job' = job
        /\ GoTo(p, "returned") /\ At(p, "evaluating")
    BY <1>6 DEF Conclude
  <2>3. /\ \A q \in Caller : At(q, "evaluating")' => At(q, "evaluating") /\ q # p
        /\ \A q \in Caller : At(q, "returned")' => At(q, "returned") \/ q = p
        /\ \A q \in Caller : EventOf(q)' = EventOf(q)
    BY <2>1, <2>2, <1>b, OthersStay
  <2>4. \A q \in Caller, s \in {"evaluating", "returned"} : At(q, s) => EventOf(q) \in Event
    BY <1>a, <1>b
  <2>5. \A e \in Event : inbox'[e] = IF e = EventOf(p) THEN "PROCESSED" ELSE inbox[e]
    BY <2>2 DEF WellFormed, TypeOK
  <2>6. HoldsClaim' /\ Alone'
    BY <2>2, <2>3, <2>4, <2>5 DEF Protected, HoldsClaim, Alone
  <2>7. ReturnsResult' /\ SucceededMeansProcessed'
    BY <2>1, <2>2, <2>3, <2>4, <2>5 DEF Protected, ReturnsResult, SucceededMeansProcessed, Job
  <2>8. QED
    BY <2>6, <2>7 DEF Protected
<1>7. ASSUME NEW p \in Caller, Throw(p) PROVE Protected'
  <2>1. EventOf(p) \in Event /\ caller[p] # Idle
    BY <1>7, <1>a DEF Throw, Stage, At
  <2>2. GoTo(p, "threw") /\ claimAge' = claimAge /\ job' = job
    BY <1>7 DEF Throw
  <2>3. CASE inbox' = inbox
    BY <2>1, <2>2, <2>3, QuietMove DEF Stage
  <2>4. CASE At(p, "evaluating") /\ inbox' = [inbox EXCEPT ![EventOf(p)] = "FAILED"]
    <3>1. /\ \A q \in Caller : At(q, "evaluating")' => At(q, "evaluating") /\ q # p
          /\ \A q \in Caller : At(q, "returned")' => At(q, "returned")
          /\ \A q \in Caller : EventOf(q)' = EventOf(q)
      BY <2>1, <2>2, <1>b, OthersStay
    <3>2. \A q \in Caller, s \in {"evaluating", "returned"} : At(q, s) => EventOf(q) \in Event
      BY <1>a, <1>b
    <3>3. /\ \A e \in Event : inbox'[e] = IF e = EventOf(p) THEN "FAILED" ELSE inbox[e]
          /\ inbox[EventOf(p)] = "PROCESSING"
      BY <2>4 DEF WellFormed, TypeOK, Protected, HoldsClaim
    <3>4. HoldsClaim' /\ Alone'
      BY <2>2, <2>4, <3>1, <3>2, <3>3 DEF Protected, HoldsClaim, Alone
    <3>5. ReturnsResult' /\ SucceededMeansProcessed'
      BY <2>1, <2>2, <3>1, <3>2, <3>3 DEF Protected, ReturnsResult, SucceededMeansProcessed, Job
    <3>6. QED
      BY <3>4, <3>5 DEF Protected
  <2>5. QED
    BY <1>7, <2>3, <2>4 DEF Throw
<1>8. ASSUME NEW w \in Worker, ClaimJobs(w) PROVE Protected'
  <2>1. \A j \in Job : job'[j].status = "SUCCEEDED" => job[j].status = "SUCCEEDED"
    BY <1>8 DEF ClaimJobs, Row
  <2>2. QED
    BY <1>8, <2>1, ProtectedFrame DEF ClaimJobs, At, EventOf
<1>9. ASSUME NEW w \in Worker, StartJob(w) PROVE Protected'
  <2>1. PICK j \in batch[w] : caller' = [caller EXCEPT ![w] =
          [stage |-> IF j[1] = "github_event" THEN "storing" ELSE "reading", errand |-> j, polls |-> 0]]
    BY <1>9 DEF StartJob
  <2>2. \A q \in Caller, s \in {"evaluating", "returned"} : At(q, s)' => At(q, s) /\ EventOf(q)' = EventOf(q)
    BY <2>1 DEF At, EventOf, WellFormed, TypeOK
  <2>3. QED
    BY <1>9, <2>2, ProtectedFrame DEF StartJob
<1>10. ASSUME NEW w \in Caller, CompleteJob(w) \/ FailJob(w) \/ Crash(w) PROVE Protected'
  <2>1. caller' = [caller EXCEPT ![w] = Idle] /\ inbox' = inbox /\ claimAge' = claimAge
    BY <1>10 DEF CompleteJob, FailJob, Crash
  <2>2. \A q \in Caller, s \in {"evaluating", "returned"} : At(q, s)' => At(q, s) /\ EventOf(q)' = EventOf(q)
    BY <2>1 DEF At, EventOf, Idle, WellFormed, TypeOK
  <2>3. ASSUME NEW j \in Job, job'[j].status = "SUCCEEDED" PROVE inbox[j[2]] = "PROCESSED"
    <3>1. CASE CompleteJob(w)
      <4>1. w \in Worker /\ At(w, "returned") /\ caller[w].errand \in Job
        BY <1>b, <1>a, <3>1 DEF CompleteJob, WellFormed, WorkersWorkForJobs
      <4>2. inbox[caller[w].errand[2]] = "PROCESSED"
        BY <4>1 DEF Protected, ReturnsResult, EventOf
      <4>3. CASE j = caller[w].errand
        BY <4>2, <4>3
      <4>4. CASE j # caller[w].errand
        BY <2>3, <3>1, <4>1, <4>4 DEF CompleteJob, Protected, SucceededMeansProcessed, WellFormed, TypeOK
      <4>5. QED
        BY <4>3, <4>4
    <3>2. CASE FailJob(w)
      BY <2>3, <3>2 DEF FailJob, Row, Protected, SucceededMeansProcessed, WellFormed, TypeOK
    <3>3. CASE Crash(w)
      BY <2>3, <3>3 DEF Crash, Protected, SucceededMeansProcessed
    <3>4. QED
      BY <1>10, <3>1, <3>2, <3>3
  <2>4. QED
    BY <2>1, <2>2, <2>3 DEF Protected, HoldsClaim, Alone, ReturnsResult, SucceededMeansProcessed
<1>11. CASE Tick
  <2>1. ASSUME NEW q \in Caller
        PROVE  /\ \A s \in Stage : At(q, s)' => At(q, s)
               /\ \A s \in Stage : At(q, s) => EventOf(q)' = EventOf(q)
    <3>1. CASE At(q, "waiting")
      <4>1. caller[q] \in [stage : Stage, errand : Errand, polls : 0 .. Patience]
        BY <3>1, <1>a DEF Stage, WellFormed, TypeOK, CallerState
      <4>2. caller'[q] = [caller[q] EXCEPT !.polls = Less(caller[q].polls)]
        BY <1>11, <3>1 DEF Tick
      <4>3. caller'[q].stage = caller[q].stage /\ caller'[q].errand = caller[q].errand
        BY <4>1, <4>2
      <4>4. QED
        BY <4>3 DEF At, EventOf
    <3>2. CASE ~ At(q, "waiting")
      BY <1>11, <3>2 DEF Tick, At, EventOf
    <3>3. QED
      BY <3>1, <3>2
  <2>2. \A j \in Job : job'[j].status = job[j].status
    BY <1>11 DEF Tick, Row
  <2>3. ASSUME NEW q \in Caller, At(q, "evaluating")' PROVE inbox[EventOf(q)] = "PROCESSING" /\ claimAge'[EventOf(q)] < Takeover
    <3>1. At(q, "evaluating") /\ EventOf(q) \in Event
      BY <2>1, <2>3, <1>a, <1>b
    <3>2. claimAge[EventOf(q)] + 1 < Takeover /\ claimAge[EventOf(q)] \in Nat
      BY <1>11, <3>1 DEF Tick, WellFormed, TypeOK
    <3>3. claimAge'[EventOf(q)] \in {claimAge[EventOf(q)], claimAge[EventOf(q)] + 1}
      BY <1>11, <3>1 DEF Tick, Older
    <3>4. QED
      BY <3>1, <3>2, <3>3, LimitAssumption DEF Protected, HoldsClaim
  <2>4. inbox' = inbox
    BY <1>11 DEF Tick
  <2>5. HoldsClaim' /\ Alone'
    BY <2>1, <2>3, <2>4, <1>b DEF Protected, HoldsClaim, Alone
  <2>6. ReturnsResult' /\ SucceededMeansProcessed'
    BY <2>1, <2>2, <2>4, <1>b DEF Protected, ReturnsResult, SucceededMeansProcessed
  <2>7. QED
    BY <2>5, <2>6 DEF Protected
<1>12. CASE UNCHANGED vars
  BY <1>12, ProtectedFrame DEF vars, At, EventOf
<1>13. ASSUME NEW p \in Caller, Proceed(p) PROVE Protected'
  BY <1>2, <1>3, <1>4, <1>5, <1>6, <1>10, <1>13 DEF Proceed
<1>14. ASSUME NEW w \in Worker, Crash(w) PROVE Protected'
  BY <1>10, <1>14 DEF Caller
<1>15. QED
  BY <1>1, <1>7, <1>8, <1>9, <1>11, <1>12, <1>13, <1>14 DEF Next

\* All of it holds from the start.
LEMMA ProtectedInit == Init => Protected
<1> SUFFICES ASSUME Init PROVE Protected
  OBVIOUS
<1>1. \A p \in Caller : caller[p].stage \in {"new", "idle"}
  BY DEF Init, Idle
<1>2. QED
  BY <1>1 DEF Init, Row, At, Protected, HoldsClaim, Alone, ReturnsResult, SucceededMeansProcessed

\* Two processors never evaluate one event at a time, and none evaluates it
\* again once its result is stored.
THEOREM OneAtATime ==
  ASSUME ~ Overrun PROVE Spec => []OneEvaluator
<1>1. WellFormed /\ Protected => OneEvaluator
  BY DEF Protected, HoldsClaim, Alone, OneEvaluator, Evaluators
<1>2. WellFormed /\ Protected /\ [Next]_vars => WellFormed' /\ Protected'
  BY WellFormedStep, ProtectedStep
<1>3. QED
  BY <1>1, <1>2, WellFormedInit, ProtectedInit, PTL DEF Spec

\* A job that succeeded has its event's result behind it.
THEOREM SuccessIsReal ==
  ASSUME ~ Overrun PROVE Spec => []SucceededMeansProcessed
<1>1. WellFormed /\ Protected /\ [Next]_vars => WellFormed' /\ Protected'
  BY WellFormedStep, ProtectedStep
<1>2. Protected => SucceededMeansProcessed
  BY DEF Protected
<1>3. QED
  BY <1>1, <1>2, WellFormedInit, ProtectedInit, PTL DEF Spec

\* A processed event stays processed.
THEOREM ProcessedStays ==
  ASSUME ~ Overrun PROVE Spec => ProcessedIsFinal
<1>1. WellFormed /\ Protected /\ [Next]_vars => WellFormed' /\ Protected'
  BY WellFormedStep, ProtectedStep
<1>2. WellFormed /\ Protected /\ [Next]_vars
        => [\A e \in Event : inbox[e] = "PROCESSED" => inbox'[e] = "PROCESSED"]_vars
  <2> SUFFICES ASSUME WellFormed, Protected, [Next]_vars, NEW e \in Event, inbox[e] = "PROCESSED"
               PROVE  inbox'[e] = "PROCESSED"
    OBVIOUS
  <2>1. CASE inbox' = inbox
    BY <2>1
  <2>2. ASSUME NEW p \in Caller, Store(p) \/ Claim(p) \/ Conclude(p) \/ Throw(p)
        PROVE  inbox'[e] = "PROCESSED"
    BY <2>2 DEF Store, Claim, Claimable, Conclude, Throw, WellFormed, TypeOK, Protected, HoldsClaim
  <2>3. QED
    BY <2>1, <2>2 DEF Next, Proceed, vars, Deliver, Queue, Read, Look, Answer, ClaimJobs, StartJob,
       CompleteJob, FailJob, Crash, Tick
<1>3. QED
  BY <1>1, <1>2, WellFormedInit, ProtectedInit, PTL DEF Spec, ProcessedIsFinal

------------------------------------------------------------------------------
(* What lets the jobs settle.                                              *)

\* A job that was never queued has made no attempt, and a dead-lettered one all.
AttemptsAreCounted ==
  \A j \in Job :
    /\ job[j].status = "ABSENT" => job[j].attempts = 0
    /\ job[j].status = "DEAD" => job[j].attempts = MaxAttempts

\* No step takes an attempt back, whoever writes the job last (claimJobs, completeJob,
\* failJob); and a dead-lettered job is not queued again: only a worker that lost the job
\* before may still report it done.
AttemptsOnlyGrow ==
  [][\A j \in Job :
       /\ job'[j].attempts >= job[j].attempts
       /\ job[j].status = "DEAD" => job'[j].status \in {"DEAD", "SUCCEEDED"}]_vars

\* What a step makes of a job.
LEMMA JobWrites ==
  ASSUME WellFormed, AttemptsAreCounted, [Next]_vars, NEW j \in Job
  PROVE  /\ job'[j].attempts >= job[j].attempts
         /\ job[j].status = "DEAD" => job'[j].status \in {"DEAD", "SUCCEEDED"}
         /\ job'[j].status = "ABSENT" => job[j].status = "ABSENT" /\ job'[j].attempts = job[j].attempts
         /\ job'[j].status = "DEAD" => job'[j].attempts >= MaxAttempts
<1> DEFINE Counted ==
      /\ job'[j].attempts >= job[j].attempts
      /\ job[j].status = "DEAD" => job'[j].status \in {"DEAD", "SUCCEEDED"}
      /\ job'[j].status = "ABSENT" => job[j].status = "ABSENT" /\ job'[j].attempts = job[j].attempts
      /\ job'[j].status = "DEAD" => job'[j].attempts >= MaxAttempts
<1> SUFFICES Counted
  OBVIOUS
<1>1. /\ job \in [Job -> JobState] /\ job[j].attempts \in Nat /\ MaxAttempts \in Nat \ {0}
      /\ job[j].status = "ABSENT" => job[j].attempts = 0
      /\ job[j].status = "DEAD" => job[j].attempts = MaxAttempts
  BY LimitAssumption DEF WellFormed, TypeOK, JobState, AttemptsAreCounted
<1>2. CASE job'[j].attempts = job[j].attempts /\ job'[j].status = job[j].status
  BY <1>1, <1>2
<1>3. ASSUME NEW i \in Job, job' = Enqueued(i) PROVE Counted
  <2>1. CASE job'[j] = job[j]
    BY <1>2, <2>1
  <2>2. CASE job[j].status = "ABSENT" /\ job'[j] = Row("QUEUED", 0, 0, 0)
    BY <1>1, <2>2 DEF Row
  <2>3. QED
    BY <1>1, <1>3, <2>1, <2>2 DEF Enqueued
<1>4. ASSUME NEW w \in Worker, ClaimJobs(w) PROVE Counted
  <2>1. PICK taken \in SUBSET {i \in Job : Due(i)} :
          job' = [i \in Job |->
            IF i \in taken THEN Row("RUNNING", job[i].attempts + 1, 0, 0)
            ELSE IF i \in {k \in Job : Spent(k)} THEN Row("DEAD", job[i].attempts, 0, 0)
            ELSE job[i]]
    BY <1>4 DEF ClaimJobs
  <2>2. CASE j \in taken
    <3>1. job'[j] = Row("RUNNING", job[j].attempts + 1, 0, 0) /\ job[j].status # "DEAD"
      BY <2>1, <2>2 DEF Due, LockExpired
    <3>2. QED
      BY <1>1, <3>1 DEF Row
  <2>3. CASE j \notin taken /\ Spent(j)
    <3>1. job'[j] = Row("DEAD", job[j].attempts, 0, 0) /\ job[j].attempts >= MaxAttempts
      BY <2>1, <2>3 DEF Spent
    <3>2. QED
      BY <1>1, <3>1 DEF Row
  <2>4. CASE j \notin taken /\ ~Spent(j)
    BY <1>2, <2>1, <2>4
  <2>5. QED
    BY <2>2, <2>3, <2>4
<1>5. ASSUME NEW w \in Worker, CompleteJob(w) \/ FailJob(w) PROVE Counted
  <2>1. CASE job'[j] = job[j]
    BY <1>2, <2>1
  <2>2. CASE job'[j] = Row("SUCCEEDED", job[j].attempts, 0, 0)
    BY <1>1, <2>2 DEF Row
  <2>3. ASSUME NEW delay \in 1 .. Backoff,
               job'[j] = Row(IF job[j].attempts >= MaxAttempts THEN "DEAD" ELSE "QUEUED",
                             job[j].attempts, delay, 0)
        PROVE  Counted
    BY <1>1, <2>3 DEF Row
  <2>4. CASE CompleteJob(w)
    BY <1>1, <2>1, <2>2, <2>4 DEF CompleteJob
  <2>5. CASE FailJob(w)
    BY <1>1, <2>1, <2>3, <2>5 DEF FailJob
  <2>6. QED
    BY <1>5, <2>4, <2>5
<1>6. CASE Tick
  BY <1>2, <1>6 DEF Tick, Row
<1>7. CASE job' = job
  BY <1>2, <1>7
<1>8. CASE \E q \in Request : Deliver(q)
  <2>1. PICK q \in Request : Deliver(q)
    BY <1>8
  <2>2. CASE Why(q) = "webhook"
    <3>1. EventOf(q) \in Event
      BY <2>1 DEF WellFormed, TypeOK, CallerState, Caller, Deliver, At, EventOf, Errand, Idle
    <3>2. QED
      BY <1>3, <2>1, <2>2, <3>1 DEF Deliver, Job, JobKind
  <2>3. QED
    BY <1>7, <2>1, <2>2 DEF Deliver
<1>9. ASSUME NEW p \in Caller, Queue(p) PROVE Counted
  <2>1. EventOf(p) \in Event
    BY <1>9 DEF WellFormed, TypeOK, CallerState, Queue, At, EventOf, Errand, Idle
  <2>2. QED
    BY <1>3, <1>9, <2>1 DEF Queue, Job, JobKind
<1> HIDE DEF Counted
<1>10. Counted
  <2>1. CASE UNCHANGED vars
    BY <1>7, <2>1 DEF vars
  <2>2. ASSUME NEW w \in Worker, ClaimJobs(w) \/ StartJob(w) \/ Crash(w) PROVE Counted
    BY <1>4, <1>7, <2>2 DEF StartJob, Crash
  <2>3. ASSUME NEW p \in Caller, Store(p) \/ Read(p) \/ Claim(p) \/ Look(p) \/ Conclude(p)
                                 \/ Answer(p) \/ Throw(p)
        PROVE  Counted
    <3>1. job' = job
      BY <2>3 DEF Store, Read, Claim, Look, Conclude, Answer, Throw
    <3>2. QED
      BY <1>7, <3>1
  <2>4. ASSUME NEW p \in Caller, CompleteJob(p) \/ FailJob(p) PROVE Counted
    <3>1. p \in Worker
      BY <2>4 DEF CompleteJob, FailJob
    <3>2. QED
      BY <1>5, <2>4, <3>1
  <2>5. QED
    BY <1>6, <1>8, <1>9, <2>1, <2>2, <2>3, <2>4 DEF Next, Proceed
<1>11. QED
  BY <1>10

\* A job makes its attempts and no more, overrun or not: with time passing, this is what
\* brings every job to an end.
THEOREM AttemptsCounted == Spec => AttemptsOnlyGrow
<1>1. Init => AttemptsAreCounted
  BY DEF Init, Row, AttemptsAreCounted
<1>2. WellFormed /\ AttemptsAreCounted /\ [Next]_vars => AttemptsAreCounted'
  <2> SUFFICES ASSUME WellFormed, AttemptsAreCounted, [Next]_vars, NEW j \in Job
               PROVE  /\ job'[j].status = "ABSENT" => job'[j].attempts = 0
                      /\ job'[j].status = "DEAD" => job'[j].attempts = MaxAttempts
    BY DEF AttemptsAreCounted
  <2>1. job'[j].attempts \in 0 .. MaxAttempts /\ MaxAttempts \in Nat
    BY WellFormedStep, LimitAssumption DEF WellFormed, TypeOK, JobState
  <2>2. QED
    BY <2>1, JobWrites DEF AttemptsAreCounted
<1>3. WellFormed /\ AttemptsAreCounted /\ [Next]_vars
        => [\A j \in Job :
              /\ job'[j].attempts >= job[j].attempts
              /\ job[j].status = "DEAD" => job'[j].status \in {"DEAD", "SUCCEEDED"}]_vars
  BY JobWrites
<1>4. QED
  BY <1>1, <1>2, <1>3, WellFormedInit, WellFormedStep, PTL DEF Spec, AttemptsOnlyGrow
=============================================================================
