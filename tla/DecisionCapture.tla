--------------------------- MODULE DecisionCapture ---------------------------
(***************************************************************************)
(* How a decision gets into the memory that is searched.                   *)
(*                                                                         *)
(* The web application saves a decision under the client's Idempotency-Key *)
(* and writes its index chunk by chunk (app/api/decisions, lib/engine/     *)
(* decisionMemory.ts).  The services add assumptions to it, themselves or  *)
(* from an approved request, rewrite its index in one transaction and      *)
(* queue a job when that fails (services/decisions.ts, approvals.ts).      *)
(* Requests and jobs work on one decision at once and die anywhere.        *)
(*                                                                         *)
(* There is one key and so one decision, and its memory is a unit for the  *)
(* decision, numbered 0, and one for each assumption.                      *)
(***************************************************************************)
EXTENDS Integers, FiniteSets

CONSTANTS
  Request,    \* requests and workers
  Body,       \* what clients send with the key
  Unsaved,    \* no decision yet
  FirstUnits, \* units of a new decision, besides 0
  MaxUnits    \* bound on the assumptions of the decision

ASSUME CaptureAssumption ==
  /\ Unsaved \notin Body
  /\ FirstUnits \in Nat /\ MaxUnits \in Nat /\ FirstUnits <= MaxUnits

VARIABLES
  saved,          \* the body the decision was created from
  units,          \* how many assumptions it has
  chunk,          \* memory_chunks: a unit and the request that wrote it
  indexStatus,    \* memory_index_status
  retryJob,       \* index_decision: "none", "waiting" or "dead"
  addRequest,     \* the approval request ADD_ASSUMPTION
  request         \* where each request is

\* Ghosts.
VARIABLES
  disturbed,      \* two requests were at work at once, or one that had added an
                  \* assumption died
  clientKnows,    \* since it was last INDEXED, a caller was told to retry or was cut off
  promised,       \* the bodies whose senders were told their decision is saved
  timesAdded      \* how often the requested assumption was added

captureVars == <<saved, units, chunk, indexStatus, retryJob, addRequest, request,
                 disturbed, clientKnows, promised, timesAdded>>

Unit == 0..MaxUnits

WebPhase  == {"create", "pending", "delete", "insert", "mark", "failing", "stragglers"}
CorePhase == {"adding", "read", "replace", "markCore", "queue", "resolve"}

Resting == [phase |-> "idle", kind |-> "web", body |-> Unsaved, snapshot |-> 0, todo |-> {}]

CaptureTypeOK ==
  /\ saved \in Body \cup {Unsaved}
  /\ units \in Unit
  /\ chunk \subseteq Unit \X Request
  /\ indexStatus \in {"PENDING", "INDEXED", "FAILED"}
  /\ retryJob \in {"none", "waiting", "dead"}
  /\ addRequest \in {"PENDING", "APPROVED", "REJECTED"}
  /\ request \in [Request -> [phase : {"idle"} \cup WebPhase \cup CorePhase,
                              kind : {"web", "add", "approve", "job"},
                              body : Body \cup {Unsaved}, snapshot : Unit, todo : SUBSET Unit]]
  /\ disturbed \in BOOLEAN /\ clientKnows \in BOOLEAN
  /\ promised \subseteq Body
  /\ timesAdded \in Nat

CaptureInit ==
  /\ saved = Unsaved
  /\ units = FirstUnits
  /\ chunk = {}
  /\ indexStatus = "PENDING"
  /\ retryJob = "none"
  /\ addRequest = "PENDING"
  /\ request = [r \in Request |-> Resting]
  /\ disturbed = FALSE /\ clientKnows = FALSE
  /\ promised = {}
  /\ timesAdded = 0

------------------------------------------------------------------------------
StageOf(r) == request[r].phase
Proceed(r, p) == request' = [request EXCEPT ![r].phase = p]
Rest(r) == request' = [request EXCEPT ![r] = Resting]
Begin(r, k) == request' = [request EXCEPT ![r] = k]
SomeoneElse(r) == \E q \in Request \ {r} : StageOf(q) # "idle"

row    == <<saved, units>>
index  == <<chunk, indexStatus>>
queue  == <<retryJob, addRequest>>
ghosts == <<disturbed, clientKnows, promised, timesAdded>>

\* A request comes in.
Arrive(r) ==
  /\ StageOf(r) = "idle"
  /\ disturbed' = (disturbed \/ SomeoneElse(r))

------------------------------------------------------------------------------
(* The web application: POST /api/decisions and its retries.               *)

Working(p, k, b) == [Resting EXCEPT !.phase = p, !.kind = k, !.body = b, !.snapshot = units]

\* Mutant: the key alone decides.
SameKey(b) == TRUE

SameFingerprint(b) == saved = b

\* The lookup before anything is written.
Post(r, b) ==
  /\ Arrive(r)
  /\ \/ /\ saved = Unsaved
        /\ Begin(r, Working("create", "web", b))
        /\ UNCHANGED promised
     \/ /\ saved # Unsaved /\ ~SameFingerprint(b)
        /\ UNCHANGED <<request, promised>>
     \/ /\ saved # Unsaved /\ SameFingerprint(b) /\ indexStatus = "INDEXED"
        /\ promised' = promised \cup {b}
        /\ UNCHANGED request
     \/ /\ saved # Unsaved /\ SameFingerprint(b) /\ indexStatus # "INDEXED"
        /\ Begin(r, Working("pending", "web", b))
        /\ UNCHANGED promised
  /\ UNCHANGED <<row, index, queue, clientKnows, timesAdded>>

\* The unique index on the key lets one of two creations through; the other goes on
\* with the winner's decision if it is the same, whatever its index is by now.
Create(r) ==
  /\ StageOf(r) = "create"
  /\ \/ /\ saved = Unsaved
        /\ saved' = request[r].body
        /\ Begin(r, Working("pending", "web", request[r].body))
     \/ /\ saved # Unsaved /\ SameFingerprint(request[r].body)
        /\ Begin(r, Working("pending", "web", request[r].body))
        /\ UNCHANGED saved
     \/ /\ saved # Unsaved /\ ~SameFingerprint(request[r].body)
        /\ Rest(r)
        /\ UNCHANGED saved
  /\ UNCHANGED <<units, index, queue, ghosts>>

\* POST /api/decisions/[id]/memory.
RetryIndex(r) ==
  /\ Arrive(r)
  /\ saved # Unsaved /\ indexStatus # "INDEXED"
  /\ Begin(r, Working("pending", "web", Unsaved))
  /\ UNCHANGED <<row, index, queue, clientKnows, promised, timesAdded>>

\* Then the texts are embedded, or that fails.
MarkPending(r) ==
  /\ StageOf(r) = "pending"
  /\ indexStatus' = "PENDING"
  /\ \E p \in {"delete", "failing"} : Proceed(r, p)
  /\ UNCHANGED <<row, chunk, queue, ghosts>>

\* Mutant: a retry appends to what is there.
DeletesNothing == chunk

AfterDelete == {}

DeleteChunks(r) ==
  /\ StageOf(r) = "delete"
  /\ chunk' = AfterDelete
  /\ request' = [request EXCEPT ![r].phase = "insert", ![r].snapshot = 0,
                                ![r].todo = 0..request[r].snapshot]
  /\ UNCHANGED <<row, indexStatus, queue, ghosts>>

\* The chunks are inserted in parallel; when one fails the others are still under way.
InsertChunk(r, u) ==
  /\ StageOf(r) \in {"insert", "failing", "stragglers"}
  /\ u \in request[r].todo
  /\ chunk' = chunk \cup {<<u, r>>}
  /\ request' = [request EXCEPT ![r].todo = @ \ {u}]
  /\ UNCHANGED <<row, indexStatus, queue, ghosts>>

InsertFails(r, u) ==
  /\ StageOf(r) \in {"insert", "failing", "stragglers"}
  /\ u \in request[r].todo
  /\ request' = [request EXCEPT ![r].todo = @ \ {u},
                                ![r].phase = IF @ = "insert" THEN "failing" ELSE @]
  /\ UNCHANGED <<row, index, queue, ghosts>>

Inserted(r) ==
  /\ StageOf(r) = "insert" /\ request[r].todo = {}
  /\ \E p \in {"mark", "failing"} : Proceed(r, p)
  /\ UNCHANGED <<row, index, queue, ghosts>>


\* The audit record that follows may still fail.
Promise(r) == promised' = promised \cup ({request[r].body} \ {Unsaved})

MarkIndexed(r) ==
  /\ StageOf(r) = "mark"
  /\ indexStatus' = "INDEXED"
  /\ clientKnows' = FALSE
  /\ \/ Promise(r) /\ Rest(r)
     \/ UNCHANGED promised /\ Proceed(r, "failing")
  /\ UNCHANGED <<row, chunk, queue, disturbed, timesAdded>>

\* Answered 202: saved, but to be retried.
MarkFailed(r) ==
  /\ StageOf(r) = "failing"
  /\ indexStatus' = "FAILED"
  /\ clientKnows' = TRUE
  /\ Promise(r)
  /\ IF request[r].todo = {} THEN Rest(r) ELSE Proceed(r, "stragglers")
  /\ UNCHANGED <<row, chunk, queue, disturbed, timesAdded>>

Straggled(r) ==
  /\ StageOf(r) = "stragglers" /\ request[r].todo = {}
  /\ Rest(r)
  /\ UNCHANGED <<row, index, queue, ghosts>>

------------------------------------------------------------------------------
(* The services: an assumption is added, and the memory indexed again.     *)

\* proposeAssumption by a person.
AddAssumption(r) ==
  /\ Arrive(r)
  /\ saved # Unsaved /\ units < MaxUnits
  /\ units' = units + 1
  /\ Begin(r, [Resting EXCEPT !.phase = "read", !.kind = "add"])
  /\ UNCHANGED <<saved, index, queue, clientKnows, promised, timesAdded>>

\* Mutant: an approved request may be approved again.
EvenApproved == TRUE

\* A request that was parked for more evidence counts as pending.
Undecided == addRequest = "PENDING"

\* resolve(approve) of ADD_ASSUMPTION reads the request, adds the assumption, indexes
\* the decision and only then closes the request.
Approve(r) ==
  /\ Arrive(r)
  /\ saved # Unsaved /\ Undecided
  /\ Begin(r, [Resting EXCEPT !.phase = "adding", !.kind = "approve"])
  /\ UNCHANGED <<row, index, queue, clientKnows, promised, timesAdded>>

AddApproved(r) ==
  /\ StageOf(r) = "adding" /\ units < MaxUnits
  /\ units' = units + 1
  /\ timesAdded' = timesAdded + 1
  /\ Proceed(r, "read")
  /\ UNCHANGED <<saved, index, queue, disturbed, clientKnows, promised>>

StartJob(r) ==
  /\ Arrive(r)
  /\ retryJob = "waiting"
  /\ retryJob' = "none"
  /\ Begin(r, [Resting EXCEPT !.phase = "read", !.kind = "job"])
  /\ UNCHANGED <<row, index, addRequest, clientKnows, promised, timesAdded>>

\* The decision is read, and its texts are embedded outside any transaction.
ReadDecision(r) ==
  /\ StageOf(r) = "read"
  /\ request' = [request EXCEPT ![r].phase = "replace", ![r].snapshot = units]
  /\ UNCHANGED <<row, index, queue, ghosts>>

ReplaceMemory(r) ==
  /\ StageOf(r) = "replace"
  /\ chunk' = (0..request[r].snapshot) \X {r}
  /\ request' = [request EXCEPT ![r].phase = "markCore", ![r].snapshot = 0]
  /\ UNCHANGED <<row, indexStatus, queue, ghosts>>

AfterIndexing(r) == IF request[r].kind = "approve" THEN Proceed(r, "resolve") ELSE Rest(r)

MarkCore(r) ==
  /\ StageOf(r) = "markCore"
  /\ indexStatus' = "INDEXED"
  /\ clientKnows' = FALSE
  /\ AfterIndexing(r)
  /\ UNCHANGED <<row, chunk, queue, disturbed, promised, timesAdded>>

\* indexOrQueue records the failure and queues a job.  A job that fails goes back to
\* the queue or, its attempts spent, is dead-lettered.
CoreFails(r) ==
  /\ StageOf(r) \in {"read", "replace", "markCore"}
  /\ \/ /\ request[r].kind = "job"
        /\ retryJob' \in {"waiting", "dead"}
        /\ Rest(r)
        /\ UNCHANGED indexStatus
     \/ /\ request[r].kind # "job"
        /\ indexStatus' = "FAILED"
        /\ Proceed(r, "queue")
        /\ UNCHANGED retryJob
  /\ UNCHANGED <<row, chunk, addRequest, ghosts>>

\* Mutant: the failure is only recorded.
QueuesNothing == retryJob

QueuedJob == "waiting"

QueueJob(r) ==
  /\ StageOf(r) = "queue"
  /\ retryJob' = QueuedJob
  /\ AfterIndexing(r)
  /\ UNCHANGED <<row, index, addRequest, ghosts>>

\* Only an undecided request can be resolved.
ResolveAdd(r) ==
  /\ StageOf(r) = "resolve"
  /\ addRequest' = IF Undecided THEN "APPROVED" ELSE addRequest
  /\ Rest(r)
  /\ UNCHANGED <<row, index, retryJob, ghosts>>

RejectAdd(r) ==
  /\ Arrive(r)
  /\ saved # Unsaved /\ Undecided
  /\ addRequest' = "REJECTED"
  /\ UNCHANGED <<row, index, retryJob, request, clientKnows, promised, timesAdded>>

\* The process dies, or a statement outside any try fails and the caller sees an error.
\* A worker's job is handed out again when its lock expires.
Die(r) ==
  /\ StageOf(r) # "idle"
  /\ retryJob' = IF request[r].kind = "job" THEN "waiting" ELSE retryJob
  /\ disturbed' = (disturbed \/ (request[r].kind \in {"add", "approve"} /\ StageOf(r) # "adding"))
  /\ clientKnows' = (clientKnows \/ request[r].kind # "job")
  /\ Rest(r)
  /\ UNCHANGED <<row, index, addRequest, promised, timesAdded>>

RequestStep(r) ==
  \/ \E b \in Body : Post(r, b)
  \/ Create(r) \/ RetryIndex(r) \/ MarkPending(r) \/ DeleteChunks(r)
  \/ \E u \in Unit : InsertChunk(r, u) \/ InsertFails(r, u)
  \/ Inserted(r) \/ MarkIndexed(r) \/ MarkFailed(r) \/ Straggled(r)
  \/ AddAssumption(r) \/ Approve(r) \/ AddApproved(r) \/ StartJob(r)
  \/ ReadDecision(r) \/ ReplaceMemory(r) \/ MarkCore(r) \/ CoreFails(r)
  \/ QueueJob(r) \/ ResolveAdd(r) \/ RejectAdd(r) \/ Die(r)

CaptureNext == \E r \in Request : RequestStep(r)
CaptureSpec == CaptureInit /\ [][CaptureNext]_captureVars

------------------------------------------------------------------------------
(* What must hold.                                                         *)

NobodyAtWork == \A r \in Request : StageOf(r) = "idle"

\* A decision marked INDEXED is found whole and once: every unit has exactly one chunk,
\* after any sequence of failures, retries and crashes, as long as requests did not
\* overlap and none died right after adding an assumption.
IndexedMeansWhole ==
  NobodyAtWork /\ ~disturbed /\ indexStatus = "INDEXED" =>
    /\ {c[1] : c \in chunk} = 0..units
    /\ Cardinality(chunk) = units + 1

\* Whoever was told that the decision behind the key is saved sent that very decision,
\* however many requests with different bodies raced to create it.
KeyNamesOneDecision == promised \subseteq {saved}

\* A decision that is not searchable is on somebody's list: a job waits or is dead-
\* lettered, or a caller was told to retry or saw its request fail.
UnindexedIsKnown ==
  NobodyAtWork /\ saved # Unsaved /\ indexStatus # "INDEXED" => retryJob # "none" \/ clientKnows

\* Approving a proposed assumption adds it once, unless two approvals overlap or one
\* is cut off before it closes the request.
ApprovedAddsOnce == ~disturbed => timesAdded <= 1

------------------------------------------------------------------------------
(* What a comment claims and the code does not keep.                       *)

\* "A retry after a network timeout must replace the prior partial index rather than
\* append duplicate decision/assumption chunks" (decisionMemory.ts): the delete and the
\* inserts are statements of their own, so a retry beside a request that is still at work
\* leaves the chunks of both.
RetryReplacesIndex ==
  NobodyAtWork /\ indexStatus = "INDEXED" =>
    \A u \in Unit : Cardinality({c \in chunk : c[1] = u}) <= 1
=============================================================================
