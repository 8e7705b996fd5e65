------------------------- MODULE DecisionCaptureProofs -------------------------
(***************************************************************************)
(* That what is marked INDEXED is whole, that a key names one decision,    *)
(* that an unindexed decision is known to somebody and that an approved    *)
(* assumption is added once: for any number of requests, bodies and        *)
(* assumptions.                                                            *)
(***************************************************************************)
EXTENDS DecisionCapture, FiniteSetTheorems, TLAPS

------------------------------------------------------------------------------
(* The inductive invariant.                                                *)

\* Once there is a decision, whoever works for it holds the winner's body.
Keys ==
  /\ promised \subseteq {saved}
  /\ \A r \in Request :
       /\ request[r].phase \notin {"idle", "create"} => request[r].body \in {saved, Unsaved}
       /\ request[r].phase \in {"idle", "create"} => request[r].kind = "web"
       /\ request[r].phase = "create" => request[r].body # Unsaved
       /\ request[r].phase \notin {"insert", "failing", "stragglers"} => request[r].todo = {}
  /\ saved = Unsaved =>
       retryJob = "none" /\ \A r \in Request : request[r].phase \in {"idle", "create"}

\* While the index is not done, some request is on its way to settle it.
Settling == {"pending", "delete", "insert", "mark", "failing", "read", "replace", "markCore", "queue"}

Attended ==
  saved # Unsaved /\ indexStatus # "INDEXED" =>
    retryJob # "none" \/ clientKnows \/ \E r \in Request : request[r].phase \in Settling

Alone == \A r, q \in Request : r # q => request[r].phase = "idle" \/ request[q].phase = "idle"

\* An assumption that is added has its approval on the way.
Closing == {"read", "replace", "markCore", "queue", "resolve"}

Once ==
  ~disturbed =>
    /\ Alone
    /\ timesAdded <= 1
    /\ \A r \in Request : request[r].phase = "adding" => timesAdded = 0 /\ request[r].kind = "approve"
    /\ timesAdded = 1 /\ Undecided =>
         \E r \in Request : request[r].kind = "approve" /\ request[r].phase \in Closing

WholeNow == \E q \in Request : chunk = (0..units) \X {q}

\* An assumption has just been added and its decision is about to be indexed.
Lagging == \E r \in Request : request[r].kind \in {"add", "approve"} /\ request[r].phase \in {"read", "replace"}

Indexing ==
  ~disturbed =>
    /\ indexStatus = "INDEXED" => WholeNow \/ Lagging
    /\ \A r \in Request :
         /\ request[r].phase \in {"pending", "delete", "replace"} => request[r].snapshot = units
         /\ request[r].phase = "insert" =>
              request[r].todo \subseteq 0..units /\ chunk = ((0..units) \ request[r].todo) \X {r}
         /\ request[r].phase \in {"mark", "markCore"} => WholeNow
         /\ request[r].phase \in {"delete", "insert"} \/ request[r].todo # {} => indexStatus # "INDEXED"

CaptureInv == CaptureTypeOK /\ Keys /\ Attended /\ Once /\ Indexing

------------------------------------------------------------------------------
(* Where a request goes.                                                   *)

AllPhases == {"idle"} \cup WebPhase \cup CorePhase
AllKinds  == {"web", "add", "approve", "job"}

Slot == [phase : AllPhases, kind : AllKinds, body : Body \cup {Unsaved}, snapshot : Unit,
         todo : SUBSET Unit]

Placed(r, p, k, b, n, t) ==
  /\ request' \in [Request -> Slot]
  /\ request'[r].phase = p /\ request'[r].kind = k /\ request'[r].body = b
  /\ request'[r].snapshot = n /\ request'[r].todo = t
  /\ \A q \in Request \ {r} : request'[q] = request[q]

LEMMA UnitFacts == 0 \in Unit /\ FirstUnits \in Unit
  BY CaptureAssumption DEF Unit

LEMMA RestingIsSlot == Resting \in Slot
  BY UnitFacts DEF Resting, Slot, AllPhases, AllKinds

LEMMA SlotsTyped == ASSUME CaptureTypeOK PROVE request \in [Request -> Slot]
  BY DEF CaptureTypeOK, Slot, AllPhases, AllKinds

LEMMA BeginPlaces ==
  ASSUME request \in [Request -> Slot], NEW r \in Request, NEW s \in Slot, Begin(r, s)
  PROVE  Placed(r, s.phase, s.kind, s.body, s.snapshot, s.todo)
  BY DEF Begin, Placed

LEMMA StartPlaces ==
  ASSUME request \in [Request -> Slot], NEW r \in Request, NEW p \in AllPhases,
         NEW k \in AllKinds, NEW b \in Body \cup {Unsaved}, NEW n \in Unit,
         Begin(r, [Resting EXCEPT !.phase = p, !.kind = k, !.body = b, !.snapshot = n])
  PROVE  Placed(r, p, k, b, n, {})
  <1> DEFINE s == [Resting EXCEPT !.phase = p, !.kind = k, !.body = b, !.snapshot = n]
  <1>1. s \in Slot BY RestingIsSlot DEF Slot
  <1>2. Placed(r, s.phase, s.kind, s.body, s.snapshot, s.todo) BY <1>1, BeginPlaces
  <1> QED BY <1>2 DEF Resting

LEMMA StartCorePlaces ==
  ASSUME request \in [Request -> Slot], NEW r \in Request, NEW p \in AllPhases,
         NEW k \in AllKinds, Begin(r, [Resting EXCEPT !.phase = p, !.kind = k])
  PROVE  Placed(r, p, k, Unsaved, 0, {})
  <1> DEFINE s == [Resting EXCEPT !.phase = p, !.kind = k]
  <1>1. s \in Slot BY RestingIsSlot DEF Slot
  <1>2. Placed(r, s.phase, s.kind, s.body, s.snapshot, s.todo) BY <1>1, BeginPlaces
  <1> QED BY <1>2 DEF Resting

LEMMA RestPlaces ==
  ASSUME request \in [Request -> Slot], NEW r \in Request, Rest(r)
  PROVE  Placed(r, "idle", "web", Unsaved, 0, {})
  <1>1. Begin(r, Resting) BY DEF Rest, Begin
  <1>2. Placed(r, Resting.phase, Resting.kind, Resting.body, Resting.snapshot, Resting.todo)
    BY <1>1, RestingIsSlot, BeginPlaces
  <1> QED BY <1>2 DEF Resting

LEMMA ProceedPlaces ==
  ASSUME request \in [Request -> Slot], NEW r \in Request, NEW p \in AllPhases, Proceed(r, p)
  PROVE  Placed(r, p, request[r].kind, request[r].body, request[r].snapshot, request[r].todo)
  <1>1. [request[r] EXCEPT !.phase = p] \in Slot BY DEF Slot
  <1>2. request' = [request EXCEPT ![r] = [request[r] EXCEPT !.phase = p]] BY DEF Proceed
  <1> QED BY <1>1, <1>2 DEF Placed, Slot

\* A request that changes its place with what it remembers and has to do.
LEMMA ChangePlaces ==
  ASSUME request \in [Request -> Slot], NEW r \in Request, NEW p \in AllPhases, NEW n \in Unit,
         NEW t \in SUBSET Unit,
         request' = [request EXCEPT ![r].phase = p, ![r].snapshot = n, ![r].todo = t]
  PROVE  Placed(r, p, request[r].kind, request[r].body, n, t)
  <1>1. [request[r] EXCEPT !.phase = p, !.snapshot = n, !.todo = t] \in Slot BY DEF Slot
  <1>2. request' = [request EXCEPT ![r] = [request[r] EXCEPT !.phase = p, !.snapshot = n, !.todo = t]]
    OBVIOUS
  <1> QED BY <1>1, <1>2 DEF Placed, Slot

LEMMA TypeFromSlots ==
  ASSUME CaptureTypeOK, request' \in [Request -> Slot],
         saved' \in Body \cup {Unsaved}, units' \in Unit, chunk' \subseteq Unit \X Request,
         indexStatus' \in {"PENDING", "INDEXED", "FAILED"}, retryJob' \in {"none", "waiting", "dead"},
         addRequest' \in {"PENDING", "APPROVED", "REJECTED"}, disturbed' \in BOOLEAN,
         clientKnows' \in BOOLEAN, promised' \subseteq Body, timesAdded' \in Nat
  PROVE  CaptureTypeOK'
  BY DEF CaptureTypeOK, Slot, AllPhases, AllKinds

\* Without a disturbance whoever comes in is alone.
LEMMA ArriveAlone ==
  ASSUME CaptureTypeOK, NEW r \in Request, Arrive(r), ~disturbed'
  PROVE  ~disturbed /\ \A q \in Request : request[q].phase = "idle"
  BY DEF CaptureTypeOK, Arrive, SomeoneElse, StageOf

------------------------------------------------------------------------------
LEMMA CaptureStart == ASSUME CaptureInit PROVE CaptureInv
  <1>1. request \in [Request -> Slot] BY RestingIsSlot DEF CaptureInit
  <1>2. CaptureTypeOK BY <1>1, UnitFacts DEF CaptureInit, CaptureTypeOK, Slot, AllPhases, AllKinds
  <1>3. \A r \in Request : request[r] = Resting BY DEF CaptureInit
  <1> QED
    BY <1>2, <1>3 DEF CaptureInit, CaptureInv, Keys, Attended, Once, Alone, Indexing, Resting

LEMMA PostKeeps ==
  ASSUME CaptureInv, NEW r \in Request, NEW b \in Body, Post(r, b)
  PROVE  CaptureInv'
  <1> USE DEF Post, StageOf, Arrive, row, index, queue, SameFingerprint
  <1>1. request \in [Request -> Slot] BY SlotsTyped DEF CaptureInv
  <1>2. \/ saved = Unsaved /\ Placed(r, "create", "web", b, units, {})
        \/ saved = b /\ Placed(r, "pending", "web", b, units, {}) /\ indexStatus # "INDEXED"
        \/ request' = request
    BY <1>1, StartPlaces, UnitFacts DEF AllPhases, WebPhase, AllKinds, Working, CaptureInv, CaptureTypeOK
  <1>3. ~disturbed' => ~disturbed /\ \A q \in Request : request[q].phase = "idle"
    BY ArriveAlone DEF CaptureInv
  <1>4. CaptureTypeOK'
    BY <1>1, <1>2, TypeFromSlots DEF CaptureInv, CaptureTypeOK, Placed
  <1>5. Keys'
    BY <1>1, <1>2, CaptureAssumption DEF CaptureInv, Keys, Placed
  <1>6. Attended'
    BY <1>1, <1>2 DEF CaptureInv, Attended, Keys, Settling, Placed
  <1>7. Once'
    BY <1>3, <1>1, <1>2 DEF CaptureInv, CaptureTypeOK, Once, Keys, Alone, Closing, Undecided, Placed
  <1>8. Indexing'
    BY <1>3, <1>1, <1>2 DEF CaptureInv, CaptureTypeOK, Indexing, Keys, Once, Alone, WholeNow, Lagging, Placed
  <1> QED
    BY <1>4, <1>5, <1>6, <1>7, <1>8 DEF CaptureInv

LEMMA CreateKeeps ==
  ASSUME CaptureInv, NEW r \in Request, Create(r)
  PROVE  CaptureInv'
  <1> USE DEF Create, StageOf, index, queue, ghosts, SameFingerprint
  <1>1. request \in [Request -> Slot] BY SlotsTyped DEF CaptureInv
  <1>2. \/ saved' = request[r].body /\ Placed(r, "pending", "web", request[r].body, units, {})
        \/ saved # Unsaved /\ saved' = saved /\ Placed(r, "idle", "web", Unsaved, 0, {})
    BY <1>1, RestPlaces, StartPlaces DEF AllPhases, WebPhase, AllKinds, Working, CaptureInv, CaptureTypeOK
  <1>3. CaptureTypeOK'
    BY <1>1, <1>2, TypeFromSlots DEF CaptureInv, CaptureTypeOK, Placed
  <1>4. promised \subseteq {saved'}
    BY <1>1, CaptureAssumption DEF CaptureInv, CaptureTypeOK, Keys
  <1>5. Keys'
    BY <1>1, <1>2, <1>4 DEF CaptureInv, Keys, Placed
  <1>6. Attended'
    BY <1>1, <1>2 DEF CaptureInv, Attended, Keys, Settling, Placed
  <1>7. Once'
    BY <1>1, <1>2 DEF CaptureInv, CaptureTypeOK, Once, Keys, Alone, Closing, Undecided, Placed
  <1>8. Indexing'
    BY <1>1, <1>2 DEF CaptureInv, Indexing, Keys, Once, Alone, WholeNow, Lagging, Placed
  <1> QED
    BY <1>3, <1>5, <1>6, <1>7, <1>8 DEF CaptureInv

LEMMA RetryIndexKeeps ==
  ASSUME CaptureInv, NEW r \in Request, RetryIndex(r)
  PROVE  CaptureInv'
  <1> USE DEF RetryIndex, StageOf, Arrive, row, index, queue
  <1>1. request \in [Request -> Slot] BY SlotsTyped DEF CaptureInv
  <1>2. Placed(r, "pending", "web", Unsaved, units, {})
    BY <1>1, StartPlaces, UnitFacts DEF AllPhases, WebPhase, AllKinds, Working, CaptureInv, CaptureTypeOK
  <1>3. ~disturbed' => ~disturbed /\ \A q \in Request : request[q].phase = "idle"
    BY ArriveAlone DEF CaptureInv
  <1>4. CaptureTypeOK'
    BY <1>1, <1>2, TypeFromSlots DEF CaptureInv, CaptureTypeOK, Placed
  <1>5. Keys'
    BY <1>1, <1>2 DEF CaptureInv, Keys, Placed
  <1>6. Attended'
    BY <1>1, <1>2 DEF CaptureInv, Attended, Keys, Settling, Placed
  <1>7. Once'
    BY <1>3, <1>1, <1>2 DEF CaptureInv, CaptureTypeOK, Once, Keys, Alone, Closing, Undecided, Placed
  <1>8. Indexing'
    BY <1>3, <1>1, <1>2 DEF CaptureInv, CaptureTypeOK, Indexing, Keys, Once, Alone, WholeNow, Lagging, Placed
  <1> QED
    BY <1>4, <1>5, <1>6, <1>7, <1>8 DEF CaptureInv

LEMMA MarkPendingKeeps ==
  ASSUME CaptureInv, NEW r \in Request, MarkPending(r)
  PROVE  CaptureInv'
  <1> USE DEF MarkPending, StageOf, row, queue, ghosts
  <1>1. request \in [Request -> Slot] BY SlotsTyped DEF CaptureInv
  <1>2. Placed(r, "delete", request[r].kind, request[r].body, request[r].snapshot, request[r].todo) \/ Placed(r, "failing", request[r].kind, request[r].body, request[r].snapshot, request[r].todo)
    BY <1>1, ProceedPlaces DEF AllPhases, WebPhase, CorePhase
  <1>3. CaptureTypeOK'
    BY <1>1, <1>2, TypeFromSlots DEF CaptureInv, CaptureTypeOK, Placed
  <1>4. Keys'
    BY <1>1, <1>2 DEF CaptureInv, Keys, Placed
  <1>5. Attended'
    BY <1>1, <1>2 DEF CaptureInv, Attended, Keys, Settling, Placed
  <1>6. Once'
    BY <1>1, <1>2 DEF CaptureInv, CaptureTypeOK, Once, Keys, Alone, Closing, Undecided, Placed
  <1>7. Indexing'
    BY <1>1, <1>2 DEF CaptureInv, Indexing, Keys, Once, Alone, WholeNow, Lagging, Placed
  <1> QED
    BY <1>3, <1>4, <1>5, <1>6, <1>7 DEF CaptureInv

LEMMA DeleteChunksKeeps ==
  ASSUME CaptureInv, NEW r \in Request, DeleteChunks(r)
  PROVE  CaptureInv'
  <1> USE DEF DeleteChunks, StageOf, row, queue, ghosts, AfterDelete
  <1>1. request \in [Request -> Slot] BY SlotsTyped DEF CaptureInv
  <1>2. 0..request[r].snapshot \in SUBSET Unit
    BY <1>1, CaptureAssumption DEF Slot, Unit
  <1>3. Placed(r, "insert", request[r].kind, request[r].body, 0, 0..request[r].snapshot)
    BY <1>1, <1>2, ChangePlaces, UnitFacts DEF AllPhases, WebPhase, CorePhase, Slot, CaptureInv, CaptureTypeOK
  <1>4. CaptureTypeOK'
    BY <1>1, <1>3, TypeFromSlots DEF CaptureInv, CaptureTypeOK, Placed
  <1>5. Keys'
    BY <1>1, <1>3 DEF CaptureInv, Keys, Placed
  <1>6. Attended'
    BY <1>1, <1>3 DEF CaptureInv, Attended, Keys, Settling, Placed
  <1>7. Once'
    BY <1>1, <1>3 DEF CaptureInv, CaptureTypeOK, Once, Keys, Alone, Closing, Undecided, Placed
  <1>8. Indexing'
    BY <1>1, <1>3 DEF CaptureInv, Indexing, Keys, Once, Alone, WholeNow, Lagging, Placed
  <1> QED
    BY <1>4, <1>5, <1>6, <1>7, <1>8 DEF CaptureInv

LEMMA InsertChunkKeeps ==
  ASSUME CaptureInv, NEW r \in Request, NEW u \in Unit, InsertChunk(r, u)
  PROVE  CaptureInv'
  <1> USE DEF InsertChunk, StageOf, row, queue, ghosts
  <1>1. request \in [Request -> Slot] BY SlotsTyped DEF CaptureInv
  <1>2. Placed(r, request[r].phase, request[r].kind, request[r].body, request[r].snapshot, request[r].todo \ {u})
    BY <1>1, ChangePlaces DEF AllPhases, WebPhase, CorePhase, Slot, CaptureInv, CaptureTypeOK
  <1>3. CaptureTypeOK'
    BY <1>1, <1>2, TypeFromSlots DEF CaptureInv, CaptureTypeOK, Placed
  <1>4. Keys'
    BY <1>1, <1>2 DEF CaptureInv, Keys, Placed
  <1>5. Attended'
    BY <1>1, <1>2 DEF CaptureInv, Attended, Keys, Settling, Placed
  <1>6. Once'
    BY <1>1, <1>2 DEF CaptureInv, CaptureTypeOK, Once, Keys, Alone, Closing, Undecided, Placed
  <1>7. Indexing'
    BY <1>1, <1>2 DEF CaptureInv, Indexing, Keys, Once, Alone, WholeNow, Lagging, Placed
  <1> QED
    BY <1>3, <1>4, <1>5, <1>6, <1>7 DEF CaptureInv

LEMMA InsertFailsKeeps ==
  ASSUME CaptureInv, NEW r \in Request, NEW u \in Unit, InsertFails(r, u)
  PROVE  CaptureInv'
  <1>1. request \in [Request -> Slot] BY SlotsTyped DEF CaptureInv
  <1>2. /\ StageOf(r) \in {"insert", "failing", "stragglers"} /\ u \in request[r].todo
        /\ UNCHANGED <<row, index, queue, ghosts>>
    BY DEF InsertFails
  <1>3. PICK p \in {"failing", "stragglers"} :
          /\ p = "stragglers" => request[r].phase = "stragglers"
          /\ request' = [request EXCEPT ![r].todo = @ \ {u}, ![r].phase = p]
    BY <1>2 DEF InsertFails, StageOf
  <1>4. Placed(r, p, request[r].kind, request[r].body, request[r].snapshot, request[r].todo \ {u})
    <2>1. request[r].todo \ {u} \in SUBSET Unit /\ request[r].snapshot \in Unit
      BY <1>1 DEF Slot
    <2>2. request' = [request EXCEPT ![r].phase = p, ![r].snapshot = request[r].snapshot,
                                     ![r].todo = request[r].todo \ {u}]
      BY <1>1, <1>3 DEF Slot
    <2> QED
      BY <1>1, <2>1, <2>2, ChangePlaces DEF AllPhases, WebPhase
  <1> USE <1>2 DEF StageOf, row, index, queue, ghosts
  <1>5. CaptureTypeOK'
    BY <1>1, <1>4, TypeFromSlots DEF CaptureInv, CaptureTypeOK, Placed
  <1>6. Keys'
    BY <1>1, <1>3, <1>4 DEF CaptureInv, Keys, Placed
  <1>7. Attended'
    BY <1>1, <1>3, <1>4 DEF CaptureInv, Attended, Keys, Settling, Placed
  <1>8. Once'
    BY <1>1, <1>3, <1>4 DEF CaptureInv, CaptureTypeOK, Once, Keys, Alone, Closing, Undecided, Placed
  <1>9. Indexing'
    BY <1>1, <1>3, <1>4 DEF CaptureInv, Indexing, Keys, Once, Alone, WholeNow, Lagging, Placed
  <1> QED
    BY <1>5, <1>6, <1>7, <1>8, <1>9 DEF CaptureInv

LEMMA InsertedKeeps ==
  ASSUME CaptureInv, NEW r \in Request, Inserted(r)
  PROVE  CaptureInv'
  <1> USE DEF Inserted, StageOf, row, index, queue, ghosts
  <1>1. request \in [Request -> Slot] BY SlotsTyped DEF CaptureInv
  <1>2. Placed(r, "mark", request[r].kind, request[r].body, request[r].snapshot, request[r].todo) \/ Placed(r, "failing", request[r].kind, request[r].body, request[r].snapshot, request[r].todo)
    BY <1>1, ProceedPlaces DEF AllPhases, WebPhase, CorePhase
  <1>3. CaptureTypeOK'
    BY <1>1, <1>2, TypeFromSlots DEF CaptureInv, CaptureTypeOK, Placed
  <1>4. Keys'
    BY <1>1, <1>2 DEF CaptureInv, Keys, Placed
  <1>5. Attended'
    BY <1>1, <1>2 DEF CaptureInv, Attended, Keys, Settling, Placed
  <1>6. Once'
    BY <1>1, <1>2 DEF CaptureInv, CaptureTypeOK, Once, Keys, Alone, Closing, Undecided, Placed
  <1>7. Indexing'
    BY <1>1, <1>2 DEF CaptureInv, Indexing, Keys, Once, Alone, WholeNow, Lagging, Placed
  <1> QED
    BY <1>3, <1>4, <1>5, <1>6, <1>7 DEF CaptureInv

LEMMA MarkIndexedKeeps ==
  ASSUME CaptureInv, NEW r \in Request, MarkIndexed(r)
  PROVE  CaptureInv'
  <1> USE DEF MarkIndexed, StageOf, row, queue, Promise
  <1>1. request \in [Request -> Slot] BY SlotsTyped DEF CaptureInv
  <1>2. Placed(r, "idle", "web", Unsaved, 0, {}) \/ Placed(r, "failing", request[r].kind, request[r].body, request[r].snapshot, request[r].todo)
    BY <1>1, ProceedPlaces, RestPlaces DEF AllPhases, WebPhase, CorePhase
  <1>3. CaptureTypeOK'
    BY <1>1, <1>2, TypeFromSlots DEF CaptureInv, CaptureTypeOK, Placed
  <1>4. Keys'
    BY <1>1, <1>2 DEF CaptureInv, Keys, Placed
  <1>5. Attended'
    BY <1>1, <1>2 DEF CaptureInv, Attended, Keys, Settling, Placed
  <1>6. Once'
    BY <1>1, <1>2 DEF CaptureInv, CaptureTypeOK, Once, Keys, Alone, Closing, Undecided, Placed
  <1>7. Indexing'
    BY <1>1, <1>2 DEF CaptureInv, Indexing, Keys, Once, Alone, WholeNow, Lagging, Placed
  <1> QED
    BY <1>3, <1>4, <1>5, <1>6, <1>7 DEF CaptureInv

LEMMA MarkFailedKeeps ==
  ASSUME CaptureInv, NEW r \in Request, MarkFailed(r)
  PROVE  CaptureInv'
  <1> USE DEF MarkFailed, StageOf, row, queue, Promise
  <1>1. request \in [Request -> Slot] BY SlotsTyped DEF CaptureInv
  <1>2. Placed(r, "idle", "web", Unsaved, 0, {}) \/ Placed(r, "stragglers", request[r].kind, request[r].body, request[r].snapshot, request[r].todo)
    BY <1>1, ProceedPlaces, RestPlaces DEF AllPhases, WebPhase, CorePhase
  <1>3. CaptureTypeOK'
    BY <1>1, <1>2, TypeFromSlots DEF CaptureInv, CaptureTypeOK, Placed
  <1>4. Keys'
    BY <1>1, <1>2 DEF CaptureInv, Keys, Placed
  <1>5. Attended'
    BY <1>1, <1>2 DEF CaptureInv, Attended, Keys, Settling, Placed
  <1>6. Once'
    BY <1>1, <1>2 DEF CaptureInv, CaptureTypeOK, Once, Keys, Alone, Closing, Undecided, Placed
  <1>7. Indexing'
    BY <1>1, <1>2 DEF CaptureInv, Indexing, Keys, Once, Alone, WholeNow, Lagging, Placed
  <1> QED
    BY <1>3, <1>4, <1>5, <1>6, <1>7 DEF CaptureInv

LEMMA StraggledKeeps ==
  ASSUME CaptureInv, NEW r \in Request, Straggled(r)
  PROVE  CaptureInv'
  <1> USE DEF Straggled, StageOf, row, index, queue, ghosts
  <1>1. request \in [Request -> Slot] BY SlotsTyped DEF CaptureInv
  <1>2. Placed(r, "idle", "web", Unsaved, 0, {})
    BY <1>1, RestPlaces
  <1>3. CaptureTypeOK'
    BY <1>1, <1>2, TypeFromSlots DEF CaptureInv, CaptureTypeOK, Placed
  <1>4. Keys'
    BY <1>1, <1>2 DEF CaptureInv, Keys, Placed
  <1>5. Attended'
    BY <1>1, <1>2 DEF CaptureInv, Attended, Keys, Settling, Placed
  <1>6. Once'
    BY <1>1, <1>2 DEF CaptureInv, CaptureTypeOK, Once, Keys, Alone, Closing, Undecided, Placed
  <1>7. Indexing'
    BY <1>1, <1>2 DEF CaptureInv, Indexing, Keys, Once, Alone, WholeNow, Lagging, Placed
  <1> QED
    BY <1>3, <1>4, <1>5, <1>6, <1>7 DEF CaptureInv

LEMMA AddAssumptionKeeps ==
  ASSUME CaptureInv, NEW r \in Request, AddAssumption(r)
  PROVE  CaptureInv'
  <1> USE DEF AddAssumption, StageOf, Arrive, index, queue
  <1>1. request \in [Request -> Slot] BY SlotsTyped DEF CaptureInv
  <1>2. Placed(r, "read", "add", Unsaved, 0, {})
    BY <1>1, StartCorePlaces DEF AllPhases, CorePhase, AllKinds
  <1>3. ~disturbed' => ~disturbed /\ \A q \in Request : request[q].phase = "idle"
    BY ArriveAlone DEF CaptureInv
  <1>4. CaptureTypeOK'
    BY <1>1, <1>2, TypeFromSlots, CaptureAssumption DEF CaptureInv, CaptureTypeOK, Unit, Placed
  <1>5. Keys'
    BY <1>1, <1>2 DEF CaptureInv, Keys, Placed
  <1>6. Attended'
    BY <1>1, <1>2 DEF CaptureInv, Attended, Keys, Settling, Placed
  <1>7. Once'
    BY <1>3, <1>1, <1>2 DEF CaptureInv, CaptureTypeOK, Once, Keys, Alone, Closing, Undecided, Placed
  <1>8. Indexing'
    BY <1>3, <1>1, <1>2 DEF CaptureInv, CaptureTypeOK, Indexing, Keys, Once, Alone, WholeNow, Lagging, Placed
  <1> QED
    BY <1>4, <1>5, <1>6, <1>7, <1>8 DEF CaptureInv

LEMMA ApproveKeeps ==
  ASSUME CaptureInv, NEW r \in Request, Approve(r)
  PROVE  CaptureInv'
  <1> USE DEF Approve, StageOf, Arrive, row, index, queue, Undecided
  <1>1. request \in [Request -> Slot] BY SlotsTyped DEF CaptureInv
  <1>2. Placed(r, "adding", "approve", Unsaved, 0, {})
    BY <1>1, StartCorePlaces DEF AllPhases, CorePhase, AllKinds
  <1>3. ~disturbed' => ~disturbed /\ \A q \in Request : request[q].phase = "idle"
    BY ArriveAlone DEF CaptureInv
  <1>4. CaptureTypeOK'
    BY <1>1, <1>2, TypeFromSlots DEF CaptureInv, CaptureTypeOK, Placed
  <1>5. Keys'
    BY <1>1, <1>2 DEF CaptureInv, Keys, Placed
  <1>6. Attended'
    BY <1>1, <1>2 DEF CaptureInv, Attended, Keys, Settling, Placed
  <1>7. Once'
    BY <1>3, <1>1, <1>2 DEF CaptureInv, CaptureTypeOK, Once, Keys, Alone, Closing, Undecided, Placed
  <1>8. Indexing'
    BY <1>3, <1>1, <1>2 DEF CaptureInv, CaptureTypeOK, Indexing, Keys, Once, Alone, WholeNow, Lagging, Placed
  <1> QED
    BY <1>4, <1>5, <1>6, <1>7, <1>8 DEF CaptureInv

LEMMA AddApprovedKeeps ==
  ASSUME CaptureInv, NEW r \in Request, AddApproved(r)
  PROVE  CaptureInv'
  <1> USE DEF AddApproved, StageOf, index, queue, Undecided
  <1>1. request \in [Request -> Slot] BY SlotsTyped DEF CaptureInv
  <1>2. Placed(r, "read", request[r].kind, request[r].body, request[r].snapshot, request[r].todo)
    BY <1>1, ProceedPlaces DEF AllPhases, WebPhase, CorePhase
  <1>3. CaptureTypeOK'
    BY <1>1, <1>2, TypeFromSlots, CaptureAssumption DEF CaptureInv, CaptureTypeOK, Unit, Placed
  <1>4. Keys'
    BY <1>1, <1>2 DEF CaptureInv, Keys, Placed
  <1>5. Attended'
    BY <1>1, <1>2 DEF CaptureInv, Attended, Keys, Settling, Placed
  <1>6. Once'
    BY <1>1, <1>2 DEF CaptureInv, CaptureTypeOK, Once, Keys, Alone, Closing, Undecided, Placed
  <1>7. Indexing'
    BY <1>1, <1>2 DEF CaptureInv, Indexing, Keys, Once, Alone, WholeNow, Lagging, Placed
  <1> QED
    BY <1>3, <1>4, <1>5, <1>6, <1>7 DEF CaptureInv

LEMMA StartJobKeeps ==
  ASSUME CaptureInv, NEW r \in Request, StartJob(r)
  PROVE  CaptureInv'
  <1> USE DEF StartJob, StageOf, Arrive, row, index
  <1>1. request \in [Request -> Slot] BY SlotsTyped DEF CaptureInv
  <1>2. Placed(r, "read", "job", Unsaved, 0, {})
    BY <1>1, StartCorePlaces DEF AllPhases, CorePhase, AllKinds
  <1>3. ~disturbed' => ~disturbed /\ \A q \in Request : request[q].phase = "idle"
    BY ArriveAlone DEF CaptureInv
  <1>4. CaptureTypeOK'
    BY <1>1, <1>2, TypeFromSlots DEF CaptureInv, CaptureTypeOK, Placed
  <1>5. Keys'
    BY <1>1, <1>2 DEF CaptureInv, Keys, Placed
  <1>6. Attended'
    BY <1>1, <1>2 DEF CaptureInv, Attended, Keys, Settling, Placed
  <1>7. Once'
    BY <1>3, <1>1, <1>2 DEF CaptureInv, CaptureTypeOK, Once, Keys, Alone, Closing, Undecided, Placed
  <1>8. Indexing'
    BY <1>3, <1>1, <1>2 DEF CaptureInv, CaptureTypeOK, Indexing, Keys, Once, Alone, WholeNow, Lagging, Placed
  <1> QED
    BY <1>4, <1>5, <1>6, <1>7, <1>8 DEF CaptureInv

LEMMA ReadDecisionKeeps ==
  ASSUME CaptureInv, NEW r \in Request, ReadDecision(r)
  PROVE  CaptureInv'
  <1> USE DEF ReadDecision, StageOf, row, index, queue, ghosts
  <1>1. request \in [Request -> Slot] BY SlotsTyped DEF CaptureInv
  <1>2. Placed(r, "replace", request[r].kind, request[r].body, units, request[r].todo)
    BY <1>1, ChangePlaces DEF AllPhases, WebPhase, CorePhase, Slot, CaptureInv, CaptureTypeOK
  <1>3. CaptureTypeOK'
    BY <1>1, <1>2, TypeFromSlots DEF CaptureInv, CaptureTypeOK, Placed
  <1>4. Keys'
    BY <1>1, <1>2 DEF CaptureInv, Keys, Placed
  <1>5. Attended'
    BY <1>1, <1>2 DEF CaptureInv, Attended, Keys, Settling, Placed
  <1>6. Once'
    BY <1>1, <1>2 DEF CaptureInv, CaptureTypeOK, Once, Keys, Alone, Closing, Undecided, Placed
  <1>7. Indexing'
    BY <1>1, <1>2 DEF CaptureInv, Indexing, Keys, Once, Alone, WholeNow, Lagging, Placed
  <1> QED
    BY <1>3, <1>4, <1>5, <1>6, <1>7 DEF CaptureInv

LEMMA ReplaceMemoryKeeps ==
  ASSUME CaptureInv, NEW r \in Request, ReplaceMemory(r)
  PROVE  CaptureInv'
  <1> USE DEF ReplaceMemory, StageOf, row, queue, ghosts
  <1>1. request \in [Request -> Slot] BY SlotsTyped DEF CaptureInv
  <1>2. Placed(r, "markCore", request[r].kind, request[r].body, 0, request[r].todo)
    BY <1>1, ChangePlaces, UnitFacts DEF AllPhases, WebPhase, CorePhase, Slot, CaptureInv, CaptureTypeOK
  <1>3. CaptureTypeOK'
    BY <1>1, <1>2, TypeFromSlots DEF CaptureInv, CaptureTypeOK, Placed
  <1>4. Keys'
    BY <1>1, <1>2 DEF CaptureInv, Keys, Placed
  <1>5. Attended'
    BY <1>1, <1>2 DEF CaptureInv, Attended, Keys, Settling, Placed
  <1>6. Once'
    BY <1>1, <1>2 DEF CaptureInv, CaptureTypeOK, Once, Keys, Alone, Closing, Undecided, Placed
  <1>7. Indexing'
    BY <1>1, <1>2 DEF CaptureInv, Indexing, Keys, Once, Alone, WholeNow, Lagging, Placed
  <1> QED
    BY <1>3, <1>4, <1>5, <1>6, <1>7 DEF CaptureInv

LEMMA MarkCoreKeeps ==
  ASSUME CaptureInv, NEW r \in Request, MarkCore(r)
  PROVE  CaptureInv'
  <1> USE DEF MarkCore, StageOf, row, queue, AfterIndexing
  <1>1. request \in [Request -> Slot] BY SlotsTyped DEF CaptureInv
  <1>2. \/ /\ request[r].kind = "approve"
           /\ Placed(r, "resolve", request[r].kind, request[r].body, request[r].snapshot, request[r].todo)
        \/ request[r].kind # "approve" /\ Placed(r, "idle", "web", Unsaved, 0, {})
    BY <1>1, ProceedPlaces, RestPlaces DEF AllPhases, WebPhase, CorePhase
  <1>3. CaptureTypeOK'
    BY <1>1, <1>2, TypeFromSlots DEF CaptureInv, CaptureTypeOK, Placed
  <1>4. Keys'
    BY <1>1, <1>2 DEF CaptureInv, Keys, Placed
  <1>5. Attended'
    BY <1>1, <1>2 DEF CaptureInv, Attended, Keys, Settling, Placed
  <1>6. Once'
    BY <1>1, <1>2 DEF CaptureInv, CaptureTypeOK, Once, Keys, Alone, Closing, Undecided, Placed
  <1>7. Indexing'
    BY <1>1, <1>2 DEF CaptureInv, Indexing, Keys, Once, Alone, WholeNow, Lagging, Placed
  <1> QED
    BY <1>3, <1>4, <1>5, <1>6, <1>7 DEF CaptureInv

LEMMA CoreFailsKeeps ==
  ASSUME CaptureInv, NEW r \in Request, CoreFails(r)
  PROVE  CaptureInv'
  <1> USE DEF CoreFails, StageOf, row, queue, ghosts
  <1>1. request \in [Request -> Slot] BY SlotsTyped DEF CaptureInv
  <1>2. \/ /\ request[r].kind # "job" /\ indexStatus' = "FAILED" /\ UNCHANGED retryJob
           /\ Placed(r, "queue", request[r].kind, request[r].body, request[r].snapshot, request[r].todo)
        \/ /\ request[r].kind = "job" /\ retryJob' \in {"waiting", "dead"} /\ UNCHANGED indexStatus
           /\ Placed(r, "idle", "web", Unsaved, 0, {})
    BY <1>1, ProceedPlaces, RestPlaces DEF AllPhases, WebPhase, CorePhase
  <1>3. CaptureTypeOK'
    BY <1>1, <1>2, TypeFromSlots DEF CaptureInv, CaptureTypeOK, Placed
  <1>4. Keys'
    BY <1>1, <1>2 DEF CaptureInv, Keys, Placed
  <1>5. Attended'
    BY <1>1, <1>2 DEF CaptureInv, Attended, Keys, Settling, Placed
  <1>6. Once'
    BY <1>1, <1>2 DEF CaptureInv, CaptureTypeOK, Once, Keys, Alone, Closing, Undecided, Placed
  <1>7. Indexing'
    BY <1>1, <1>2 DEF CaptureInv, Indexing, Keys, Once, Alone, WholeNow, Lagging, Placed
  <1> QED
    BY <1>3, <1>4, <1>5, <1>6, <1>7 DEF CaptureInv

LEMMA QueueJobKeeps ==
  ASSUME CaptureInv, NEW r \in Request, QueueJob(r)
  PROVE  CaptureInv'
  <1> USE DEF QueueJob, StageOf, row, index, queue, ghosts, AfterIndexing, QueuedJob
  <1>1. request \in [Request -> Slot] BY SlotsTyped DEF CaptureInv
  <1>2. \/ /\ request[r].kind = "approve"
           /\ Placed(r, "resolve", request[r].kind, request[r].body, request[r].snapshot, request[r].todo)
        \/ request[r].kind # "approve" /\ Placed(r, "idle", "web", Unsaved, 0, {})
    BY <1>1, ProceedPlaces, RestPlaces DEF AllPhases, WebPhase, CorePhase
  <1>3. CaptureTypeOK'
    BY <1>1, <1>2, TypeFromSlots DEF CaptureInv, CaptureTypeOK, Placed
  <1>4. Keys'
    BY <1>1, <1>2 DEF CaptureInv, Keys, Placed
  <1>5. Attended'
    BY <1>1, <1>2 DEF CaptureInv, Attended, Keys, Settling, Placed
  <1>6. Once'
    BY <1>1, <1>2 DEF CaptureInv, CaptureTypeOK, Once, Keys, Alone, Closing, Undecided, Placed
  <1>7. Indexing'
    BY <1>1, <1>2 DEF CaptureInv, Indexing, Keys, Once, Alone, WholeNow, Lagging, Placed
  <1> QED
    BY <1>3, <1>4, <1>5, <1>6, <1>7 DEF CaptureInv

LEMMA ResolveAddKeeps ==
  ASSUME CaptureInv, NEW r \in Request, ResolveAdd(r)
  PROVE  CaptureInv'
  <1> USE DEF ResolveAdd, StageOf, row, index, ghosts, Undecided
  <1>1. request \in [Request -> Slot] BY SlotsTyped DEF CaptureInv
  <1>2. Placed(r, "idle", "web", Unsaved, 0, {})
    BY <1>1, RestPlaces
  <1>3. CaptureTypeOK'
    BY <1>1, <1>2, TypeFromSlots DEF CaptureInv, CaptureTypeOK, Placed
  <1>4. Keys'
    BY <1>1, <1>2 DEF CaptureInv, Keys, Placed
  <1>5. Attended'
    BY <1>1, <1>2 DEF CaptureInv, Attended, Keys, Settling, Placed
  <1>6. Once'
    BY <1>1, <1>2 DEF CaptureInv, CaptureTypeOK, Once, Keys, Alone, Closing, Undecided, Placed
  <1>7. Indexing'
    BY <1>1, <1>2 DEF CaptureInv, Indexing, Keys, Once, Alone, WholeNow, Lagging, Placed
  <1> QED
    BY <1>3, <1>4, <1>5, <1>6, <1>7 DEF CaptureInv

LEMMA RejectAddKeeps ==
  ASSUME CaptureInv, NEW r \in Request, RejectAdd(r)
  PROVE  CaptureInv'
  <1> USE DEF RejectAdd, StageOf, Arrive, row, index, Undecided
  <1>1. request \in [Request -> Slot] BY SlotsTyped DEF CaptureInv
  <1>2. request' = request
    BY <1>1, <1>1
  <1>3. ~disturbed' => ~disturbed /\ \A q \in Request : request[q].phase = "idle"
    BY ArriveAlone DEF CaptureInv
  <1>4. CaptureTypeOK'
    BY <1>1, <1>2, TypeFromSlots DEF CaptureInv, CaptureTypeOK, Placed
  <1>5. Keys'
    BY <1>1, <1>2 DEF CaptureInv, Keys, Placed
  <1>6. Attended'
    BY <1>1, <1>2 DEF CaptureInv, Attended, Keys, Settling, Placed
  <1>7. Once'
    BY <1>3, <1>1, <1>2 DEF CaptureInv, CaptureTypeOK, Once, Keys, Alone, Closing, Undecided, Placed
  <1>8. Indexing'
    BY <1>3, <1>1, <1>2 DEF CaptureInv, CaptureTypeOK, Indexing, Keys, Once, Alone, WholeNow, Lagging, Placed
  <1> QED
    BY <1>4, <1>5, <1>6, <1>7, <1>8 DEF CaptureInv

LEMMA DieKeeps ==
  ASSUME CaptureInv, NEW r \in Request, Die(r)
  PROVE  CaptureInv'
  <1> USE DEF Die, StageOf, row, index
  <1>1. request \in [Request -> Slot] BY SlotsTyped DEF CaptureInv
  <1>2. Placed(r, "idle", "web", Unsaved, 0, {})
    BY <1>1, RestPlaces
  <1>3. CaptureTypeOK'
    BY <1>1, <1>2, TypeFromSlots DEF CaptureInv, CaptureTypeOK, Placed
  <1>4. Keys'
    BY <1>1, <1>2 DEF CaptureInv, Keys, Placed
  <1>5. Attended'
    BY <1>1, <1>2 DEF CaptureInv, Attended, Keys, Settling, Placed
  <1>6. ~disturbed' => ~disturbed /\ (request[r].kind \in {"add", "approve"} => request[r].phase = "adding")
    BY DEF CaptureInv, CaptureTypeOK
  <1>7. Once'
    BY <1>6, <1>1, <1>2 DEF CaptureInv, CaptureTypeOK, Once, Keys, Alone, Closing, Undecided, Placed
  <1>8. Indexing'
    BY <1>6, <1>1, <1>2 DEF CaptureInv, Indexing, Keys, Once, Alone, WholeNow, Lagging, Placed
  <1> QED
    BY <1>3, <1>4, <1>5, <1>7, <1>8 DEF CaptureInv

LEMMA StutterKeeps == ASSUME CaptureInv, UNCHANGED captureVars PROVE CaptureInv'
  BY DEF CaptureInv, CaptureTypeOK, Keys, Attended, Once, Alone, Closing, Undecided, Indexing,
         WholeNow, Lagging, Settling, captureVars

------------------------------------------------------------------------------
\* The inductive invariant.  None of the four properties is inductive: each speaks of
\* the moments when nobody is at work or of what callers were told, and has to be
\* carried through the phases of the requests in between.
THEOREM CaptureInvariant == CaptureSpec => []CaptureInv
  <1>1. CaptureInit => CaptureInv
    BY CaptureStart
  <1>2. CaptureInv /\ [CaptureNext]_captureVars => CaptureInv'
    <2> SUFFICES ASSUME CaptureInv, [CaptureNext]_captureVars PROVE CaptureInv'
      OBVIOUS
    <2>1. CASE UNCHANGED captureVars
      BY <2>1, StutterKeeps
    <2>2. ASSUME NEW r \in Request, RequestStep(r) PROVE CaptureInv'
      BY <2>2, PostKeeps, CreateKeeps, RetryIndexKeeps, MarkPendingKeeps, DeleteChunksKeeps,
         InsertChunkKeeps, InsertFailsKeeps, InsertedKeeps, MarkIndexedKeeps, MarkFailedKeeps,
         StraggledKeeps, AddAssumptionKeeps, ApproveKeeps, AddApprovedKeeps, StartJobKeeps,
         ReadDecisionKeeps, ReplaceMemoryKeeps, MarkCoreKeeps, CoreFailsKeeps, QueueJobKeeps,
         ResolveAddKeeps, RejectAddKeeps, DieKeeps
         DEF RequestStep
    <2> QED
      BY <2>1, <2>2 DEF CaptureNext
  <1> QED
    BY <1>1, <1>2, PTL DEF CaptureSpec

\* Whoever was told that the decision behind an Idempotency-Key is saved sent that very
\* decision (POST /api/decisions), for any number of racing requests and bodies.
THEOREM OneDecisionPerKey == CaptureSpec => []KeyNamesOneDecision
  <1>1. CaptureInv => KeyNamesOneDecision
    BY DEF CaptureInv, Keys, KeyNamesOneDecision
  <1> QED
    BY <1>1, CaptureInvariant, PTL

\* A decision that is not searchable has a job, or somebody was told
\* (indexOrQueue, updateDecisionMemory).
THEOREM UnindexedKnown == CaptureSpec => []UnindexedIsKnown
  <1>1. CaptureInv => UnindexedIsKnown
    BY DEF CaptureInv, Attended, Settling, UnindexedIsKnown, NobodyAtWork, StageOf
  <1> QED
    BY <1>1, CaptureInvariant, PTL

\* An approved assumption is added once (ApprovalService.resolve), under the property's
\* proviso.
THEOREM AddedOnce == CaptureSpec => []ApprovedAddsOnce
  <1>1. CaptureInv => ApprovedAddsOnce
    BY DEF CaptureInv, Once, ApprovedAddsOnce
  <1> QED
    BY <1>1, CaptureInvariant, PTL

LEMMA OneChunkEach ==
  ASSUME NEW n \in Nat, NEW q
  PROVE  /\ {c[1] : c \in (0..n) \X {q}} = 0..n
         /\ Cardinality((0..n) \X {q}) = n + 1
  <1>1. {c[1] : c \in (0..n) \X {q}} = 0..n
    <2>1. ASSUME NEW u \in 0..n PROVE u \in {c[1] : c \in (0..n) \X {q}}
      <3>1. <<u, q>> \in (0..n) \X {q} /\ <<u, q>>[1] = u
        BY <2>1
      <3> QED
        BY <3>1
    <2> QED
      BY <2>1
  <1>2. IsFiniteSet(0..n) /\ Cardinality(0..n) = n + 1
    BY FS_Interval
  <1>3. IsFiniteSet({q}) /\ Cardinality({q}) = 1
    BY FS_Singleton
  <1>4. Cardinality((0..n) \X {q}) = Cardinality(0..n) * Cardinality({q})
    BY <1>2, <1>3, FS_Product
  <1> QED
    BY <1>1, <1>2, <1>3, <1>4

\* What is marked INDEXED has one chunk for every unit (updateDecisionMemory,
\* replaceDecisionMemory), under the property's proviso.
THEOREM IndexedWhole == CaptureSpec => []IndexedMeansWhole
  <1>1. CaptureInv => IndexedMeansWhole
    <2> SUFFICES ASSUME CaptureInv, NobodyAtWork, ~disturbed, indexStatus = "INDEXED"
                 PROVE  {c[1] : c \in chunk} = 0..units /\ Cardinality(chunk) = units + 1
      BY DEF IndexedMeansWhole
    <2>1. ~Lagging
      BY DEF Lagging, NobodyAtWork, StageOf
    <2>2. PICK q \in Request : chunk = (0..units) \X {q}
      BY <2>1 DEF CaptureInv, Indexing, WholeNow
    <2>3. units \in Nat
      BY DEF CaptureInv, CaptureTypeOK, Unit
    <2> QED
      BY <2>2, <2>3, OneChunkEach
  <1> QED
    BY <1>1, CaptureInvariant, PTL
================================================================================
