--------------------------- MODULE DocumentIntake ----------------------------
(***************************************************************************)
(* How an uploaded document becomes searchable and becomes evidence        *)
(* (lib/engine/documentIngestion.ts, app/api/documents).  The request that *)
(* confirms an upload does all of it: it extracts the text, looks for a    *)
(* document with the same content, writes the chunks, marks the document   *)
(* PROCESSED and only then stores and evaluates the evidence.  Nothing     *)
(* keeps an upload from being confirmed twice, and any request may fail or *)
(* die at every step.  What becomes of evidence once it is stored is       *)
(* EventPipeline's.                                                        *)
(***************************************************************************)
EXTENDS Integers, FiniteSets

CONSTANTS
  Document,
  ContentOf,  \* what each document says; its hash
  Confirm     \* the requests that confirm uploads

VARIABLES
  docStatus,
  hashed,     \* documents whose content_hash is stored
  searchable, \* documents all of whose chunks are in memory_chunks
  evidence,   \* contents that are in the event inbox
  confirm     \* where each request is

\* Ghosts.
VARIABLES
  leaned,     \* a document was taken for a copy of one still being worked on
  cutOff      \* a request died

intakeVars == <<docStatus, hashed, searchable, evidence, confirm, leaned, cutOff>>

NoDocument == "no document"

ConfirmPhase == {"idle", "start", "extract", "lookup", "copy", "index", "mark", "ingest", "evaluate", "failing"}

IntakeTypeOK ==
  /\ docStatus \in [Document -> {"ABSENT", "UPLOADED", "PROCESSING", "PROCESSED", "FAILED"}]
  /\ hashed \subseteq Document
  /\ searchable \subseteq Document
  /\ evidence \subseteq {ContentOf[d] : d \in Document}
  /\ confirm \in [Confirm -> [phase : ConfirmPhase, doc : Document \cup {NoDocument}]]
  /\ leaned \in BOOLEAN /\ cutOff \in BOOLEAN

IntakeInit ==
  /\ docStatus = [d \in Document |-> "ABSENT"]
  /\ hashed = {} /\ searchable = {} /\ evidence = {}
  /\ confirm = [r \in Confirm |-> [phase |-> "idle", doc |-> NoDocument]]
  /\ leaned = FALSE /\ cutOff = FALSE

------------------------------------------------------------------------------
Doc(r)     == confirm[r].doc
In(r, p)   == confirm[r].phase = p
Then(r, p) == confirm' = [confirm EXCEPT ![r].phase = p]
Done(r)    == confirm' = [confirm EXCEPT ![r] = [phase |-> "idle", doc |-> NoDocument]]
Status(r, s) == docStatus' = [docStatus EXCEPT ![Doc(r)] = s]

intakeGhosts == <<leaned, cutOff>>

\* POST /api/documents/upload-url.
Upload(d) ==
  /\ docStatus[d] = "ABSENT"
  /\ docStatus' = [docStatus EXCEPT ![d] = "UPLOADED"]
  /\ UNCHANGED <<hashed, searchable, evidence, confirm, intakeGhosts>>

\* Whatever the document's status.
StartConfirm(r, d) ==
  /\ In(r, "idle") /\ docStatus[d] # "ABSENT"
  /\ confirm' = [confirm EXCEPT ![r] = [phase |-> "start", doc |-> d]]
  /\ UNCHANGED <<docStatus, hashed, searchable, evidence, intakeGhosts>>

StartProcessing(r) ==
  /\ In(r, "start")
  /\ Status(r, "PROCESSING")
  /\ Then(r, "extract")
  /\ UNCHANGED <<hashed, searchable, evidence, intakeGhosts>>

\* The object is fetched and its text extracted, or there is none.
Extract(r) ==
  /\ In(r, "extract")
  /\ \E p \in {"lookup", "failing"} : Then(r, p)
  /\ UNCHANGED <<docStatus, hashed, searchable, evidence, intakeGhosts>>

SameContent(d) == {e \in hashed \ {d} : ContentOf[e] = ContentOf[d]}

\* Mutant: any document with the same hash will do.
HashedCopies(d) == SameContent(d)

\* findProcessedDocumentByHash.
ProcessedCopies(d) == {e \in SameContent(d) : docStatus[e] = "PROCESSED"}

WorkedOn(d) == \E r \in Confirm : Doc(r) = d

Lookup(r) ==
  /\ In(r, "lookup")
  /\ IF ProcessedCopies(Doc(r)) # {} THEN Then(r, "copy") ELSE Then(r, "index")
  /\ leaned' = (leaned \/ \E e \in ProcessedCopies(Doc(r)) : WorkedOn(e))
  /\ UNCHANGED <<docStatus, hashed, searchable, evidence, cutOff>>

MarkCopy(r) ==
  /\ In(r, "copy")
  /\ Status(r, "PROCESSED")
  /\ hashed' = hashed \cup {Doc(r)}
  /\ Done(r)
  /\ UNCHANGED <<searchable, evidence, intakeGhosts>>

\* Mutant: the insertions settle, whether all succeed or not.
AllSettled == {{}, Document}

\* The insertions are awaited together, and the first failure is everyone's.
AllInserted == {Document}

\* The chunks are embedded and inserted.
Index(r) ==
  /\ In(r, "index")
  /\ \E complete \in AllInserted : searchable' = searchable \cup (complete \cap {Doc(r)})
  /\ Then(r, "mark")
  /\ UNCHANGED <<docStatus, hashed, evidence, intakeGhosts>>

MarkProcessed(r) ==
  /\ In(r, "mark")
  /\ Status(r, "PROCESSED")
  /\ hashed' = hashed \cup {Doc(r)}
  /\ Then(r, "ingest")
  /\ UNCHANGED <<searchable, evidence, intakeGhosts>>

\* The evidence is keyed by the content's hash.
IngestEvidence(r) ==
  /\ In(r, "ingest")
  /\ evidence' = evidence \cup {ContentOf[Doc(r)]}
  /\ Then(r, "evaluate")
  /\ UNCHANGED <<docStatus, hashed, searchable, intakeGhosts>>

Evaluated(r) ==
  /\ In(r, "evaluate")
  /\ Done(r)
  /\ UNCHANGED <<docStatus, hashed, searchable, evidence, intakeGhosts>>

MayFail == {"extract", "lookup", "copy", "index", "mark", "ingest", "evaluate"}

IntakeFails(r) ==
  /\ confirm[r].phase \in MayFail
  /\ Then(r, "failing")
  /\ UNCHANGED <<docStatus, hashed, searchable, evidence, intakeGhosts>>

RecordFailure(r) ==
  /\ In(r, "failing")
  /\ Status(r, "FAILED")
  /\ Done(r)
  /\ UNCHANGED <<hashed, searchable, evidence, intakeGhosts>>

CutOff(r) ==
  /\ ~In(r, "idle")
  /\ Done(r)
  /\ cutOff' = TRUE
  /\ UNCHANGED <<docStatus, hashed, searchable, evidence, leaned>>

IntakeNext ==
  \/ \E d \in Document : Upload(d)
  \/ \E r \in Confirm :
       \/ \E d \in Document : StartConfirm(r, d)
       \/ StartProcessing(r) \/ Extract(r) \/ Lookup(r) \/ MarkCopy(r) \/ Index(r)
       \/ MarkProcessed(r) \/ IngestEvidence(r) \/ Evaluated(r)
       \/ IntakeFails(r) \/ RecordFailure(r) \/ CutOff(r)

IntakeSpec == IntakeInit /\ [][IntakeNext]_intakeVars

------------------------------------------------------------------------------
(* What must hold.                                                         *)

\* A document that is PROCESSED can be found: it, or one that says the same, has all
\* its chunks, whichever requests overlapped, failed or died.
ProcessedIsSearchable ==
  \A d \in Document : docStatus[d] = "PROCESSED" =>
    \E e \in searchable : ContentOf[e] = ContentOf[d]

\* And what it says is in the inbox once nobody works on it, also when it was taken for
\* a copy and the original's evaluation failed; unless a request died, or the original
\* was still being worked on when it was taken for one.
ProcessedIsEvidence ==
  ~cutOff /\ ~leaned =>
    \A d \in Document : docStatus[d] = "PROCESSED" /\ ~WorkedOn(d) => ContentOf[d] \in evidence
=============================================================================
