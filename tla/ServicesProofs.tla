---------------------------- MODULE ServicesProofs ----------------------------
(***************************************************************************)
(* That the ledgers of the migrations tell the truth (MigrationRunner), a  *)
(* processed document is searchable and is evidence (DocumentIntake) and a *)
(* session's workspace has one owner (Accounts), for every size; and that  *)
(* the components of MCServices are type-correct side by side.             *)
(***************************************************************************)
EXTENDS MCServices, AnswerProofs, DecisionCaptureProofs, SequentialEvaluationProofs

(* The migration runner.                                                   *)

\* What a runner's place says of the ledgers: earlier files are settled, and so
\* are the earlier statements of the file it is in.
PlaceIsEarned ==
  \A r \in Migrator :
    /\ runner[r].phase # "idle" => \A f \in File : f < runner[r].file => Settled(f)
    /\ runner[r].phase \in Trying =>
         \A k \in 1..(runner[r].step - 1) : <<runner[r].file, k>> \in stepLedger
    /\ runner[r].phase \in {"probe", "execute", "record"} => At(r) \in Statement
    /\ runner[r].phase \in Trying \cup {"warn"} => runner[r].file \in File
    /\ runner[r].phase = "warn" => runner[r].file \in OptionalFile

\* A statement is run only after the one before it is in the ledger.
OneByOne == \A s \in effect : s[2] > 1 => <<s[1], s[2] - 1>> \in stepLedger

WarnedIsOptional == \A f \in File : fileLedger[f] = "warned" => f \in OptionalFile

AppliedIsLedgered == \A f \in File : fileLedger[f] = "applied" => StatementsOf(f) \subseteq stepLedger

LedgerIsTrue ==
  ~dropRaced =>
    /\ stepLedger \subseteq effect
    /\ \A r \in Migrator : runner[r].phase = "record" => At(r) \in effect

MigrationInv ==
  /\ MigrationTypeOK
  /\ PlaceIsEarned
  /\ OneByOne
  /\ WarnedIsOptional
  /\ AppliedIsLedgered
  /\ LedgerIsTrue
  /\ FilesInOrder
------------------------------------------------------------------------------
LEMMA FileIsSequence == \A f \in File : Len(StatementKind[f]) \in Nat
  BY MigrationAssumption DEF File

\* A statement is a file and a place in it.
LEMMA StatementIsPlace ==
  \A s : s \in Statement <=> \E f \in File : \E k \in 1..Len(StatementKind[f]) : s = <<f, k>>
  <1> SUFFICES ASSUME NEW s
               PROVE  s \in Statement <=> \E f \in File : s \in {f} \X (1..Len(StatementKind[f]))
    OBVIOUS
  <1> QED BY Zenon DEF Statement

LEMMA MigrationStart == MigrationInit => MigrationInv
  <1> SUFFICES ASSUME MigrationInit PROVE MigrationInv
    OBVIOUS
  <1>1. Idle \in [phase : Phase, file : Nat \ {0}, step : Nat \ {0}]
    BY DEF Idle, Phase
  <1>2. MigrationTypeOK
    BY <1>1 DEF MigrationInit, MigrationTypeOK
  <1> QED
    BY <1>2 DEF MigrationInit, MigrationInv, PlaceIsEarned, OneByOne, WarnedIsOptional,
                AppliedIsLedgered, LedgerIsTrue, FilesInOrder, Idle, Trying

\* What the invariant asks of a runner's place, of one it may move to.
Earned(p, f, k) ==
  /\ p \in Phase /\ f \in Nat \ {0} /\ k \in Nat \ {0}
  /\ p # "idle" => \A g \in File : g < f => Settled(g)
  /\ p \in Trying => \A j \in 1..(k - 1) : <<f, j>> \in stepLedger
  /\ p \in {"probe", "execute", "record"} => <<f, k>> \in Statement
  /\ p \in Trying \cup {"warn"} => f \in File
  /\ p = "warn" => f \in OptionalFile
  /\ p = "record" => dropRaced \/ <<f, k>> \in effect

LEMMA PlaceEarned ==
  ASSUME MigrationInv, NEW r \in Migrator
  PROVE  Earned(runner[r].phase, runner[r].file, runner[r].step)
  BY DEF MigrationInv, MigrationTypeOK, PlaceIsEarned, LedgerIsTrue, At, Earned

\* Steps that only move a runner.
LEMMA RunnerKeepsInv ==
  ASSUME MigrationInv, UNCHANGED <<schema, ledgers>>, NEW r \in Migrator,
         NEW p, NEW f, NEW k, Earned(p, f, k), MoveTo(r, p, f, k)
  PROVE  MigrationInv'
  <1> USE DEF schema, ledgers, MoveTo
  <1>1. MigrationTypeOK'
    BY DEF MigrationInv, MigrationTypeOK, Earned
  <1>2. \A q \in Migrator : runner'[q] = IF q = r THEN [phase |-> p, file |-> f, step |-> k] ELSE runner[q]
    BY DEF MigrationInv, MigrationTypeOK
  <1>3. PlaceIsEarned'
    BY <1>2 DEF MigrationInv, PlaceIsEarned, At, Settled, Earned
  <1>4. LedgerIsTrue'
    BY <1>2 DEF MigrationInv, LedgerIsTrue, At, Earned
  <1> QED
    BY <1>1, <1>3, <1>4 DEF MigrationInv, OneByOne, WarnedIsOptional, AppliedIsLedgered,
       FilesInOrder, Settled

------------------------------------------------------------------------------
LEMMA RunnersKeepInv ==
  ASSUME MigrationInv, NEW r \in Migrator,
         StartRunner(r) \/ ReadFile(r) \/ ReadStep(r) \/ Probe(r) \/ FailFile(r) \/ EndRunner(r)
  PROVE  MigrationInv'
  <1> DEFINE f == runner[r].file
             k == runner[r].step
  <1>0. Earned(runner[r].phase, f, k)
    BY PlaceEarned
  <1>1. CASE StartRunner(r)
    <2>1. Earned("file", 1, 1)
      BY DEF Earned, File, Phase, Trying
    <2> QED
      BY <1>1, <2>1, RunnerKeepsInv DEF StartRunner
  <1>2. CASE ReadFile(r)
    <2>1. CASE fileLedger[f] = "absent"
      <3>1. Earned("step", f, 1)
        BY <1>0, <1>2 DEF ReadFile, InFile, Earned, Phase, Trying
      <3> QED
        BY <1>2, <2>1, <3>1, RunnerKeepsInv DEF ReadFile
    <2>2. CASE fileLedger[f] # "absent"
      <3>1. Settled(f)
        BY <1>2, <2>2 DEF ReadFile, InFile, Settled, MigrationInv, MigrationTypeOK, WarnedIsOptional
      <3>2. Earned("file", f + 1, 1)
        BY <1>0, <1>2, <3>1 DEF ReadFile, Earned, Phase, Trying, File
      <3> QED
        BY <1>2, <2>2, <3>2, RunnerKeepsInv DEF ReadFile, NextFile
    <2> QED
      BY <2>1, <2>2
  <1>3. CASE ReadStep(r)
    <2>1. CASE At(r) \in stepLedger
      <3>1. Earned("step", f, k + 1)
        BY <1>0, <1>3, <2>1 DEF ReadStep, At, Earned, Phase, Trying
      <3> QED
        BY <1>3, <2>1, <3>1, RunnerKeepsInv DEF ReadStep, NextStep
    <2>2. CASE At(r) \notin stepLedger
      <3>1. <<f, k>> \in Statement
        BY <1>0, <1>3, StatementIsPlace, FileIsSequence DEF ReadStep, HasStep, InFile, Earned
      <3>2. Earned("probe", f, k)
        BY <1>0, <1>3, <3>1 DEF ReadStep, Earned, Phase, Trying
      <3> QED
        BY <1>3, <2>2, <3>2, RunnerKeepsInv DEF ReadStep, Goto
    <2> QED
      BY <2>1, <2>2
  <1>4. CASE Probe(r)
    <2>1. Earned("execute", f, k) /\ (RenameAlreadyApplied(At(r)) => Earned("record", f, k))
      BY <1>0, <1>4 DEF Probe, RenameAlreadyApplied, At, Earned, Phase, Trying
    <2> QED
      BY <1>4, <2>1, RunnerKeepsInv DEF Probe, Goto
  <1>5. Earned("idle", 1, 1)
    BY DEF Earned, Phase, Trying
  <1>6. CASE FailFile(r)
    <2>1. IsOptional(f) => Earned("warn", f, k)
      BY <1>0, <1>6 DEF FailFile, IsOptional, Earned, Phase, Trying
    <2> QED
      BY <1>5, <1>6, <2>1, RunnerKeepsInv DEF FailFile, Goto, Stop
  <1>7. CASE EndRunner(r)
    BY <1>5, <1>7, RunnerKeepsInv DEF EndRunner, Stop
  <1> QED
    BY <1>1, <1>2, <1>3, <1>4, <1>6, <1>7

------------------------------------------------------------------------------
\* Steps that write: the runner's new place is earned in the new state.
LEMMA PlacesAfterWrite ==
  ASSUME MigrationInv, NEW r \in Migrator, NEW p, NEW f, NEW k,
         MoveTo(r, p, f, k), Earned(p, f, k)',
         stepLedger \subseteq stepLedger',
         \A g \in File : Settled(g) => Settled(g)'
  PROVE  /\ PlaceIsEarned'
         /\ runner' \in [Migrator -> [phase : Phase, file : Nat \ {0}, step : Nat \ {0}]]
  <1> USE DEF MoveTo
  <1>1. \A q \in Migrator : runner'[q] = IF q = r THEN [phase |-> p, file |-> f, step |-> k] ELSE runner[q]
    BY DEF MigrationInv, MigrationTypeOK
  <1>2. runner' \in [Migrator -> [phase : Phase, file : Nat \ {0}, step : Nat \ {0}]]
    BY DEF MigrationInv, MigrationTypeOK, Earned
  <1>3. PlaceIsEarned'
    BY <1>1 DEF MigrationInv, PlaceIsEarned, At, Earned
  <1> QED
    BY <1>2, <1>3

LEMMA ExecuteKeepsInv ==
  ASSUME MigrationInv, NEW r \in Migrator, Execute(r)
  PROVE  MigrationInv'
  <1> PICK f, k : f = runner[r].file /\ k = runner[r].step
    OBVIOUS
  <1> DEFINE s == <<f, k>>
  <1> USE DEF ledgers
  <1>1. Earned("execute", f, k)
    BY PlaceEarned DEF Execute
  <1>2. /\ s \in Statement /\ f \in Nat \ {0} /\ k \in Nat \ {0}
        /\ effect' = (effect \ Dropped(s)) \cup {s}
        /\ dropRaced' = (dropRaced \/ (KindOf(s) = "drop" /\ s \in stepLedger))
        /\ MoveTo(r, "record", f, k)
        /\ UNCHANGED <<stepLedger, fileLedger>>
    BY <1>1 DEF Execute, Earned, At, Goto
  <1>3. Earned("record", f, k)'
    BY <1>1, <1>2 DEF Earned, Settled, Phase, Trying
  <1>4. PlaceIsEarned' /\ runner' \in [Migrator -> [phase : Phase, file : Nat \ {0}, step : Nat \ {0}]]
    BY <1>2, <1>3, PlacesAfterWrite DEF Settled
  <1>5. MigrationTypeOK'
    BY <1>2, <1>4 DEF MigrationInv, MigrationTypeOK
  <1>6. OneByOne'
    <2>1. k > 1 => <<f, k - 1>> \in stepLedger
      BY <1>1, <1>2 DEF Earned, Trying
    <2> QED
      BY <1>2, <2>1 DEF MigrationInv, OneByOne
  <1>7. LedgerIsTrue'
    <2> SUFFICES ASSUME ~dropRaced'
                 PROVE  /\ stepLedger \subseteq effect'
                        /\ \A q \in Migrator : runner'[q].phase = "record" => At(q)' \in effect'
      BY <1>2 DEF LedgerIsTrue
    <2>1. \A t \in effect : t \in effect'
      \* A dropped constraint was in the schema only if the drop was recorded.
      <3> SUFFICES ASSUME NEW t \in Dropped(s), t \in effect PROVE FALSE
        BY <1>2
      <3>1. KindOf(s) = "drop" /\ t = <<f, k + 1>>
        BY DEF Dropped
      <3>2. s \in stepLedger
        BY <1>2, <3>1 DEF MigrationInv, OneByOne
      <3> QED
        BY <1>2, <3>1, <3>2
    <2>2. \A q \in Migrator : q # r => runner'[q] = runner[q]
      BY <1>2 DEF MoveTo, MigrationInv, MigrationTypeOK
    <2>3. At(r)' = s
      BY <1>2 DEF MoveTo, At, MigrationInv, MigrationTypeOK
    <2> QED
      BY <1>2, <2>1, <2>2, <2>3 DEF MigrationInv, LedgerIsTrue, At
  <1>8. FilesInOrder'
    BY <1>1, <1>2 DEF MigrationInv, FilesInOrder, Settled, Earned
  <1> QED
    BY <1>2, <1>4, <1>5, <1>6, <1>7, <1>8 DEF MigrationInv, WarnedIsOptional, AppliedIsLedgered

LEMMA RecordStepKeepsInv ==
  ASSUME MigrationInv, NEW r \in Migrator, RecordStep(r)
  PROVE  MigrationInv'
  <1> PICK f, k : f = runner[r].file /\ k = runner[r].step
    OBVIOUS
  <1> DEFINE s == <<f, k>>
  <1> USE DEF schema
  <1>1. Earned("record", f, k)
    BY PlaceEarned DEF RecordStep
  <1>2. /\ s \in Statement /\ f \in Nat \ {0} /\ k \in Nat \ {0}
        /\ stepLedger' = stepLedger \cup {s}
        /\ MoveTo(r, "step", f, k + 1)
        /\ UNCHANGED <<effect, dropRaced, fileLedger>>
    BY <1>1 DEF RecordStep, Earned, At, NextStep
  <1>3. Earned("step", f, k + 1)'
    BY <1>1, <1>2 DEF Earned, Settled, Phase, Trying
  <1>4. PlaceIsEarned' /\ runner' \in [Migrator -> [phase : Phase, file : Nat \ {0}, step : Nat \ {0}]]
    BY <1>2, <1>3, PlacesAfterWrite DEF Settled
  <1>5. MigrationTypeOK'
    BY <1>2, <1>4 DEF MigrationInv, MigrationTypeOK
  <1>6. LedgerIsTrue'
    <2>1. \A q \in Migrator : runner'[q].phase = "record" => runner'[q] = runner[q]
      BY <1>2 DEF MoveTo, MigrationInv, MigrationTypeOK
    <2> QED
      BY <1>1, <1>2, <2>1 DEF MigrationInv, LedgerIsTrue, At, Earned
  <1>7. FilesInOrder'
    BY <1>1, <1>2 DEF MigrationInv, FilesInOrder, Settled, Earned
  <1> QED
    BY <1>2, <1>4, <1>5, <1>6, <1>7 DEF MigrationInv, OneByOne, WarnedIsOptional, AppliedIsLedgered

\* A runner that is past a file's last statement found or left them all in the ledger.
LEMMA FileIsLedgered ==
  ASSUME MigrationInv, NEW r \in Migrator, RecordFile(r)
  PROVE  StatementsOf(runner[r].file) \subseteq stepLedger
  <1> DEFINE f == runner[r].file
  <1>1. Earned("step", f, runner[r].step)
    BY PlaceEarned DEF RecordFile
  <1>2. \A k \in 1..Len(StatementKind[f]) : <<f, k>> \in stepLedger
    <2>1. runner[r].step \in Nat /\ f \in File /\ Len(StatementKind[f]) \in Nat
      BY <1>1, FileIsSequence DEF Earned, RecordFile, InFile
    <2>2. runner[r].step > Len(StatementKind[f])
      BY <2>1 DEF RecordFile, InFile, HasStep
    <2> QED
      BY <1>1, <2>1, <2>2 DEF Earned, Trying
  <1>3. \A s \in Statement : s[1] = f => \E k \in 1..Len(StatementKind[f]) : s = <<f, k>>
    BY StatementIsPlace
  <1> QED
    BY <1>2, <1>3 DEF StatementsOf

LEMMA RecordFileKeepsInv ==
  ASSUME MigrationInv, NEW r \in Migrator, RecordFile(r) \/ Warn(r)
  PROVE  MigrationInv'
  <1> PICK f, end : f = runner[r].file /\ end = IF runner[r].phase = "warn" THEN "warned" ELSE "applied"
    OBVIOUS
  <1> USE DEF schema
  <1>1. Earned(runner[r].phase, f, runner[r].step)
    BY PlaceEarned
  <1>2. /\ f \in File /\ f \in Nat \ {0}
        /\ fileLedger[f] = "absent"
        /\ fileLedger' = [fileLedger EXCEPT ![f] = end]
        /\ end = "warned" => f \in OptionalFile
        /\ MoveTo(r, "file", f + 1, 1)
        /\ UNCHANGED <<effect, dropRaced, stepLedger>>
    BY <1>1 DEF RecordFile, Warn, InFile, Earned, NextFile, Trying
  <1>3. \A g \in File : fileLedger'[g] = IF g = f THEN end ELSE fileLedger[g]
    BY <1>2 DEF MigrationInv, MigrationTypeOK
  <1>4. \A g \in File : (Settled(g) => Settled(g)') /\ (g = f => Settled(g)')
    BY <1>2, <1>3 DEF Settled
  <1>5. Earned("file", f + 1, 1)'
    <2>1. \A g \in File : g < f + 1 => Settled(g)'
      BY <1>1, <1>2, <1>4 DEF Earned, File, RecordFile, Warn, Trying
    <2> QED
      BY <1>2, <2>1 DEF Earned, Phase, Trying
  <1>6. PlaceIsEarned' /\ runner' \in [Migrator -> [phase : Phase, file : Nat \ {0}, step : Nat \ {0}]]
    BY <1>2, <1>4, <1>5, PlacesAfterWrite
  <1>7. MigrationTypeOK'
    BY <1>2, <1>6 DEF MigrationInv, MigrationTypeOK
  <1>8. WarnedIsOptional'
    BY <1>2, <1>3 DEF MigrationInv, WarnedIsOptional
  <1>9. AppliedIsLedgered'
    <2>1. end = "applied" => StatementsOf(f) \subseteq stepLedger
      BY FileIsLedgered DEF Warn
    <2> QED
      BY <1>2, <1>3, <2>1 DEF MigrationInv, AppliedIsLedgered, StatementsOf
  <1>10. LedgerIsTrue'
    <2>1. \A q \in Migrator : runner'[q].phase = "record" => runner'[q] = runner[q]
      BY <1>2 DEF MoveTo, MigrationInv, MigrationTypeOK
    <2> QED
      BY <1>2, <2>1 DEF MigrationInv, LedgerIsTrue, At
  <1>11. FilesInOrder'
    BY <1>2, <1>4 DEF MigrationInv, FilesInOrder
  <1> QED
    BY <1>2, <1>6, <1>7, <1>8, <1>9, <1>10, <1>11 DEF MigrationInv, OneByOne

LEMMA StutterKeepsMigrationInv ==
  ASSUME MigrationInv, UNCHANGED migrationVars
  PROVE  MigrationInv'
  BY DEF MigrationInv, MigrationTypeOK, PlaceIsEarned, OneByOne, WarnedIsOptional, AppliedIsLedgered,
         LedgerIsTrue, FilesInOrder, Settled, At, StatementsOf, migrationVars

------------------------------------------------------------------------------
\* The inductive invariant.  RecordedMeansApplied alone is not inductive: it rests on
\* where every runner has got to and on the order of the statements in the ledger.
THEOREM MigrationInvariant == MigrationSpec => []MigrationInv
  <1>1. MigrationInit => MigrationInv
    BY MigrationStart
  <1>2. MigrationInv /\ [MigrationNext]_migrationVars => MigrationInv'
    <2> SUFFICES ASSUME MigrationInv, [MigrationNext]_migrationVars PROVE MigrationInv'
      OBVIOUS
    <2>1. CASE UNCHANGED migrationVars
      BY <2>1, StutterKeepsMigrationInv
    <2>2. ASSUME NEW r \in Migrator, RunnerStep(r) PROVE MigrationInv'
      BY <2>2, RunnersKeepInv, ExecuteKeepsInv, RecordStepKeepsInv, RecordFileKeepsInv DEF RunnerStep
    <2> QED
      BY <2>1, <2>2 DEF MigrationNext
  <1> QED
    BY <1>1, <1>2, PTL DEF MigrationSpec

\* A file recorded as applied has left all its effects in the schema, for every list of
\* migrations and any number of runners that die anywhere, unless a drop was raced
\* (runMigrations, migrate.ts).
THEOREM RecordedIsApplied == MigrationSpec => []RecordedMeansApplied
  <1>1. MigrationInv => RecordedMeansApplied
    BY DEF MigrationInv, AppliedIsLedgered, LedgerIsTrue, RecordedMeansApplied
  <1> QED
    BY <1>1, MigrationInvariant, PTL

\* No statement is run before every earlier file is settled (the loop over the sorted
\* files, migrate.ts).
THEOREM OrderKept == MigrationSpec => []FilesInOrder
  <1>1. MigrationInv => FilesInOrder
    BY DEF MigrationInv
  <1> QED
    BY <1>1, MigrationInvariant, PTL

------------------------------------------------------------------------------
(* The intake of documents.                                                *)

\* What a request has done for the document it is working on.
WorkIsDone ==
  \A r \in Confirm :
    /\ confirm[r].phase # "idle" => confirm[r].doc \in Document
    /\ confirm[r].phase \in {"mark", "ingest", "evaluate"} => confirm[r].doc \in searchable
    /\ confirm[r].phase = "copy" =>
         \E e \in searchable : ContentOf[e] = ContentOf[confirm[r].doc]

\* A processed document that is not yet evidence has a request that will see to it, or
\* that will record its failure; and a copy is made only of what is evidence.
SeenTo ==
  ~cutOff /\ ~leaned =>
    /\ \A d \in Document : docStatus[d] = "PROCESSED" =>
         \/ ContentOf[d] \in evidence
         \/ \E r \in Confirm : confirm[r].doc = d /\ confirm[r].phase \in {"ingest", "failing"}
    /\ \A r \in Confirm :
         confirm[r].phase \in {"copy", "evaluate"} => ContentOf[confirm[r].doc] \in evidence

IntakeInv == IntakeTypeOK /\ ProcessedIsSearchable /\ WorkIsDone /\ SeenTo

------------------------------------------------------------------------------
LEMMA IntakeStart == IntakeInit => IntakeInv
  <1> SUFFICES ASSUME IntakeInit PROVE IntakeInv
    OBVIOUS
  <1>1. IntakeTypeOK
    BY DEF IntakeInit, IntakeTypeOK, ConfirmPhase
  <1> QED
    BY <1>1 DEF IntakeInit, IntakeInv, ProcessedIsSearchable, WorkIsDone, SeenTo

\* Every request's place after one of them moves.
LEMMA OneMoves ==
  ASSUME IntakeTypeOK, NEW r \in Confirm, NEW p \in ConfirmPhase,
         \/ Then(r, p)
         \/ Done(r) /\ p = "idle"
  PROVE  /\ confirm' \in [Confirm -> [phase : ConfirmPhase, doc : Document \cup {NoDocument}]]
         /\ \A q \in Confirm : q # r => confirm'[q] = confirm[q]
         /\ confirm'[r].phase = p
         /\ p # "idle" => confirm'[r].doc = confirm[r].doc
  BY DEF IntakeTypeOK, Then, Done, ConfirmPhase

------------------------------------------------------------------------------
LEMMA UploadKeepsInv ==
  ASSUME IntakeInv, NEW d \in Document, Upload(d)
  PROVE  IntakeInv'
  <1> USE DEF Upload, intakeGhosts
  <1>1. IntakeTypeOK'
    BY DEF IntakeInv, IntakeTypeOK
  <1>2. \A e \in Document : docStatus'[e] = "PROCESSED" => docStatus[e] = "PROCESSED"
    BY DEF IntakeInv, IntakeTypeOK
  <1> QED
    BY <1>1, <1>2 DEF IntakeInv, ProcessedIsSearchable, WorkIsDone, SeenTo

LEMMA ConfirmKeepsInv ==
  ASSUME IntakeInv, NEW r \in Confirm, NEW d \in Document, StartConfirm(r, d)
  PROVE  IntakeInv'
  <1> USE DEF StartConfirm, In, intakeGhosts
  <1>1. IntakeTypeOK'
    BY DEF IntakeInv, IntakeTypeOK, ConfirmPhase
  <1>2. \A q \in Confirm : confirm'[q] = IF q = r THEN [phase |-> "start", doc |-> d] ELSE confirm[q]
    BY DEF IntakeInv, IntakeTypeOK
  <1> QED
    BY <1>1, <1>2 DEF IntakeInv, ProcessedIsSearchable, WorkIsDone, SeenTo

\* Steps that change no document: a step on, to a place the request has earned.
LEMMA WorkerKeepsInv ==
  ASSUME IntakeInv, NEW r \in Confirm, NEW p \in ConfirmPhase,
         \/ Then(r, p)
         \/ Done(r) /\ p = "idle",
         ~In(r, "idle"),
         UNCHANGED <<docStatus, hashed, searchable, evidence>>,
         leaned' \in BOOLEAN, cutOff' \in BOOLEAN,
         leaned => leaned', cutOff => cutOff',
         p \in {"mark", "ingest", "evaluate"} => confirm[r].doc \in searchable,
         p = "copy" => \E e \in searchable : ContentOf[e] = ContentOf[confirm[r].doc],
         \/ cutOff' \/ leaned'
         \/ /\ In(r, "ingest") \/ In(r, "failing") => p \in {"ingest", "failing"}
            /\ p \in {"copy", "evaluate"} => ContentOf[confirm[r].doc] \in evidence
  PROVE  IntakeInv'
  <1>1. /\ confirm' \in [Confirm -> [phase : ConfirmPhase, doc : Document \cup {NoDocument}]]
        /\ \A q \in Confirm : q # r => confirm'[q] = confirm[q]
        /\ confirm'[r].phase = p
        /\ p # "idle" => confirm'[r].doc = confirm[r].doc
    BY OneMoves DEF IntakeInv
  <1>2. IntakeTypeOK'
    BY <1>1 DEF IntakeInv, IntakeTypeOK
  <1>3. WorkIsDone'
    BY <1>1 DEF IntakeInv, WorkIsDone, In
  <1>4. SeenTo'
    BY <1>1 DEF IntakeInv, SeenTo, In
  <1> QED
    BY <1>2, <1>3, <1>4 DEF IntakeInv, ProcessedIsSearchable

LEMMA WorkersKeepInv ==
  ASSUME IntakeInv, NEW r \in Confirm,
         Extract(r) \/ Lookup(r) \/ Evaluated(r) \/ IntakeFails(r) \/ CutOff(r)
  PROVE  IntakeInv'
  <1> USE DEF In, intakeGhosts, ConfirmPhase
  <1>0. leaned \in BOOLEAN /\ cutOff \in BOOLEAN
    BY DEF IntakeInv, IntakeTypeOK
  <1>1. CASE Extract(r)
    BY <1>0, <1>1, WorkerKeepsInv DEF Extract
  <1>2. CASE Lookup(r)
    <2>1. /\ leaned' \in BOOLEAN /\ (leaned => leaned')
          /\ cutOff' = cutOff
          /\ UNCHANGED <<docStatus, hashed, searchable, evidence>>
      BY <1>0, <1>2 DEF Lookup
    <2>2. CASE ProcessedCopies(Doc(r)) = {}
      BY <1>0, <1>2, <2>1, <2>2, WorkerKeepsInv DEF Lookup
    <2>3. CASE ProcessedCopies(Doc(r)) # {}
      <3>1. PICK e \in ProcessedCopies(Doc(r)) : TRUE
        BY <2>3
      <3>2. e \in Document /\ docStatus[e] = "PROCESSED" /\ ContentOf[e] = ContentOf[Doc(r)]
        BY <3>1 DEF ProcessedCopies, SameContent, IntakeInv, IntakeTypeOK
      <3>3. \E f \in searchable : ContentOf[f] = ContentOf[confirm[r].doc]
        BY <3>2 DEF IntakeInv, ProcessedIsSearchable, Doc
      <3>4. leaned' \/ cutOff' \/ ContentOf[confirm[r].doc] \in evidence
        <4>1. CASE WorkedOn(e)
          BY <1>2, <3>1, <4>1 DEF Lookup
        <4>2. CASE ~WorkedOn(e)
          <5>1. leaned \/ cutOff \/ ContentOf[e] \in evidence
            BY <3>2, <4>2 DEF IntakeInv, SeenTo, WorkedOn, Doc
          <5>2. evidence' = evidence /\ ContentOf[e] = ContentOf[confirm[r].doc]
            BY <2>1, <3>2 DEF Doc
          <5>3. CASE ContentOf[e] \in evidence
            BY <5>2, <5>3
          <5>4. CASE leaned
            BY <1>2, <5>4 DEF Lookup
          <5>5. CASE cutOff
            <6>1. cutOff' = cutOff
              BY <2>1
            <6>2. QED
              BY <5>5, <6>1
          <5>6. QED
            BY <5>1, <5>3, <5>4, <5>5
        <4>3. QED
          BY <4>1, <4>2
      <3> QED
        BY <1>0, <1>2, <2>1, <2>3, <3>3, <3>4, WorkerKeepsInv DEF Lookup
    <2> QED
      BY <2>2, <2>3
  <1>3. CASE Evaluated(r)
    BY <1>0, <1>3, WorkerKeepsInv DEF Evaluated
  <1>4. CASE IntakeFails(r)
    BY <1>0, <1>4, WorkerKeepsInv DEF IntakeFails, MayFail
  <1>5. CASE CutOff(r)
    BY <1>0, <1>5, WorkerKeepsInv DEF CutOff
  <1> QED
    BY <1>1, <1>2, <1>3, <1>4, <1>5

------------------------------------------------------------------------------
\* Steps that change the document.
LEMMA IndexKeepsInv ==
  ASSUME IntakeInv, NEW r \in Confirm, Index(r) \/ IngestEvidence(r)
  PROVE  IntakeInv'
  <1> USE DEF In, intakeGhosts, Doc
  <1>1. PICK p \in {"mark", "evaluate"} : Then(r, p) /\ p = (IF Index(r) THEN "mark" ELSE "evaluate")
    BY DEF Index, IngestEvidence
  <1>2. /\ confirm' \in [Confirm -> [phase : ConfirmPhase, doc : Document \cup {NoDocument}]]
        /\ \A q \in Confirm : q # r => confirm'[q] = confirm[q]
        /\ confirm'[r].phase = p
        /\ confirm'[r].doc = confirm[r].doc
    BY <1>1, OneMoves DEF IntakeInv, ConfirmPhase
  <1>3. /\ confirm[r].doc \in Document
        /\ searchable \subseteq searchable' /\ searchable' \subseteq Document
        /\ evidence \subseteq evidence' /\ evidence' \subseteq {ContentOf[d] : d \in Document}
        /\ UNCHANGED <<docStatus, hashed, leaned, cutOff>>
    BY DEF Index, IngestEvidence, AllInserted, IntakeInv, WorkIsDone, IntakeTypeOK
  <1>4. /\ confirm[r].doc \in searchable'
        /\ p = "evaluate" => ContentOf[confirm[r].doc] \in evidence'
    BY <1>1, <1>3 DEF Index, IngestEvidence, AllInserted, IntakeInv, WorkIsDone
  <1>5. IntakeTypeOK'
    BY <1>2, <1>3 DEF IntakeInv, IntakeTypeOK
  <1>6. WorkIsDone'
    BY <1>2, <1>3, <1>4 DEF IntakeInv, WorkIsDone
  <1>7. SeenTo'
    <2>1. confirm[r].phase = "ingest" => ContentOf[confirm[r].doc] \in evidence'
      BY <1>1, <1>4 DEF Index, IngestEvidence
    <2>2. confirm[r].phase # "failing"
      BY DEF Index, IngestEvidence
    <2> QED
      BY <1>2, <1>3, <1>4, <2>1, <2>2 DEF IntakeInv, SeenTo
  <1> QED
    BY <1>3, <1>5, <1>6, <1>7 DEF IntakeInv, ProcessedIsSearchable

LEMMA StatusKeepsInv ==
  ASSUME IntakeInv, NEW r \in Confirm,
         StartProcessing(r) \/ MarkCopy(r) \/ MarkProcessed(r) \/ RecordFailure(r)
  PROVE  IntakeInv'
  <1> USE DEF In, intakeGhosts, Doc
  <1> DEFINE d == confirm[r].doc
  <1>1. PICK p \in {"extract", "idle", "ingest"} :
          /\ Then(r, p) \/ (Done(r) /\ p = "idle")
          /\ p = "ingest" => MarkProcessed(r)
          /\ MarkProcessed(r) => p = "ingest"
    BY DEF StartProcessing, MarkCopy, MarkProcessed, RecordFailure
  <1>2. /\ confirm' \in [Confirm -> [phase : ConfirmPhase, doc : Document \cup {NoDocument}]]
        /\ \A q \in Confirm : q # r => confirm'[q] = confirm[q]
        /\ confirm'[r].phase = p
        /\ p # "idle" => confirm'[r].doc = confirm[r].doc
    BY <1>1, OneMoves DEF IntakeInv, ConfirmPhase
  <1>3. PICK s \in {"PROCESSING", "PROCESSED", "FAILED"} :
          /\ docStatus' = [docStatus EXCEPT ![confirm[r].doc] = s]
          /\ s = "PROCESSED" => MarkCopy(r) \/ MarkProcessed(r)
    BY DEF StartProcessing, MarkCopy, MarkProcessed, RecordFailure, Status
  <1>4. /\ confirm[r].doc \in Document
        /\ hashed' \subseteq Document
        /\ UNCHANGED <<searchable, evidence, leaned, cutOff>>
    BY DEF StartProcessing, MarkCopy, MarkProcessed, RecordFailure, IntakeInv, WorkIsDone, IntakeTypeOK
  <1>5. /\ \A e \in Document : docStatus'[e] = IF e = confirm[r].doc THEN s ELSE docStatus[e]
        /\ docStatus' \in [Document -> {"ABSENT", "UPLOADED", "PROCESSING", "PROCESSED", "FAILED"}]
    BY <1>3, <1>4 DEF IntakeInv, IntakeTypeOK
  <1>6. IntakeTypeOK'
    BY <1>2, <1>4, <1>5 DEF IntakeInv, IntakeTypeOK
  <1>7. ProcessedIsSearchable'
    BY <1>3, <1>4, <1>5 DEF IntakeInv, ProcessedIsSearchable, WorkIsDone, MarkCopy, MarkProcessed
  <1>8. WorkIsDone'
    BY <1>1, <1>2, <1>4 DEF IntakeInv, WorkIsDone, MarkProcessed
  <1>9. SeenTo'
    <2>1. s = "PROCESSED" => \/ confirm[r].phase = "copy"
                             \/ confirm'[r].phase = "ingest" /\ confirm'[r].doc = confirm[r].doc
      BY <1>1, <1>2, <1>3 DEF MarkCopy, MarkProcessed
    <2> SUFFICES ASSUME ~cutOff, ~leaned
                 PROVE  /\ \A e \in Document : docStatus'[e] = "PROCESSED" =>
                             \/ ContentOf[e] \in evidence
                             \/ \E q \in Confirm : confirm'[q].doc = e /\ confirm'[q].phase \in {"ingest", "failing"}
                        /\ \A q \in Confirm : confirm'[q].phase \in {"copy", "evaluate"} =>
                             ContentOf[confirm'[q].doc] \in evidence
      BY <1>4 DEF SeenTo
    <2>2. ASSUME NEW e \in Document, docStatus'[e] = "PROCESSED"
          PROVE  \/ ContentOf[e] \in evidence
                 \/ \E q \in Confirm : confirm'[q].doc = e /\ confirm'[q].phase \in {"ingest", "failing"}
      <3>1. CASE e = confirm[r].doc
        BY <1>2, <1>5, <2>1, <2>2, <3>1 DEF IntakeInv, SeenTo
      <3>2. CASE e # confirm[r].doc
        BY <1>2, <1>5, <2>2, <3>2 DEF IntakeInv, SeenTo
      <3> QED
        BY <3>1, <3>2
    <2>3. \A q \in Confirm : confirm'[q].phase \in {"copy", "evaluate"} => ContentOf[confirm'[q].doc] \in evidence
      BY <1>2 DEF IntakeInv, SeenTo
    <2> QED
      BY <2>2, <2>3
  <1> QED
    BY <1>6, <1>7, <1>8, <1>9 DEF IntakeInv

LEMMA StutterKeepsIntakeInv ==
  ASSUME IntakeInv, UNCHANGED intakeVars
  PROVE  IntakeInv'
  BY DEF IntakeInv, IntakeTypeOK, ProcessedIsSearchable, WorkIsDone, SeenTo, intakeVars

------------------------------------------------------------------------------
\* The inductive invariant.  ProcessedIsEvidence is not inductive: a document is
\* PROCESSED before it is evidence, and the request in between must be accounted for.
THEOREM IntakeInvariant == IntakeSpec => []IntakeInv
  <1>1. IntakeInv /\ [IntakeNext]_intakeVars => IntakeInv'
    <2> SUFFICES ASSUME IntakeInv, [IntakeNext]_intakeVars PROVE IntakeInv'
      OBVIOUS
    <2>1. CASE UNCHANGED intakeVars
      BY <2>1, StutterKeepsIntakeInv
    <2>2. ASSUME NEW d \in Document, Upload(d) PROVE IntakeInv'
      BY <2>2, UploadKeepsInv
    <2>3. ASSUME NEW r \in Confirm,
                 \/ \E d \in Document : StartConfirm(r, d)
                 \/ StartProcessing(r) \/ Extract(r) \/ Lookup(r) \/ MarkCopy(r) \/ Index(r)
                 \/ MarkProcessed(r) \/ IngestEvidence(r) \/ Evaluated(r)
                 \/ IntakeFails(r) \/ RecordFailure(r) \/ CutOff(r)
          PROVE  IntakeInv'
      BY <2>3, ConfirmKeepsInv, WorkersKeepInv, IndexKeepsInv, StatusKeepsInv
    <2> QED
      BY <2>1, <2>2, <2>3 DEF IntakeNext
  <1> QED
    BY <1>1, IntakeStart, PTL DEF IntakeSpec

\* A processed document, or one that says the same, has all its chunks (ingestDocument,
\* documentIngestion.ts), whatever overlaps, fails or dies.
THEOREM ProcessedFound == IntakeSpec => []ProcessedIsSearchable
  <1>1. IntakeInv => ProcessedIsSearchable
    BY DEF IntakeInv
  <1> QED
    BY <1>1, IntakeInvariant, PTL

\* What a processed document says is in the inbox once nobody works on it
\* (evaluateDocumentAsEvidence), under the property's two provisos.
THEOREM ProcessedCounts == IntakeSpec => []ProcessedIsEvidence
  <1>1. IntakeInv => ProcessedIsEvidence
    BY DEF IntakeInv, SeenTo, ProcessedIsEvidence, WorkedOn, Doc
  <1> QED
    BY <1>1, IntakeInvariant, PTL

------------------------------------------------------------------------------
(* Accounts.                                                               *)

\* A set all of whose members are equal has at most one.
LEMMA AtMostOne ==
  ASSUME NEW S, \A x, y \in S : x = y
  PROVE  Cardinality(S) <= 1
<1>1. CASE S = {}
  BY <1>1, FS_EmptySet
<1>2. CASE S # {}
  <2>1. PICK x : x \in S
    BY <1>2
  <2>2. S = {x}
    BY <2>1
  <2>3. QED
    BY <2>2, FS_Singleton
<1>3. QED
  BY <1>1, <1>2

\* A local user owns the shared workspace; a hosted one owns the workspace of a request
\* that has come as far as inserting a user, which it does once.
OwnersAreApart ==
  /\ \A u, v \in user : u.tenant = v.tenant => u = v
  /\ \A u, v \in user : u.email = v.email => u = v
  /\ local => \A u \in user : u.tenant = Shared
  /\ ~local => \A u \in user : signup[u.tenant].phase \in {"idle", "session"}

\* What a request has done by the time it comes to a step.
SignupIsDone ==
  \A r \in SignUp :
    /\ signup[r].phase \in {"insert", "session"} => TenantOf(r) \in workspace
    /\ ~local /\ signup[r].phase \in {"email", "tenant"} => r \notin workspace
    /\ signup[r].phase = "session" => [email |-> signup[r].email, tenant |-> TenantOf(r)] \in user

Hosted == ~local => workspace \subseteq SignUp

AccountInv == AccountTypeOK /\ OwnersAreApart /\ SignupIsDone /\ Hosted

LEMMA AccountStart == AccountInit => AccountInv
  <1> SUFFICES ASSUME AccountInit PROVE AccountInv
    OBVIOUS
  <1>1. NotSigningUp \in [phase : SignupPhase, email : Email] /\ NotSigningUp.phase = "idle"
    BY AccountAssumption DEF NotSigningUp, SignupPhase
  <1>2. AccountTypeOK
    BY <1>1 DEF AccountInit, AccountTypeOK
  <1> HIDE DEF NotSigningUp
  <1>3. QED
    BY <1>1, <1>2 DEF AccountInit, AccountInv, OwnersAreApart, SignupIsDone, Hosted

\* Every request's place after one of them moves.
LEMMA SignupMoves ==
  ASSUME AccountTypeOK, NEW r \in SignUp, NEW p \in SignupPhase, Reaches(r, p)
  PROVE  /\ signup' \in [SignUp -> [phase : SignupPhase, email : Email]]
         /\ signup'[r] = [phase |-> p, email |-> signup[r].email]
         /\ \A q \in SignUp \ {r} : signup'[q] = signup[q]
BY DEF AccountTypeOK, Reaches

LEMMA SignupEnds ==
  ASSUME AccountTypeOK, NEW r \in SignUp, EndSignup(r)
  PROVE  /\ signup' \in [SignUp -> [phase : SignupPhase, email : Email]]
         /\ signup'[r].phase = "idle"
         /\ \A q \in SignUp \ {r} : signup'[q] = signup[q]
<1>1. NotSigningUp \in [phase : SignupPhase, email : Email] /\ NotSigningUp.phase = "idle"
  BY AccountAssumption DEF NotSigningUp, SignupPhase
<1> HIDE DEF NotSigningUp
<1>2. QED
  BY <1>1 DEF AccountTypeOK, EndSignup

LEMMA AccountStep == AccountInv /\ [AccountNext]_accountVars => AccountInv'
  <1> SUFFICES ASSUME AccountInv, [AccountNext]_accountVars PROVE AccountInv'
    OBVIOUS
  <1> USE DEF AccountInv
  <1>1. CASE UNCHANGED accountVars
    BY <1>1 DEF accountVars, AccountTypeOK, OwnersAreApart, SignupIsDone, Hosted, TenantOf
  <1>2. ASSUME NEW r \in SignUp, NEW e \in Email, BeginSignup(r, e)
        PROVE  AccountInv'
    <2>1. /\ signup' \in [SignUp -> [phase : SignupPhase, email : Email]]
          /\ signup'[r].phase = "email"
          /\ \A q \in SignUp \ {r} : signup'[q] = signup[q]
      BY <1>2 DEF BeginSignup, AccountTypeOK, SignupPhase
    <2>2. UNCHANGED <<local, workspace, user, session>> /\ r \notin workspace
      BY <1>2 DEF BeginSignup
    <2>3. AccountTypeOK'
      BY <2>1, <2>2 DEF AccountTypeOK
    <2>4. OwnersAreApart'
      BY <2>1, <2>2 DEF OwnersAreApart, AccountTypeOK, Hosted
    <2>5. SignupIsDone'
      BY <2>1, <2>2 DEF SignupIsDone, TenantOf
    <2>6. QED
      BY <2>2, <2>3, <2>4, <2>5 DEF Hosted
  \* A request goes on and no user is inserted.
  <1>3. ASSUME NEW r \in SignUp, FindUserByEmail(r) \/ GetOrCreateTenant(r) \/ CreateSession(r) \/ FailSignup(r)
        PROVE  AccountInv'
    <2>1. CASE FindUserByEmail(r) /\ Reaches(r, "tenant")
      <3>1. /\ signup' \in [SignUp -> [phase : SignupPhase, email : Email]]
            /\ signup'[r] = [phase |-> "tenant", email |-> signup[r].email]
            /\ \A q \in SignUp \ {r} : signup'[q] = signup[q]
        BY <2>1, SignupMoves DEF SignupPhase
      <3>2. signup[r].phase = "email" /\ UNCHANGED <<local, workspace, user, session>>
        BY <2>1 DEF FindUserByEmail
      <3>3. AccountTypeOK' /\ Hosted'
        BY <3>1, <3>2 DEF AccountTypeOK, Hosted
      <3>4. OwnersAreApart'
        BY <3>1, <3>2 DEF OwnersAreApart, AccountTypeOK, Hosted
      <3>5. SignupIsDone'
        BY <3>1, <3>2 DEF SignupIsDone, TenantOf
      <3>6. QED
        BY <3>3, <3>4, <3>5
    <2>2. CASE GetOrCreateTenant(r)
      <3>1. /\ signup' \in [SignUp -> [phase : SignupPhase, email : Email]]
            /\ signup'[r] = [phase |-> "insert", email |-> signup[r].email]
            /\ \A q \in SignUp \ {r} : signup'[q] = signup[q]
        BY <2>2, SignupMoves DEF GetOrCreateTenant, SignupPhase
      <3>2. /\ signup[r].phase = "tenant" /\ UNCHANGED <<local, user, session>>
            /\ workspace' = workspace \cup {IF local THEN Shared ELSE r}
        BY <2>2 DEF GetOrCreateTenant, TenantOf
      <3>3. AccountTypeOK' /\ Hosted'
        BY <3>1, <3>2 DEF AccountTypeOK, Hosted
      <3>4. OwnersAreApart'
        <4>1. ~local => \A u \in user : u.tenant \in SignUp /\ u.tenant # r
          BY <3>2 DEF AccountTypeOK, Hosted, SignupIsDone
        <4>2. QED
          BY <3>1, <3>2, <4>1 DEF OwnersAreApart
      <3>5. SignupIsDone'
        BY <3>1, <3>2 DEF SignupIsDone, TenantOf
      <3>6. QED
        BY <3>3, <3>4, <3>5
    <2>3. CASE EndSignup(r) /\ UNCHANGED <<local, workspace, user, session>>
      BY <2>3, SignupEnds DEF AccountTypeOK, OwnersAreApart, SignupIsDone, Hosted, TenantOf, SignupPhase
    <2>4. CASE CreateSession(r)
      BY <2>4, SignupEnds DEF CreateSession, AccountTypeOK, OwnersAreApart, SignupIsDone, Hosted, TenantOf, SignupPhase
    <2>5. QED
      BY <1>3, <2>1, <2>2, <2>3, <2>4 DEF FindUserByEmail, FailSignup
  <1>4. ASSUME NEW r \in SignUp, InsertUser(r)
        PROVE  AccountInv'
    <2> DEFINE new == [email |-> signup[r].email, tenant |-> IF local THEN Shared ELSE r]
    <2>1. /\ signup' \in [SignUp -> [phase : SignupPhase, email : Email]]
          /\ signup'[r] = [phase |-> "session", email |-> signup[r].email]
          /\ \A q \in SignUp \ {r} : signup'[q] = signup[q]
      BY <1>4, SignupMoves DEF InsertUser, SignupPhase
    <2>2. user' = user \cup {new} /\ UNCHANGED <<local, workspace, session>>
      BY <1>4 DEF InsertUser, TenantOf
    <2>3. new.tenant \in workspace /\ new \in [email : Email, tenant : workspace]
      BY <1>4, <2>2 DEF InsertUser, SignupIsDone, AccountTypeOK, TenantOf
    <2>4. AccountTypeOK'
      BY <2>1, <2>2, <2>3 DEF AccountTypeOK
    <2>5. \A u \in user : u.tenant # new.tenant
      <3>1. CASE local
        BY <1>4, <3>1 DEF InsertUser, HasOwner, HasUser, OwnersAreApart
      <3>2. CASE ~local
        BY <1>4, <3>2 DEF InsertUser, OwnersAreApart
      <3>3. QED
        BY <3>1, <3>2
    <2>6. \A u \in user : u.email # new.email
      BY <1>4 DEF InsertUser, HasEmail
    <2>7. OwnersAreApart'
      <3>1. new.tenant = IF local THEN Shared ELSE r
        OBVIOUS
      <3> HIDE DEF new
      <3>2. ~local' => \A u \in user' : signup'[u.tenant].phase \in {"idle", "session"}
        BY <2>1, <2>2, <3>1 DEF OwnersAreApart, AccountTypeOK, Hosted
      <3>3. QED
        BY <2>2, <2>5, <2>6, <3>1, <3>2 DEF OwnersAreApart
    <2>8. SignupIsDone'
      BY <2>1, <2>2, <2>3 DEF SignupIsDone, TenantOf
    <2>9. QED
      BY <2>2, <2>4, <2>7, <2>8 DEF Hosted
  <1>5. QED
    BY <1>1, <1>2, <1>3, <1>4 DEF AccountNext

\* The inductive invariant of signing up (api/auth/signup) for any number of signups and
\* addresses, local and hosted.
THEOREM AccountInvariant == AccountSpec => []AccountInv
  BY AccountStart, AccountStep, PTL DEF AccountSpec

\* A workspace has one owner and an email one account, however the statements of several
\* signups interleave (api/auth/signup, lib/repo/users.ts).
THEOREM OneOwnerEach == AccountSpec => []OneOwner
<1>1. AccountInv => OneOwner
  <2> SUFFICES ASSUME AccountInv PROVE OneOwner
    OBVIOUS
  <2>1. ASSUME NEW t \in workspace PROVE Cardinality({u \in user : u.tenant = t}) <= 1
    <3> DEFINE S == {u \in user : u.tenant = t}
    <3>1. \A u, v \in S : u = v
      BY DEF AccountInv, OwnersAreApart
    <3> HIDE DEF S
    <3>2. Cardinality(S) <= 1
      BY <3>1, AtMostOne
    <3>3. QED
      BY <3>2 DEF S
  <2>2. ASSUME NEW e \in Email PROVE Cardinality({u \in user : u.email = e}) <= 1
    <3> DEFINE S == {u \in user : u.email = e}
    <3>1. \A u, v \in S : u = v
      BY DEF AccountInv, OwnersAreApart
    <3> HIDE DEF S
    <3>2. Cardinality(S) <= 1
      BY <3>1, AtMostOne
    <3>3. QED
      BY <3>2 DEF S
  <2>3. QED
    BY <2>1, <2>2 DEF OneOwner, AccountInv, AccountTypeOK
<1>2. QED
  BY <1>1, AccountInvariant, PTL

------------------------------------------------------------------------------
(* The components side by side.                                            *)

\* A behaviour of the services is a behaviour of each component: one of them takes its own
\* steps and the others rest.
LEMMA PartsBehave ==
  ServicesSpec => /\ MigrationSpec /\ CaptureSpec /\ IntakeSpec /\ ReceiptSpec
                  /\ GraphSpec /\ JudgmentSpec /\ AccountSpec /\ EvaluationSpec
<1>1. ServicesInit => /\ MigrationInit /\ CaptureInit /\ IntakeInit /\ ReceiptInit
                      /\ GraphInit /\ JudgmentInit /\ AccountInit /\ EvaluationInit
  BY DEF ServicesInit
<1>2. [ServicesNext]_servicesVars =>
        /\ [MigrationNext]_migrationVars /\ [CaptureNext]_captureVars /\ [IntakeNext]_intakeVars
        /\ [ReceiptNext]_receiptVars /\ [GraphNext]_graphVars /\ [JudgmentNext]_judgment
        /\ [AccountNext]_accountVars /\ [EvaluationNext]_evaluationVars
  BY DEF ServicesNext, servicesVars, RestOf
<1>3. QED
  BY <1>1, <1>2, PTL DEF ServicesSpec, MigrationSpec, CaptureSpec, IntakeSpec, ReceiptSpec,
                         GraphSpec, JudgmentSpec, AccountSpec, EvaluationSpec

\* Every component of the services run is type-correct, for every value of its constants.
THEOREM ServicesTypes == ServicesSpec => []ServicesTypeOK
<1>1. /\ MigrationInv => MigrationTypeOK
      /\ CaptureInv => CaptureTypeOK
      /\ IntakeInv => IntakeTypeOK
      /\ ReceiptInv => ReceiptTypeOK
      /\ GraphInv => GraphTypeOK
      /\ AccountInv => AccountTypeOK
  BY DEF MigrationInv, CaptureInv, IntakeInv, ReceiptInv, GraphInv, AccountInv
<1>2. /\ MigrationTypeOK /\ CaptureTypeOK /\ IntakeTypeOK /\ ReceiptTypeOK /\ GraphTypeOK
      /\ JudgmentTypeOK /\ AccountTypeOK /\ EvaluationTypeOK
      => ServicesTypeOK
  BY DEF ServicesTypeOK
<1>3. QED
  BY <1>1, <1>2, PartsBehave, MigrationInvariant, CaptureInvariant, IntakeInvariant, ReceiptInvariant,
     GraphInvariant, JudgmentTypes, AccountInvariant, EvaluationTypes, PTL
===============================================================================
