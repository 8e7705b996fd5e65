--------------------------- MODULE MigrationRunner ---------------------------
(***************************************************************************)
(* runMigrations (storage-sql/migrate.ts): the migration files in order,   *)
(* one statement at a time and outside any transaction, with a ledger of   *)
(* the statements done and one of the files done.  A deployment, a serving *)
(* process and a person may each start a runner; nothing keeps two from    *)
(* running at once, and any may die or lose its connection at every step.  *)
(***************************************************************************)
EXTENDS Integers, Sequences

CONSTANTS
  Migrator,       \* the runners
  StatementKind,  \* for every file that applies to the dialect, its statements' kinds
  OptionalFile    \* the files that may fail

\* What a statement does when it is run again.
\*   create  IF NOT EXISTS, or an update that changes nothing the second time
\*   rename  ALTER TABLE ... RENAME COLUMN: fails, but the runner can tell
\*   add     ADD CONSTRAINT: fails
\*   drop    DROP CONSTRAINT IF EXISTS, before the statement that adds it anew
Kind == {"create", "rename", "add", "drop"}

ASSUME MigrationAssumption ==
  /\ StatementKind \in Seq(Seq(Kind))
  /\ OptionalFile \subseteq 1..Len(StatementKind)

VARIABLES
  effect,      \* the statements whose effect the schema shows
  stepLedger,  \* schema_migration_statements
  fileLedger,  \* schema_migrations
  runner       \* where each runner is

\* Ghost: a runner dropped a constraint after another had recorded that drop.
VARIABLE dropRaced

migrationVars == <<effect, stepLedger, fileLedger, runner, dropRaced>>

File      == 1..Len(StatementKind)
Statement == UNION {{f} \X (1..Len(StatementKind[f])) : f \in File}
KindOf(s) == StatementKind[s[1]][s[2]]

\* The phases within the try, and the others.
Trying == {"step", "probe", "execute", "record"}
Phase  == Trying \cup {"idle", "file", "warn"}

MigrationTypeOK ==
  /\ effect \subseteq Statement
  /\ stepLedger \subseteq Statement
  /\ fileLedger \in [File -> {"absent", "applied", "warned"}]
  /\ runner \in [Migrator -> [phase : Phase, file : Nat \ {0}, step : Nat \ {0}]]
  /\ dropRaced \in BOOLEAN

Idle == [phase |-> "idle", file |-> 1, step |-> 1]

MigrationInit ==
  /\ effect = {}
  /\ stepLedger = {}
  /\ fileLedger = [f \in File |-> "absent"]
  /\ runner = [r \in Migrator |-> Idle]
  /\ dropRaced = FALSE

------------------------------------------------------------------------------
At(r)         == <<runner[r].file, runner[r].step>>
InFile(r)     == runner[r].file \in File
HasStep(r)    == InFile(r) /\ runner[r].step <= Len(StatementKind[runner[r].file])
MoveTo(r, p, f, k) == runner' = [runner EXCEPT ![r] = [phase |-> p, file |-> f, step |-> k]]
Goto(r, p)    == MoveTo(r, p, runner[r].file, runner[r].step)
NextStep(r)   == MoveTo(r, "step", runner[r].file, runner[r].step + 1)
NextFile(r)   == MoveTo(r, "file", runner[r].file + 1, 1)
Stop(r)       == MoveTo(r, "idle", 1, 1)

schema  == <<effect, dropRaced>>
ledgers == <<stepLedger, fileLedger>>

StartRunner(r) ==
  /\ runner[r].phase = "idle"
  /\ MoveTo(r, "file", 1, 1)
  /\ UNCHANGED <<schema, ledgers>>

\* A file that is recorded is skipped, whether it was applied or given up.
ReadFile(r) ==
  /\ runner[r].phase = "file" /\ InFile(r)
  /\ IF fileLedger[runner[r].file] = "absent"
     THEN MoveTo(r, "step", runner[r].file, 1)
     ELSE NextFile(r)
  /\ UNCHANGED <<schema, ledgers>>

ReadStep(r) ==
  /\ runner[r].phase = "step" /\ HasStep(r)
  /\ IF At(r) \in stepLedger THEN NextStep(r) ELSE Goto(r, "probe")
  /\ UNCHANGED <<schema, ledgers>>

\* Mutant: a rename is taken for done without looking.
SkipsRename(s) == KindOf(s) = "rename"

RenameAlreadyApplied(s) == KindOf(s) = "rename" /\ s \in effect

Probe(r) ==
  /\ runner[r].phase = "probe"
  /\ Goto(r, IF RenameAlreadyApplied(At(r)) THEN "record" ELSE "execute")
  /\ UNCHANGED <<schema, ledgers>>

\* What a second execution would fail at.
Refused(s) == KindOf(s) \in {"rename", "add"} /\ s \in effect

\* What a drop takes away: the constraint the next statement adds.
Dropped(s) == IF KindOf(s) = "drop" THEN {<<s[1], s[2] + 1>>} ELSE {}

Execute(r) ==
  /\ runner[r].phase = "execute"
  /\ ~Refused(At(r))
  /\ effect' = (effect \ Dropped(At(r))) \cup {At(r)}
  /\ dropRaced' = (dropRaced \/ (KindOf(At(r)) = "drop" /\ At(r) \in stepLedger))
  /\ Goto(r, "record")
  /\ UNCHANGED ledgers

RecordStep(r) ==
  /\ runner[r].phase = "record"
  /\ stepLedger' = stepLedger \cup {At(r)}
  /\ NextStep(r)
  /\ UNCHANGED <<schema, fileLedger>>

\* The primary key refuses the second runner to finish a file.
RecordFile(r) ==
  /\ runner[r].phase = "step" /\ InFile(r) /\ ~HasStep(r)
  /\ fileLedger[runner[r].file] = "absent"
  /\ fileLedger' = [fileLedger EXCEPT ![runner[r].file] = "applied"]
  /\ NextFile(r)
  /\ UNCHANGED <<schema, stepLedger>>

\* Mutant: every file is treated as optional.
AlwaysOptional(f) == TRUE

IsOptional(f) == f \in OptionalFile

\* Any statement within the try may fail.
FailFile(r) ==
  /\ runner[r].phase \in Trying
  /\ IF IsOptional(runner[r].file) THEN Goto(r, "warn") ELSE Stop(r)
  /\ UNCHANGED <<schema, ledgers>>

Warn(r) ==
  /\ runner[r].phase = "warn"
  /\ fileLedger[runner[r].file] = "absent"
  /\ fileLedger' = [fileLedger EXCEPT ![runner[r].file] = "warned"]
  /\ NextFile(r)
  /\ UNCHANGED <<schema, stepLedger>>

\* The end of the files, an error outside the try, or the death of the process.
EndRunner(r) ==
  /\ runner[r].phase # "idle"
  /\ Stop(r)
  /\ UNCHANGED <<schema, ledgers>>

RunnerStep(r) ==
  \/ StartRunner(r) \/ ReadFile(r) \/ ReadStep(r) \/ Probe(r) \/ Execute(r) \/ RecordStep(r)
  \/ RecordFile(r) \/ FailFile(r) \/ Warn(r) \/ EndRunner(r)

MigrationNext == \E r \in Migrator : RunnerStep(r)
MigrationSpec == MigrationInit /\ [][MigrationNext]_migrationVars

------------------------------------------------------------------------------
(* What must hold.                                                         *)

StatementsOf(f) == {s \in Statement : s[1] = f}
Settled(f)      == fileLedger[f] = "applied" \/ (fileLedger[f] = "warned" /\ f \in OptionalFile)

\* A file recorded as applied has left the effect of every one of its
\* statements in the schema, however many runners overlapped and wherever they
\* died: a runner that is told "already applied" relies on it.  The exception is
\* a runner that looked for a DROP in the ledger before another recorded it, and
\* drops the constraint the other has since added.
RecordedMeansApplied ==
  ~dropRaced => \A f \in File : fileLedger[f] = "applied" => StatementsOf(f) \subseteq effect

\* Files take effect in order: no statement is run before every earlier file is
\* applied, or has failed and is one that may.
FilesInOrder ==
  \A s \in effect \cup stepLedger : \A f \in File : f < s[1] => Settled(f)
=============================================================================
