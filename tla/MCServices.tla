------------------------------ MODULE MCServices ------------------------------
(***************************************************************************)
(* The components that share no state with one another, side by side in    *)
(* one run: a behaviour lets one of them move and the others rest in their *)
(* initial states, so the run explores the sum of their state spaces and   *)
(* not the product.                                                        *)
(***************************************************************************)
EXTENDS MigrationRunner, DecisionCapture, DocumentIntake, VerificationReceipts,
        DecisionGraph, FactJudgment, Accounts, MCSequentialEvaluation, TLC

CONSTANTS r1, r2, b1, b2, c1, w1, attempt1, attempt2

VARIABLE part  \* the component that moves

servicesVars == <<part, migrationVars, captureVars, intakeVars, receiptVars, graphVars,
                  judgment, accountVars, evaluationVars>>

------------------------------------------------------------------------------
(* The instances.                                                          *)

\* Three files with one of every kind of statement, the second of which may fail.
Files == << <<"create", "rename">>, <<"add">>, <<"drop", "add", "create">> >>

\* Two documents that say the same.
OneContent == [d \in Document |-> c1]

\* Two attempts of one workflow, delivered in either order.
OneWorkflow == [a \in Attempt |-> w1]
Completed   == attempt1 :> 2 @@ attempt2 :> 1

TextValues == {"1.2", "1.2.0-rc", "1.10", "2026-01", "2026-02"}
ListValues == {{"1.2"}, {"1.10", "2026-01"}}

Versions ==
  "1.2" :> [parts |-> <<1, 2>>, prerelease |-> 0]
    @@ "1.2.0-rc" :> [parts |-> <<1, 2, 0>>, prerelease |-> 1]
    @@ "1.10" :> [parts |-> <<1, 10>>, prerelease |-> 0]

Dates == "2026-01" :> 1 @@ "2026-02" :> 2

Num(n)  == [kind |-> "number", is |-> n]
Bool(b) == [kind |-> "boolean", is |-> b]
Txt(t)  == [kind |-> "text", is |-> t]
Lst(l)  == [kind |-> "list", is |-> l]

Assume(t, o, e) ==
  [valueType |-> t, operator |-> o, expected |-> e, predicate |-> "p", subject |-> None,
   unit |-> None, policy |-> "DETERMINISTIC_FIRST"]

\* Every type with every operator, and numbers that are subject to something else as well.
Assumptions ==
  {Assume("NUMBER", o, Num(1)) : o \in Comparisons}
    \cup {Assume("VERSION", o, Txt(t)) : o \in Comparisons, t \in {"1.2", "1.2.0-rc"}}
    \cup {Assume("DATE", o, Txt("2026-02")) : o \in Comparisons}
    \cup {Assume("BOOLEAN", o, Bool(TRUE)) : o \in {"=", "!="}}
    \cup {Assume("CATEGORY", o, Txt("1.10")) : o \in {"=", "!="}}
    \cup {Assume("CATEGORY", o, Lst({"1.10", "2026-01"})) : o \in {"IN", "NOT_IN"}}
    \cup {Assume("SET", o, Txt("1.2")) : o \in {"CONTAINS", "NOT_CONTAINS"}}
    \cup {Assume("TEXT", None, Bool(TRUE)),
          [Assume("NUMBER", "<", Num(2)) EXCEPT !.policy = "MANUAL"],
          [Assume("NUMBER", "<", Num(2)) EXCEPT !.subject = "s", !.unit = "u"],
          [Assume("NUMBER", "<", Num(2)) EXCEPT !.predicate = None]}

Observed(v) == [predicate |-> "p", subject |-> None, unit |-> None, operator |-> "=", value |-> v]

Facts ==
  {Observed(v) : v \in {Num(1), Num(2), Bool(TRUE), Bool(FALSE)}
                        \cup {Txt(t) : t \in TextValues} \cup {Lst(l) : l \in ListValues}}
    \cup {[Observed(Num(2)) EXCEPT !.predicate = "q"],
          [Observed(Num(2)) EXCEPT !.subject = "s", !.unit = "u"],
          [Observed(Num(2)) EXCEPT !.subject = "s", !.unit = "w"],
          [Observed(Num(2)) EXCEPT !.operator = "<="]}

------------------------------------------------------------------------------
(* The run.                                                                *)

RestOf(p, itsVars) == part # p /\ UNCHANGED itsVars

ServicesInit ==
  /\ part \in {"migration", "capture", "intake", "receipts", "graph", "facts", "accounts",
              "evaluation"}
  /\ MigrationInit /\ CaptureInit /\ IntakeInit /\ ReceiptInit /\ GraphInit /\ JudgmentInit
  /\ IF part = "accounts" THEN AccountInit ELSE AccountInit /\ local
  /\ IF part = "evaluation" THEN EvaluationInit
     ELSE EvaluationInit /\ rules = DefaultPolicies /\ trust = 85 /\ importance = 50

ServicesNext ==
  /\ UNCHANGED part
  /\ (part = "migration" /\ MigrationNext) \/ RestOf("migration", migrationVars)
  /\ (part = "capture" /\ CaptureNext) \/ RestOf("capture", captureVars)
  /\ (part = "intake" /\ IntakeNext) \/ RestOf("intake", intakeVars)
  /\ (part = "receipts" /\ ReceiptNext) \/ RestOf("receipts", receiptVars)
  /\ (part = "graph" /\ GraphNext) \/ RestOf("graph", graphVars)
  /\ (part = "facts" /\ JudgmentNext) \/ RestOf("facts", judgment)
  /\ (part = "accounts" /\ AccountNext) \/ RestOf("accounts", accountVars)
  /\ (part = "evaluation" /\ EvaluationNext) \/ RestOf("evaluation", evaluationVars)

ServicesSpec == ServicesInit /\ [][ServicesNext]_servicesVars

\* Requests, clients' bodies and linked decisions are interchangeable; nothing here is a
\* liveness property.
Interchangeable == Permutations(Request) \cup Permutations(Body) \cup Permutations(Linked)

\* So are the decisions of the graph: they may be recorded in the order of their numbers.
InOrder == \A i \in DOMAIN recorded : recorded[i] = i

\* Assumptions are added until a decision has one more than it began with or, when
\* requests have overlapped, that many in all.
FewUnits == disturbed => units <= FirstUnits + 1

\* Every component is type-correct; in particular no crash, race or retry stores two
\* receipts of one attempt, a session without its user or an edge between decisions that
\* are not recorded.
ServicesTypeOK ==
  /\ MigrationTypeOK /\ CaptureTypeOK /\ IntakeTypeOK /\ ReceiptTypeOK /\ GraphTypeOK
  /\ JudgmentTypeOK /\ AccountTypeOK /\ EvaluationTypeOK
===============================================================================
