---------------------------- MODULE AgentContext ----------------------------
(***************************************************************************)
(* What an agent is told before it acts (services/context.ts).             *)
(*                                                                         *)
(* checkAction and getContext read the memory in seven statements, outside *)
(* any transaction: the resources that match, the rows of the decisions    *)
(* found, their assumptions, the rows and the assumptions of the decisions *)
(* that replace superseded ones, the open conflicts, and, once more, the   *)
(* decisions whose constraints are compared with the action.  People,      *)
(* evaluations and the expiry sweep change DecisionMemory between any two. *)
(*                                                                         *)
(* An answer put together from several moments cannot be true of one.  What *)
(* it must not do is miss something that was true from the first read to   *)
(* the last, so ghosts keep what has held for the whole of a request.      *)
(***************************************************************************)
EXTENDS DecisionMemory

CONSTANTS
  Governs,   \* the decisions recorded against the resources of the action
  Ask        \* what a caller may ask: how many decisions it has room for, and
             \* whose constraints (whose BLOCKING ones) its action would break

ASSUME AskAssumption ==
  /\ Governs \subseteq Decision
  /\ Ask \subseteq [maxDecisions : Nat, broken : SUBSET Decision, blocking : SUBSET Decision]
  /\ \A a \in Ask : a.maxDecisions > 0 /\ a.blocking \subseteq a.broken

VARIABLES
  stage,    \* how far the request has come
  ask,      \* what the caller asked
  matched,  \* the decisions found relevant
  row,      \* the decision rows read
  asked,    \* the replacements to be read
  doubted,  \* the decisions read with a challenged or invalid assumption
  told,     \* the decisions the answer lists
  verdict   \* of checkAction

\* Ghosts: what has held since the first read.
VARIABLES
  alwaysLive, alwaysRisky, alwaysDoubted,  \* sets of decisions
  alwaysReplaced                           \* pairs of a decision and its replacement

request == <<stage, ask, matched, row, asked, doubted, told, verdict>>
ghosts  == <<alwaysLive, alwaysRisky, alwaysDoubted, alwaysReplaced>>
contextVars == <<vars, request, ghosts>>

------------------------------------------------------------------------------
Risky == {"AT_RISK", "REOPENED"}

Unread == [status |-> "unread", replacedBy |-> None]
Row    == [status : DecisionStatus \cup {"ABSENT"}, replacedBy : Decision \cup {None}]
RowOf(d) == [status |-> status[d], replacedBy |-> supersededBy[d]]

Stage   == {"idle", "matched", "read", "hydrated", "pulled", "complete", "told",
            "answered", "governed", "listed"}
Answer  == {"none", "no_decision", "clear", "caution", "stop"}

ContextTypeOK ==
  /\ TypeOK
  /\ stage \in Stage
  /\ ask \in Ask
  /\ matched \subseteq Decision
  /\ row \in [Decision -> Row \cup {Unread}]
  /\ asked \subseteq Decision
  /\ doubted \subseteq Decision
  /\ told \subseteq Decision
  /\ verdict \in Answer
  /\ stage \in {"told", "answered"} => Cardinality(told) <= ask.maxDecisions
  /\ alwaysLive \subseteq Decision
  /\ alwaysRisky \subseteq Decision
  /\ alwaysDoubted \subseteq Decision
  /\ alwaysReplaced \subseteq Decision \X Decision

NothingRead == [d \in Decision |-> Unread]

ContextInit ==
  /\ Init
  /\ stage = "idle"
  /\ ask \in Ask
  /\ row = NothingRead
  /\ matched = {} /\ asked = {} /\ doubted = {} /\ told = {} /\ verdict = "none"
  /\ alwaysLive = {} /\ alwaysRisky = {} /\ alwaysDoubted = {} /\ alwaysReplaced = {}

------------------------------------------------------------------------------
\* What is true of the memory now, for the ghosts.
LiveNow     == {d \in Decision : status[d] \in Live}
RiskyNow    == {d \in Decision : status[d] \in Risky}
DoubtedNow  == {d \in Decision : DoubtfulUnder(validity, d) # {}}
ReplacedNow == {p \in Decision \X Decision : status[p[1]] = "SUPERSEDED" /\ supersededBy[p[1]] = p[2]}

StartWatching ==
  /\ alwaysLive' = LiveNow
  /\ alwaysRisky' = RiskyNow
  /\ alwaysDoubted' = DoubtedNow
  /\ alwaysReplaced' = ReplacedNow

KeepWatching ==
  /\ alwaysLive' = alwaysLive \cap LiveNow'
  /\ alwaysRisky' = alwaysRisky \cap RiskyNow'
  /\ alwaysDoubted' = alwaysDoubted \cap DoubtedNow'
  /\ alwaysReplaced' = alwaysReplaced \cap ReplacedNow'

------------------------------------------------------------------------------
(* getContext.                                                             *)

\* Mutant: the decisions in doubt are not matched.
MatchedActive(statuses) == {d \in Governs : status[d] \in statuses \ Risky}

\* matchDecisionsByResources over listResourcesForMatching.
MatchedByResources(statuses) == {d \in Governs : status[d] \in statuses}

\* The first read.  Vectors may find any recorded decision, whatever its status.
Match ==
  /\ stage = "idle"
  /\ stage' = "matched"
  /\ ask' \in Ask
  /\ \E similar \in SUBSET {d \in Decision : status[d] # "ABSENT"} :
       matched' = MatchedByResources(Live \cup {"SUPERSEDED"}) \cup similar
  /\ UNCHANGED <<row, asked, doubted, told, verdict>>

ReadInto(ds) == [d \in Decision |-> IF d \in ds THEN RowOf(d) ELSE row[d]]

ReadRows ==
  /\ stage = "matched"
  /\ stage' = "read"
  /\ row' = ReadInto(matched)
  /\ UNCHANGED <<ask, matched, asked, doubted, told, verdict>>

\* The replacements of the superseded decisions that were not found themselves.
Replacements ==
  {row[d].replacedBy : d \in {e \in matched : row[e].status = "SUPERSEDED"}} \ (matched \cup {None})

Hydrate ==
  /\ stage = "read"
  /\ stage' = "hydrated"
  /\ doubted' = matched \cap DoubtedNow
  /\ asked' = Replacements
  /\ UNCHANGED <<ask, matched, row, told, verdict>>

\* Mutant: a replacement must be ACTIVE.
PulledActive == {d \in asked : status[d] = "ACTIVE"}
Pulled       == {d \in asked : status[d] \in Live}

\* Replacements are followed for one step only.
ReadReplacements ==
  /\ stage = "hydrated"
  /\ stage' = "pulled"
  /\ row' = ReadInto(Pulled)
  /\ asked' = Pulled
  /\ UNCHANGED <<ask, matched, doubted, told, verdict>>

HydrateReplacements ==
  /\ stage = "pulled"
  /\ stage' = "complete"
  /\ doubted' = doubted \cup (asked \cap DoubtedNow)
  /\ UNCHANGED <<ask, matched, row, asked, told, verdict>>

\* Mutant: the budget is not kept.
Unsliced(live) == {live}

\* The most relevant ones that fit, however relevance orders them.
Sliced(live) ==
  {t \in SUBSET live : \/ Cardinality(t) = ask.maxDecisions
                       \/ t = live /\ Cardinality(live) <= ask.maxDecisions}

Tell ==
  /\ stage = "complete"
  /\ stage' = "told"
  /\ told' \in Sliced({d \in Decision : row[d].status \in Live})
  /\ UNCHANGED <<ask, matched, row, asked, doubted, verdict>>

------------------------------------------------------------------------------
(* checkAction, after getContext.                                          *)

\* Mutant: only the decisions still ACTIVE are compared with the action.
RecheckedActive == {d \in told : status[d] = "ACTIVE"}
Rechecked       == {d \in told : status[d] \in Live}

\* Mutant: a reopened decision is not warned of.
WarnsAtRisk == {d \in told : row[d].status = "AT_RISK" \/ d \in doubted}

\* The warnings speak of what was read first, not of what is read again.
Warned == {d \in told : row[d].status \in Risky \/ d \in doubted}

VerdictOf ==
  IF told = {} THEN "no_decision"
  ELSE IF Rechecked \cap ask.blocking # {} THEN "stop"
  ELSE IF Rechecked \cap ask.broken # {} \/ Warned # {} THEN "caution"
  ELSE "clear"

Check ==
  /\ stage = "told"
  /\ stage' = "answered"
  /\ verdict' = VerdictOf
  /\ UNCHANGED <<ask, matched, row, asked, doubted, told>>

------------------------------------------------------------------------------
(* getConstraints (findConstraints): what is matched, and then read again. *)

MatchLive ==
  /\ stage = "idle"
  /\ stage' = "governed"
  /\ matched' = MatchedByResources(Live)
  /\ UNCHANGED <<ask, row, asked, doubted, told, verdict>>

ListConstraints ==
  /\ stage = "governed"
  /\ stage' = "listed"
  /\ told' = {d \in matched : status[d] \in Live}
  /\ UNCHANGED <<ask, matched, row, asked, doubted, verdict>>

\* The answer is delivered, or the request fails on the way.
Leave ==
  /\ stage # "idle"
  /\ stage' = "idle"
  /\ row' = NothingRead
  /\ matched' = {} /\ asked' = {} /\ doubted' = {} /\ told' = {} /\ verdict' = "none"
  /\ UNCHANGED ask

------------------------------------------------------------------------------
Start == UNCHANGED vars /\ (Match \/ MatchLive) /\ StartWatching

Continue ==
  /\ UNCHANGED vars
  /\ \/ ReadRows \/ Hydrate \/ ReadReplacements \/ HydrateReplacements
     \/ Tell \/ Check \/ ListConstraints \/ Leave
  /\ KeepWatching

\* Everyone else goes on meanwhile.
MemoryChanges == Next /\ KeepWatching /\ UNCHANGED request

ContextNext == Start \/ Continue \/ MemoryChanges

ContextSpec == ContextInit /\ [][ContextNext]_contextVars

------------------------------------------------------------------------------
(* What must hold.                                                         *)

Full == stage = "answered" /\ Cardinality(told) = ask.maxDecisions

\* A decision that governs the action and was live from the first read to the
\* last is in the answer, unless the caller's budget is used up by others; the
\* list of constraints has no budget.
GoverningIsTold ==
  stage \in {"answered", "listed"} => Full \/ (Governs \cap alwaysLive) \subseteq told

\* An action that breaks a blocking constraint of such a decision is answered
\* with stop, although the decision may go from ACTIVE to AT_RISK to REOPENED
\* and back while it is read.
StopNotMissed ==
  stage = "answered" =>
    Full \/ verdict = "stop" \/ Governs \cap ask.blocking \cap alwaysLive = {}

\* Nor is the answer "clear", or that there is no decision, when such a
\* decision was at risk or reopened, or one of its assumptions in doubt, all along.
DoubtIsTold ==
  stage = "answered" /\ verdict \in {"clear", "no_decision"} =>
    Full \/ Governs \cap alwaysLive \cap (alwaysRisky \cup alwaysDoubted) = {}

\* A decision that governs the action but is superseded brings in the decision
\* that replaced it, in whatever live status that one is.
ReplacementGoverns ==
  stage = "answered" =>
    Full \/ \A p \in alwaysReplaced : p[1] \in Governs /\ p[2] \in alwaysLive => p[2] \in told
=============================================================================
