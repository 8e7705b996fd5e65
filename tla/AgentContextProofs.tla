------------------------- MODULE AgentContextProofs -------------------------
(* What an agent is told misses nothing that held for its whole request, in *)
(* every workspace and however memory changes while the answer is made.     *)
EXTENDS AgentContext, DecisionMemoryProofs

\* A slice of the live decisions fits the caller's budget, and only a full
\* answer leaves one out.
LEMMA SliceFits ==
  ASSUME ContextTypeOK, NEW live \in SUBSET Decision, NEW t \in Sliced(live)
  PROVE  /\ t \subseteq live
         /\ Cardinality(t) <= ask.maxDecisions
         /\ t = live \/ Cardinality(t) = ask.maxDecisions
<1>1. ask.maxDecisions \in Nat
  BY AskAssumption DEF ContextTypeOK
<1>2. QED
  BY <1>1 DEF Sliced

\* Every read, and every change to memory between two reads, keeps the types.
LEMMA ContextTypeStep == ContextTypeOK /\ [ContextNext]_contextVars => ContextTypeOK'
<1> SUFFICES ASSUME ContextTypeOK, [ContextNext]_contextVars PROVE ContextTypeOK'
  OBVIOUS
<1> DEFINE Reader ==
      /\ stage \in Stage
      /\ ask \in Ask
      /\ matched \subseteq Decision
      /\ row \in [Decision -> Row \cup {Unread}]
      /\ asked \subseteq Decision
      /\ doubted \subseteq Decision
      /\ told \subseteq Decision
      /\ verdict \in Answer
      /\ stage \in {"told", "answered"} => Cardinality(told) <= ask.maxDecisions
    Watcher ==
      /\ alwaysLive \subseteq Decision
      /\ alwaysRisky \subseteq Decision
      /\ alwaysDoubted \subseteq Decision
      /\ alwaysReplaced \subseteq Decision \X Decision
<1>1. TypeOK'
  BY TypeStep DEF ContextTypeOK, ContextNext, Start, Continue, MemoryChanges, contextVars
<1>2. Watcher'
  <2>1. StartWatching \/ KeepWatching \/ UNCHANGED ghosts
    BY DEF ContextNext, Start, Continue, MemoryChanges, contextVars
  <2>2. QED
    BY <2>1 DEF ContextTypeOK, StartWatching, KeepWatching, ghosts, LiveNow, RiskyNow,
       DoubtedNow, ReplacedNow
<1>3. \A ds \in SUBSET Decision : ReadInto(ds) \in [Decision -> Row \cup {Unread}]
  BY DEF ContextTypeOK, TypeOK, ReadInto, RowOf, Row
<1>4. Reader'
  <2>1. CASE UNCHANGED request
    BY <2>1 DEF ContextTypeOK, request
  <2>2. CASE Match \/ MatchLive
    BY <2>2, AskAssumption DEF ContextTypeOK, Match, MatchLive, MatchedByResources, Stage
  <2>3. CASE ReadRows
    BY <2>3, <1>3 DEF ContextTypeOK, ReadRows, Stage
  <2>4. CASE Hydrate
    <3>1. Replacements \subseteq Decision
      BY DEF ContextTypeOK, Replacements, Row, Unread
    <3>2. QED
      BY <2>4, <3>1 DEF ContextTypeOK, Hydrate, Stage
  <2>5. CASE ReadReplacements
    BY <2>5, <1>3 DEF ContextTypeOK, ReadReplacements, Pulled, Stage
  <2>6. CASE HydrateReplacements
    BY <2>6 DEF ContextTypeOK, HydrateReplacements, Stage
  <2>7. CASE Tell
    BY <2>7, SliceFits DEF ContextTypeOK, Tell, Stage
  <2>8. CASE Check
    BY <2>8 DEF ContextTypeOK, Check, VerdictOf, Answer, Stage
  <2>9. CASE ListConstraints
    BY <2>9 DEF ContextTypeOK, ListConstraints, Stage
  <2>10. CASE Leave
    BY <2>10 DEF ContextTypeOK, Leave, NothingRead, Stage, Answer
  <2>11. QED
    BY <2>1, <2>2, <2>3, <2>4, <2>5, <2>6, <2>7, <2>8, <2>9, <2>10
       DEF ContextNext, Start, Continue, MemoryChanges, contextVars
<1>5. QED
  BY <1>1, <1>2, <1>4 DEF ContextTypeOK

\* A request and the memory it reads are type-correct at every moment, and an
\* answer never lists more than was asked for.
THEOREM ContextTypes == ContextSpec => []ContextTypeOK
<1>1. ContextInit => ContextTypeOK
  <2>1. Init => TypeOK
    BY DEF Init, TypeOK, Validity, Work, Session
  <2>2. QED
    BY <2>1 DEF ContextInit, ContextTypeOK, NothingRead, Stage, Answer
<1>2. QED
  BY <1>1, ContextTypeStep, PTL DEF ContextSpec

------------------------------------------------------------------------------
\* While a request is under way the ghosts say what holds now, and what it has
\* read so far agrees with what has held since it began.
Watching ==
  stage # "idle" =>
    /\ alwaysLive \subseteq LiveNow
    /\ alwaysRisky \subseteq RiskyNow
    /\ alwaysDoubted \subseteq DoubtedNow
    /\ alwaysReplaced \subseteq ReplacedNow

Found ==
  stage \notin {"idle", "listed"} =>
    /\ Governs \cap alwaysLive \subseteq matched
    /\ stage # "governed" => \A p \in alwaysReplaced : p[1] \in Governs => p[1] \in matched

HasRows    == {"read", "hydrated", "pulled", "complete", "told", "answered"}
HasDoubts  == HasRows \ {"read"}
HasPulled  == HasDoubts \ {"hydrated"}
HasAnswer  == {"told", "answered"}

RowsTrue ==
  /\ stage \in HasRows =>
       \A d \in matched \cap alwaysLive :
         row[d].status \in Live /\ (d \in alwaysRisky => row[d].status \in Risky)
  /\ stage = "read" =>
       \A p \in alwaysReplaced \cap (matched \X Decision) :
         row[p[1]].status = "SUPERSEDED" /\ row[p[1]].replacedBy = p[2]

DoubtsTrue == stage \in HasDoubts => matched \cap alwaysDoubted \subseteq doubted

ReplacementsTrue ==
  /\ stage = "hydrated" =>
       \A p \in alwaysReplaced \cap (matched \X Decision) : p[2] \in matched \cup asked
  /\ stage \in HasPulled =>
       \A p \in alwaysReplaced \cap (matched \X Decision) :
         p[2] \in alwaysLive => row[p[2]].status \in Live

ToldTrue ==
  stage \in HasAnswer =>
    \/ Cardinality(told) = ask.maxDecisions
    \/ told = {d \in Decision : row[d].status \in Live}

Verdicts ==
  stage = "answered" =>
    /\ told \cap ask.blocking \cap alwaysLive # {} => verdict = "stop"
    /\ told # {} => verdict # "no_decision"
    /\ Warned # {} => verdict # "clear"

Listed == stage = "listed" => Governs \cap alwaysLive \subseteq told

ContextInv == Watching /\ Found /\ RowsTrue /\ DoubtsTrue /\ ReplacementsTrue /\ ToldTrue
                /\ Verdicts /\ Listed

\* Watching holds by itself: a step either starts it or keeps only what still holds.
LEMMA WatchingStep == Watching /\ [ContextNext]_contextVars => Watching'
<1> SUFFICES ASSUME Watching, [ContextNext]_contextVars PROVE Watching'
  OBVIOUS
<1>1. CASE Start
  BY <1>1 DEF Start, StartWatching, Watching, vars, memory, LiveNow, RiskyNow, DoubtedNow,
     ReplacedNow, DoubtfulUnder
<1>2. CASE Continue \/ MemoryChanges
  BY <1>2 DEF Continue, MemoryChanges, KeepWatching, Watching
<1>3. CASE UNCHANGED contextVars
  BY <1>3 DEF contextVars, vars, memory, request, ghosts, Watching, LiveNow, RiskyNow,
     DoubtedNow, ReplacedNow, DoubtfulUnder
<1>4. QED
  BY <1>1, <1>2, <1>3 DEF ContextNext

\* A step that leaves the request alone only takes decisions out of the ghosts.
LEMMA GhostsShrink ==
  ASSUME ContextInv, KeepWatching, UNCHANGED request
  PROVE  Found' /\ RowsTrue' /\ DoubtsTrue' /\ ReplacementsTrue' /\ ToldTrue' /\ Verdicts' /\ Listed'
<1> USE DEF KeepWatching, request, ContextInv
<1>1. Found'
  BY DEF Found
<1>2. RowsTrue'
  BY DEF RowsTrue
<1>3. DoubtsTrue'
  BY DEF DoubtsTrue
<1>4. ReplacementsTrue'
  BY DEF ReplacementsTrue
<1>5. ToldTrue' /\ Listed'
  BY DEF ToldTrue, Listed
<1>6. Verdicts'
  BY DEF Verdicts, Warned
<1>7. QED
  BY <1>1, <1>2, <1>3, <1>4, <1>5, <1>6

\* Each read finds what has held since the first one, because it holds now.
LEMMA ReadsAgree ==
  ContextTypeOK /\ ContextInv /\ [ContextNext]_contextVars
    => Found' /\ RowsTrue' /\ DoubtsTrue' /\ ReplacementsTrue' /\ ToldTrue' /\ Verdicts' /\ Listed'
<1> DEFINE Goal ==
      Found' /\ RowsTrue' /\ DoubtsTrue' /\ ReplacementsTrue' /\ ToldTrue' /\ Verdicts' /\ Listed'
<1> SUFFICES ASSUME ContextTypeOK, ContextInv, [ContextNext]_contextVars PROVE Goal
  OBVIOUS
<1> USE DEF HasRows, HasDoubts, HasPulled, HasAnswer
<1>1. CASE Match /\ StartWatching
  BY <1>1 DEF Match, StartWatching, MatchedByResources, LiveNow, ReplacedNow, Live,
     Found, RowsTrue, DoubtsTrue, ReplacementsTrue, ToldTrue, Verdicts, Listed
<1>2. CASE MatchLive /\ StartWatching
  BY <1>2 DEF MatchLive, StartWatching, MatchedByResources, LiveNow,
     Found, RowsTrue, DoubtsTrue, ReplacementsTrue, ToldTrue, Verdicts, Listed
<1>3. ASSUME Continue PROVE Goal
  <2> USE DEF KeepWatching, LiveNow, RiskyNow, DoubtedNow, ReplacedNow
  <2>1. Continue /\ KeepWatching /\ Watching /\ vars' = vars
    BY <1>3 DEF Continue, ContextInv
  <2>2. status' = status /\ supersededBy' = supersededBy
    BY <2>1 DEF vars, memory
  <2>3. CASE ReadRows
    <3>1. \A d \in matched : row'[d] = RowOf(d)
      BY <2>3 DEF ReadRows, ReadInto, ContextTypeOK
    <3>2. \A d \in matched : row'[d].status = status[d] /\ row'[d].replacedBy = supersededBy[d]
      <4>1. \A d \in matched : RowOf(d).status = status[d] /\ RowOf(d).replacedBy = supersededBy[d]
        BY DEF RowOf
      <4>2. QED
        BY <3>1, <4>1
    <3>3. \A d \in alwaysLive' : status[d] \in Live /\ (d \in alwaysRisky' => status[d] \in Risky)
      BY <2>1, <2>3 DEF ReadRows, Watching
    <3>4. \A p \in alwaysReplaced' : status[p[1]] = "SUPERSEDED" /\ supersededBy[p[1]] = p[2]
      BY <2>1, <2>3 DEF ReadRows, Watching
    <3>5. \A p \in alwaysReplaced' \cap (matched \X Decision) : p[1] \in matched
      OBVIOUS
    <3>6. RowsTrue'
      BY <2>3, <3>2, <3>3, <3>4, <3>5 DEF ReadRows, RowsTrue
    <3>7. Found'
      BY <2>1, <2>3 DEF ReadRows, Found, ContextInv
    <3>8. QED
      BY <2>3, <3>6, <3>7 DEF ReadRows, DoubtsTrue, ReplacementsTrue, ToldTrue, Verdicts, Listed
  <2>4. CASE Hydrate
    <3>1. Found' /\ RowsTrue'
      BY <2>1, <2>4 DEF Hydrate, Found, RowsTrue, ContextInv
    <3>2. DoubtsTrue'
      BY <2>1, <2>4 DEF Hydrate, DoubtsTrue, Watching
    <3>3. \A p \in alwaysReplaced \cap (matched \X Decision) : p[2] \in matched \cup Replacements
      <4> SUFFICES ASSUME NEW p \in alwaysReplaced \cap (matched \X Decision), p[2] \notin matched
                   PROVE  p[2] \in Replacements
        OBVIOUS
      <4>1. row[p[1]].status = "SUPERSEDED" /\ row[p[1]].replacedBy = p[2]
        BY <2>4 DEF Hydrate, RowsTrue, ContextInv
      <4>2. p[2] # None
        BY SettingAssumption
      <4>3. QED
        BY <4>1, <4>2 DEF Replacements
    <3>4. ReplacementsTrue'
      BY <2>1, <2>4, <3>3 DEF Hydrate, ReplacementsTrue
    <3>5. QED
      BY <2>4, <3>1, <3>2, <3>4 DEF Hydrate, ToldTrue, Verdicts, Listed
  <2>5. CASE ReadReplacements
    <3>1. \A d \in Decision : row'[d] = IF d \in Pulled THEN RowOf(d) ELSE row[d]
      BY <2>5 DEF ReadReplacements, ReadInto
    <3>2. \A d \in Pulled : RowOf(d).status = status[d] /\ status[d] \in Live
      BY DEF Pulled, RowOf
    <3>3. Found' /\ DoubtsTrue'
      BY <2>1, <2>5 DEF ReadReplacements, Found, DoubtsTrue, ContextInv
    <3>4. RowsTrue'
      BY <2>1, <2>5, <3>1, <3>2 DEF ReadReplacements, RowsTrue, ContextInv, Watching, ContextTypeOK
    <3>5. ReplacementsTrue'
      <4> SUFFICES ASSUME NEW p \in alwaysReplaced \cap (matched \X Decision), p[2] \in alwaysLive
                   PROVE  row'[p[2]].status \in Live
        BY <2>1, <2>5 DEF ReadReplacements, ReplacementsTrue
      <4>1. p[2] \in Decision /\ status[p[2]] \in Live
        BY <2>1, <2>5 DEF Watching, ReadReplacements
      <4>2. CASE p[2] \in matched
        BY <2>5, <3>1, <3>2, <4>1, <4>2 DEF ReadReplacements, RowsTrue, ContextInv
      <4>3. CASE p[2] \in asked
        BY <3>1, <3>2, <4>1, <4>3 DEF Pulled
      <4>4. QED
        BY <2>5, <4>2, <4>3 DEF ReadReplacements, ReplacementsTrue, ContextInv
    <3>6. QED
      BY <2>5, <3>3, <3>4, <3>5 DEF ReadReplacements, ToldTrue, Verdicts, Listed
  <2>6. CASE HydrateReplacements
    BY <2>1, <2>6 DEF HydrateReplacements, ContextInv,
       Found, RowsTrue, DoubtsTrue, ReplacementsTrue, ToldTrue, Verdicts, Listed
  <2>7. CASE Tell
    <3>1. ToldTrue'
      BY <2>7, SliceFits DEF Tell, ToldTrue
    <3>2. QED
      BY <2>1, <2>7, <3>1 DEF Tell, ContextInv,
         Found, RowsTrue, DoubtsTrue, ReplacementsTrue, Verdicts, Listed
  <2>8. CASE Check
    <3>1. told \cap ask.blocking \cap alwaysLive # {} => Rechecked \cap ask.blocking # {}
      BY <2>1, <2>8 DEF Check, Rechecked, Watching
    <3>2. Verdicts'
      BY <2>1, <2>8, <3>1 DEF Check, Verdicts, VerdictOf, Warned
    <3>3. QED
      BY <2>1, <2>8, <3>2 DEF Check, ContextInv,
         Found, RowsTrue, DoubtsTrue, ReplacementsTrue, ToldTrue, Listed
  <2>9. CASE ListConstraints
    <3>1. Listed'
      BY <2>1, <2>9 DEF ListConstraints, Listed, Found, ContextInv, Watching
    <3>2. QED
      BY <2>9, <3>1 DEF ListConstraints, Found, RowsTrue, DoubtsTrue, ReplacementsTrue, ToldTrue, Verdicts
  <2>10. CASE Leave
    BY <2>10 DEF Leave, Found, RowsTrue, DoubtsTrue, ReplacementsTrue, ToldTrue, Verdicts, Listed
  <2>11. QED
    BY <1>3, <2>3, <2>4, <2>5, <2>6, <2>7, <2>8, <2>9, <2>10 DEF Continue
<1>4. CASE MemoryChanges
  BY <1>4, GhostsShrink DEF MemoryChanges
<1>5. CASE UNCHANGED contextVars
  BY <1>5 DEF contextVars, request, ghosts, ContextInv, Warned,
     Found, RowsTrue, DoubtsTrue, ReplacementsTrue, ToldTrue, Verdicts, Listed
<1>6. QED
  BY <1>1, <1>2, <1>3, <1>4, <1>5 DEF ContextNext, Start

\* The two kinds of facts together are inductive.
LEMMA ContextInvariant == ContextSpec => []ContextInv
<1>1. ContextInit => ContextInv
  BY DEF ContextInit, ContextInv, Watching, Found, RowsTrue, DoubtsTrue, ReplacementsTrue,
     ToldTrue, Verdicts, Listed, HasRows, HasDoubts, HasPulled, HasAnswer
<1>2. ContextTypeOK /\ ContextInv /\ [ContextNext]_contextVars => ContextInv'
  BY WatchingStep, ReadsAgree DEF ContextInv
<1>3. QED
  BY <1>1, <1>2, ContextTypes, PTL DEF ContextSpec

\* Unless the answer is full, every decision in it that was found, was live all
\* along and governs the action is told.
LEMMA LiveIsTold ==
  ASSUME ContextTypeOK, ContextInv, stage = "answered", ~ Full
  PROVE  /\ Governs \cap alwaysLive \subseteq told
         /\ \A d \in told : row[d].status \in Live
         /\ \A d \in Decision : row[d].status \in Live => d \in told
<1>1. told = {d \in Decision : row[d].status \in Live}
  BY DEF ContextInv, ToldTrue, HasAnswer, Full
<1>2. \A d \in Governs \cap alwaysLive : d \in matched /\ row[d].status \in Live
  BY DEF ContextInv, Found, RowsTrue, HasRows
<1>3. QED
  BY <1>1, <1>2, AskAssumption

\* No answer leaves out a decision that governed the action throughout, unless
\* the caller's budget is used up.
THEOREM GoverningTold == ContextSpec => []GoverningIsTold
<1>1. ContextTypeOK /\ ContextInv => GoverningIsTold
  BY LiveIsTold DEF GoverningIsTold, ContextInv, Listed
<1>2. QED
  BY <1>1, ContextTypes, ContextInvariant, PTL

\* An action that breaks a blocking constraint of such a decision is stopped.
THEOREM StopTold == ContextSpec => []StopNotMissed
<1>1. ContextTypeOK /\ ContextInv => StopNotMissed
  BY LiveIsTold DEF StopNotMissed, ContextInv, Verdicts
<1>2. QED
  BY <1>1, ContextTypes, ContextInvariant, PTL

\* No answer is clear while such a decision was in doubt throughout.
THEOREM DoubtTold == ContextSpec => []DoubtIsTold
<1>1. ASSUME ContextTypeOK, ContextInv, stage = "answered", ~ Full,
             NEW d \in Governs \cap alwaysLive \cap (alwaysRisky \cup alwaysDoubted)
      PROVE  verdict \notin {"clear", "no_decision"}
  <2>1. d \in told /\ d \in matched
    BY <1>1, LiveIsTold DEF ContextInv, Found
  <2>2. row[d].status \in Risky \/ d \in doubted
    BY <1>1, <2>1 DEF ContextInv, RowsTrue, DoubtsTrue, HasRows, HasDoubts
  <2>3. d \in Warned
    BY <2>1, <2>2 DEF Warned
  <2>4. QED
    BY <1>1, <2>1, <2>3 DEF ContextInv, Verdicts
<1>2. ContextTypeOK /\ ContextInv => DoubtIsTold
  BY <1>1 DEF DoubtIsTold
<1>3. QED
  BY <1>2, ContextTypes, ContextInvariant, PTL

\* The decision that replaced a superseded one is told in its place.
THEOREM ReplacementTold == ContextSpec => []ReplacementGoverns
<1>1. ASSUME ContextTypeOK, ContextInv, stage = "answered", ~ Full,
             NEW p \in alwaysReplaced, p[1] \in Governs, p[2] \in alwaysLive
      PROVE  p[2] \in told
  <2>1. p \in Decision \X Decision /\ p[1] \in matched
    BY <1>1 DEF ContextTypeOK, ContextInv, Found
  <2>2. p \in matched \X Decision
    BY <2>1
  <2>3. row[p[2]].status \in Live
    BY <1>1, <2>2 DEF ContextInv, ReplacementsTrue, HasPulled, HasDoubts, HasRows
  <2>4. QED
    BY <1>1, <2>1, <2>3, LiveIsTold
<1>2. ContextTypeOK /\ ContextInv => ReplacementGoverns
  BY <1>1 DEF ReplacementGoverns
<1>3. QED
  BY <1>2, ContextTypes, ContextInvariant, PTL
=============================================================================
