----------------------------- MODULE DecisionGraph -----------------------------
(***************************************************************************)
(* What else might be affected if a decision changes: the traversal of     *)
(* recorded dependencies (services/graph.ts), hop by hop, while decisions  *)
(* go on being recorded.  A decision names those it depends on when it is  *)
(* created; superseding and marking a duplicate add rows that are history  *)
(* and not dependency.  Rows that name an assumption are in the schema     *)
(* but nothing writes them.                                                *)
(***************************************************************************)
EXTENDS Integers, FiniteSets, FiniteSetsExt, SequencesExt

CONSTANTS
  Node,       \* decisions
  MaxDepth,   \* hops that are followed
  ListLimit,  \* rows listDecisions returns at most
  MaxHistory  \* bound on the rows that are history

ASSUME GraphAssumption == {MaxDepth, ListLimit, MaxHistory} \subseteq Nat \ {0}

VARIABLES
  recorded,   \* the decisions, in the order they were created
  dependency, \* decision_dependencies: who depends on whom
  history,    \* and the rows that are history
  traversal   \* the traversal under way, or the last answer

\* Ghosts.
VARIABLES
  askedAt,    \* how many decisions there were when the traversal started
  clipped     \* a hop found more decisions than are listed

graphVars == <<recorded, dependency, history, traversal, askedAt, clipped>>

NoAnswer == [phase |-> "none", root |-> 0, depth |-> 0, found |-> {}, edges |-> {},
             frontier |-> {}, truncated |-> FALSE]

GraphTypeOK ==
  /\ recorded \in Seq(Node) /\ IsInjective(recorded)
  /\ dependency \cup history \subseteq ToSet(recorded) \X ToSet(recorded)
  /\ traversal = NoAnswer \/
     traversal \in [phase : {"hop", "answered"}, root : ToSet(recorded), depth : 1..(MaxDepth + 1),
                    found : SUBSET (ToSet(recorded) \X (0..MaxDepth)), edges : SUBSET dependency,
                    frontier : SUBSET ToSet(recorded), truncated : BOOLEAN]
  /\ askedAt \in 0..Len(recorded) /\ clipped \in BOOLEAN

GraphInit ==
  /\ recorded = <<>> /\ dependency = {} /\ history = {}
  /\ traversal = NoAnswer
  /\ askedAt = 0 /\ clipped = FALSE

------------------------------------------------------------------------------
(* The decisions.                                                          *)

\* propose and create, with dependsOn.
RecordDecision(d) ==
  /\ d \notin ToSet(recorded)
  /\ recorded' = Append(recorded, d)
  /\ \E on \in SUBSET ToSet(recorded) : dependency' = dependency \cup ({d} \X on)
  /\ UNCHANGED <<history, traversal, askedAt, clipped>>

\* supersede and mark_duplicate: any decision may point at any other.
RecordHistory(d, e) ==
  /\ {d, e} \subseteq ToSet(recorded) /\ d # e
  /\ Cardinality(history) < MaxHistory
  /\ history' = history \cup {<<d, e>>}
  /\ UNCHANGED <<recorded, dependency, traversal, askedAt, clipped>>

------------------------------------------------------------------------------
(* The traversal.                                                          *)

Ask(d) ==
  /\ traversal.phase # "hop"
  /\ d \in ToSet(recorded)
  /\ traversal' = [phase |-> "hop", root |-> d, depth |-> 1, found |-> {<<d, 0>>}, edges |-> {},
                   frontier |-> {d}, truncated |-> FALSE]
  /\ askedAt' = Len(recorded) /\ clipped' = FALSE
  /\ UNCHANGED <<recorded, dependency, history>>

\* Mutant: history counts as dependency.
AllRows == dependency \cup history

Dependencies == dependency

Found == {n[1] : n \in traversal.found}

\* What one hop reads, and the decisions it has not seen.
HopEdges == {e \in Dependencies : e[2] \in traversal.frontier}
NewlyFound == {e[1] : e \in HopEdges} \ Found

\* listDecisions returns the first ListLimit rows in an order that changes with every update.
Listings(S) == IF Cardinality(S) <= ListLimit THEN {S} ELSE kSubset(ListLimit, S)

\* Mutant: the last hop is not reported.
NeverTruncated(loaded) == FALSE

Truncates(loaded) == traversal.depth = MaxDepth /\ loaded # {}

\* A hop that finds nothing new ends the traversal; otherwise it goes on until MaxDepth.
Hop ==
  /\ traversal.phase = "hop"
  /\ \E loaded \in Listings(NewlyFound) :
       traversal' = [traversal EXCEPT
         !.edges = @ \cup HopEdges,
         !.found = @ \cup (loaded \X {traversal.depth}),
         !.frontier = loaded,
         !.truncated = Truncates(loaded),
         !.depth = @ + 1,
         !.phase = IF loaded = {} \/ traversal.depth = MaxDepth THEN "answered" ELSE "hop"]
  /\ clipped' = (clipped \/ Cardinality(NewlyFound) > ListLimit)
  /\ UNCHANGED <<recorded, dependency, history, askedAt>>

GraphNext ==
  \/ \E d \in Node : RecordDecision(d) \/ Ask(d)
  \/ \E d, e \in Node : RecordHistory(d, e)
  \/ Hop

GraphSpec == GraphInit /\ [][GraphNext]_graphVars

------------------------------------------------------------------------------
(* What must hold.                                                         *)

\* Reference: the chains of dependencies that lead from a decision to the root.
Chain(d, r, D) ==
  {s \in UNION {[0..n -> D] : n \in 0..(Cardinality(D) - 1)} :
     LET n == Cardinality(DOMAIN s) - 1
     IN /\ s[0] = d /\ s[n] = r
        /\ \A i \in 0..(n - 1) : <<s[i], s[i + 1]>> \in dependency}

Depends(d, r, D)  == Chain(d, r, D) # {}
Distance(d, r, D) == Min({Cardinality(DOMAIN s) - 1 : s \in Chain(d, r, D)})

Known == {recorded[i] : i \in 1..askedAt}

\* Every decision the answer names depends on the root, and one that was recorded when
\* the question was asked is named at its distance from it.  The answer names all of
\* those within reach, whatever is recorded meanwhile, and unless it says it is truncated
\* all of those that depend on the root at all.  A hop beyond the limit on listed rows
\* voids this.
BlastRadiusComplete ==
  traversal.phase = "answered" /\ ~clipped =>
    LET r == traversal.root IN
    /\ \A n \in traversal.found :
         /\ Depends(n[1], r, ToSet(recorded))
         /\ n[1] \in Known => n[2] = Distance(n[1], r, Known)
    /\ \A d \in Known :
         Depends(d, r, Known) /\ (Distance(d, r, Known) <= MaxDepth \/ ~traversal.truncated) => d \in Found
================================================================================
