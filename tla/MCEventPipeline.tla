-------------------------- MODULE MCEventPipeline ---------------------------
(* Small deployments for model checking EventPipeline.  The limits keep the *)
(* order of the code's: five attempts of at most 30 seconds' polling and 32 *)
(* seconds' backoff end before the ten minutes of a takeover, and those      *)
(* before the thirty of a lock.                                             *)
EXTENDS EventPipeline

CONSTANTS e1, e2, e3, q1, q2, w1, w2

\* An event comes from one source, however often it is delivered.
EitherSource == [q \in Request |-> {<<"document", e1>>, <<"webhook", e2>>}]
Uploaded    == [q \in Request |-> {<<"document", e1>>}]
Submitted   == [q \in Request |-> {<<"api", e3>>}]
Everyone    == Request \cup Worker
=============================================================================
