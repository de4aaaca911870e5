------------------------------- MODULE Contents ------------------------------
(***************************************************************************)
(* The three writers of osd_vars (src/osd.h) side by side.  They share no  *)
(* state, so that a step of one is no step of another and their order does *)
(* not matter: part says which one takes steps.                            *)
(***************************************************************************)
EXTENDS DisplayStats, LinkRate, Telemetry

VARIABLE part

contentsVars == <<statsVars, linkVars, telemetryVars, part>>

Parts == {"stats", "link", "telemetry"}

Init == StatsInit /\ LinkInit /\ TelemetryInit /\ part \in Parts

Next ==
  \/ part = "stats" /\ StatsNext /\ UNCHANGED <<linkVars, telemetryVars, part>>
  \/ part = "link" /\ LinkNext /\ UNCHANGED <<statsVars, telemetryVars, part>>
  \/ part = "telemetry" /\ TelemetryNext /\ UNCHANGED <<statsVars, linkVars, part>>

Spec == Init /\ [][Next]_contentsVars

\* The types of the three parts (osd_vars, osd.h:8-67); the index of latency_avg
\* stays inside it for as many pictures in a period as are assumed.
TypeOK == StatsTypeOK /\ LinkTypeOK /\ TelemetryTypeOK /\ part \in Parts
=============================================================================
