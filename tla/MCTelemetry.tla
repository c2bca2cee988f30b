----------------------------- MODULE MCTelemetry -----------------------------
(***************************************************************************)
(* One page between two tiers, migrations that end OK, three of each event *)
(* and two reports: enough for an update to be overtaken by every event it *)
(* may miss.  Of the two ports one may be taken by a server that a stop    *)
(* left behind.                                                            *)
(***************************************************************************)
EXTENDS Telemetry
=============================================================================
