------------------------ MODULE MCSourceSupervisor ------------------------
(***************************************************************************)
(* An instance of SourceSupervisor for TLC.                                *)
(***************************************************************************)
EXTENDS SourceSupervisor

CONSTANTS s1, s2

\* One source whose requests end in every way, one with pages for a rollover
\* and a disturbance more, and two that share a connection.
MCEnvironments ==
    {[sources |-> {s1}, outcomes |-> Outcomes,
      pages |-> 1, faults |-> 2, watched |-> TRUE],
     [sources |-> {s1}, outcomes |-> {"captured"},
      pages |-> 2, faults |-> 3, watched |-> FALSE],
     [sources |-> {s1, s2}, outcomes |-> {"captured", "connection_action_required"},
      pages |-> 1, faults |-> 1, watched |-> FALSE]}
=============================================================================
