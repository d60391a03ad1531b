------------------------------ MODULE NodeNames -------------------------------
(***************************************************************************)
(* The names of the rows of the nodes table, as the modules about the      *)
(* tables and about scheduling share them.                                 *)
(***************************************************************************)
CONSTANTS
    Nodes,              \* (hostname, address) pairs of workers
    NoNode              \* NULL assigned_node_id; a task that stays pending

ASSUME NoNodeAssumption == NoNode \notin Nodes
===============================================================================
