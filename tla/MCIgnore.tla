------------------------------ MODULE MCIgnore ------------------------------
(***************************************************************************)
(* Nodes are all alike for TLC, and so are hosts.                          *)
(***************************************************************************)
EXTENDS Ignore, TLC

MCAlike == Permutations(Node) \cup Permutations(Host)
================================================================================
