----------------------------- MODULE MCServerConn -----------------------------
(***************************************************************************)
(* Server lists for TLC: empty, of one server, of three, and of two with   *)
(* one of them entered twice.                                              *)
(***************************************************************************)
EXTENDS ServerConn

CONSTANTS a, b, c

MCLists == {<< >>, <<a>>, <<a, b, c>>, <<b, a, b>>}
=============================================================================
