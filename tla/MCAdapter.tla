------------------------------ MODULE MCAdapter ------------------------------
(***************************************************************************)
(* A small instance of Adapter for TLC: one author who writes a message    *)
(* and a command.                                                          *)
(***************************************************************************)
EXTENDS Adapter

CONSTANTS p1, c1, u1

MCAuthor == [id \in {p1, c1} |-> u1]
=============================================================================
