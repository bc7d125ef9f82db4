---------------------------- MODULE MCTrucoTable ----------------------------
(* A small instance of the truco table for TLC: three of the five levels. *)
EXTENDS TrucoTable, TLC

MCContributions == <<1, 2, 3>>
=============================================================================
