------------------------------- MODULE MCWorld -------------------------------
(* World with one requirement of each kind for every gate, for TLC. *)
EXTENDS World

LevelNeeds == [g \in Gate |-> [coins |-> 1, blocks |-> 1, enemies |-> 1]]
=============================================================================
