----------------------------- MODULE MCEnemySight -----------------------------
(* Obstacles of a small level for EnemySight.                              *)
EXTENDS EnemySight

Ledge  == {<<13, 16, 32, 20>>, <<25, 7, 27, 9>>}
Blocks2 == {<<9, 13>>, <<14, 2>>}
=============================================================================
