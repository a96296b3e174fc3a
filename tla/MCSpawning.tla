----------------------------- MODULE MCSpawning -----------------------------
(* Small instances of Spawning for TLC. *)
EXTENDS Spawning, TLC

CONSTANTS a1, s1, s2

OneAgent == {a1}
TwoSubagents == {s1, s2}
=============================================================================
