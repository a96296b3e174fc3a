---------------------------- MODULE MCDelegation ----------------------------
(* A small instance of Delegation for TLC. *)
EXTENDS Delegation, TLC

CONSTANTS j1, c1, s1, s2

OneJob == {j1}
OneChat == {c1}
TwoSubagents == {s1, s2}
=============================================================================
