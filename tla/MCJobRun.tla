------------------------------ MODULE MCJobRun ------------------------------
(* Small instances of JobRun for TLC. *)
EXTENDS JobRun, TLC

CONSTANTS r1, r2, r3, c1, c2

TwoRuns == {r1, r2}
ThreeRuns == {r1, r2, r3}
NoClients == {}
OneClient == {c1}
TwoClients == {c1, c2}

\* bootstrap_deps stands for the phases with can_skip.
FirstSkippable == {1}
NoneSkippable == {}

\* Where two phases are enough, the first is coordinator_spawn.
FirstCatches == {1}
NoneCatches == {}

Symmetry == Permutations(Runs) \union Permutations(Clients)

\* The states that the run of overlapping resumes tells apart: nothing but tracker
\* depends on tracker, whatever reads status or seen takes failed for cancelled,
\* and the properties of that run read none of the three.
Stopped(s) == IF s = "failed" THEN "cancelled" ELSE s
WithoutTracker ==
    <<Stopped(status), [r \in Runs |-> Stopped(seen[r])], signal, checkpoint, origin, task, phase,
      watch, timedOut, resumedFrom, request, errors, crashes>>
=============================================================================
