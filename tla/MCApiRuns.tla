------------------------------ MODULE MCApiRuns -----------------------------
(* Small instances of ApiRuns. *)
EXTENDS ApiRuns, TLC

CONSTANTS a1, a2, c1, c2, w1

OneStart == {a1}
TwoStarts == {a1, a2}
OneStop == {c1}
TwoStops == {c1, c2}
OneRead == {w1}

AllFaults == ServiceFaults
NoFaults == {}

(* Requests of one kind are interchangeable. *)
Symmetry == Permutations(TwoStarts) \cup Permutations(TwoStops)
=============================================================================
