-------------------------- MODULE MCRunSupervisor ---------------------------
(* Small instances of RunSupervisor. *)
EXTENDS RunSupervisor, TLC

CONSTANTS r1, r2, u1, u2, w1

OneRun == {r1}
TwoRuns == {r1, r2}
NoUser == {}
OneUser == {u1}
TwoUsers == {u1, u2}
NoWatcher == {}
OneWatcher == {w1}

(* One result per branch of classify_run, with a stale sentinel beside a     *)
(* fatal marker as the hardest of the failures.                              *)
FourResults == {[zero |-> TRUE, sentinel |-> TRUE, fatal |-> FALSE],
                [zero |-> TRUE, sentinel |-> TRUE, fatal |-> TRUE],
                [zero |-> FALSE, sentinel |-> FALSE, fatal |-> FALSE],
                [zero |-> TRUE, sentinel |-> FALSE, fatal |-> FALSE]}
TwoResults == {[zero |-> TRUE, sentinel |-> TRUE, fatal |-> FALSE],
               [zero |-> FALSE, sentinel |-> FALSE, fatal |-> FALSE]}

AllFaults == FaultKinds
NoFaults == {}
Crashes == {"crash"}

(* Users are interchangeable, and so are `run` commands. *)
Symmetry == Permutations(TwoUsers) \cup Permutations(TwoRuns)
=============================================================================
