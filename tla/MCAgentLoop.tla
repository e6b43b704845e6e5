---------------------------- MODULE MCAgentLoop ----------------------------
(* Small instances of AgentLoop; the configurations give the values.          *)
(* agent_loop has one objective with criteria of every kind that bears on the *)
(* properties; SayMore brings the turns in which only some are left. It       *)
(* offers one tool of each kind: inspections, validations and applications    *)
(* come from the loop itself.                                                 *)
EXTENDS AgentLoop

(* Each objective has several criteria, so that the loop has to go on after   *)
(* the first of them has its evidence.                                        *)
ASSUME ObjectivesAreCompound == \A wants \in Objectives : Cardinality(wants) > 1
=============================================================================
