---------------------------- MODULE RunLifecycle ----------------------------
(***************************************************************************)
(* What one isolated BSAM run promises to whoever reads its output         *)
(* directory (src/bsam_agent/run.py), without saying how the supervisor,   *)
(* the stop commands and the solver reach it.                              *)
(*                                                                         *)
(* The phase is the "state" field of run-manifest.json ("absent" while     *)
(* there is no manifest), the verdict its "classification".                *)
(***************************************************************************)

VARIABLES
    phase,     \* what the manifest says the run is doing
    process,   \* the BSAM process of this output directory
    success,   \* the finished process left the full evidence of success
    asked,     \* a complete stop request is on disk
    verdict    \* the classification the manifest reports

lifeVars == <<phase, process, success, asked, verdict>>

Phases == {"absent", "starting", "running", "terminal"}
Verdicts == {"pending", "succeeded", "stopped", "failed", "unknown"}

LifeTypeOK ==
    /\ phase \in Phases
    /\ process \in {"none", "running", "exited"}
    /\ success \in BOOLEAN
    /\ asked \in BOOLEAN
    /\ verdict \in Verdicts

LifeInit ==
    /\ phase = "absent"
    /\ process = "none"
    /\ success = FALSE
    /\ asked = FALSE
    /\ verdict = "pending"

(* The directory is reserved and its first manifest appears. *)
Announce ==
    /\ phase = "absent" /\ process = "none"
    /\ phase' = "starting"
    /\ UNCHANGED <<process, success, asked, verdict>>

(* The solver starts, once. *)
Launch ==
    /\ phase = "starting" /\ process = "none"
    /\ process' = "running"
    /\ UNCHANGED <<phase, success, asked, verdict>>

(* The manifest names the process. *)
ReportRunning ==
    /\ phase = "starting" /\ process # "none"
    /\ phase' = "running"
    /\ UNCHANGED <<process, success, asked, verdict>>

(* A stop request becomes complete; it can be asked only of an announced run. *)
Ask ==
    /\ phase # "absent" /\ ~asked
    /\ asked' = TRUE
    /\ UNCHANGED <<phase, process, success, verdict>>

(* The solver ends, of itself or terminated. *)
Finish ==
    /\ process = "running"
    /\ process' = "exited"
    /\ success' \in BOOLEAN
    /\ UNCHANGED <<phase, asked, verdict>>

(* The manifest becomes terminal, with a verdict that the evidence allows. *)
Justified(v) ==
    \/ v = "succeeded" /\ process = "exited" /\ success
    \/ v = "stopped" /\ process = "exited" /\ ~success /\ asked
    \/ v = "unknown" /\ process = "exited" /\ ~success
    \/ v = "failed"

Conclude ==
    /\ phase \in {"starting", "running"} /\ process # "running"
    /\ phase' = "terminal"
    /\ \E v \in Verdicts : Justified(v) /\ verdict' = v
    /\ UNCHANGED <<process, success, asked>>

LifeNext == Announce \/ Launch \/ ReportRunning \/ Ask \/ Finish \/ Conclude

LifeSpec == LifeInit /\ [][LifeNext]_lifeVars
=============================================================================
