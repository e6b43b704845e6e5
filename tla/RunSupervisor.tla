---------------------------- MODULE RunSupervisor ---------------------------
(***************************************************************************)
(* One output directory of src/bsam_agent/run.py: the `run` commands that  *)
(* want to own it (run_bsam), the `stop` commands (request_run_stop), the  *)
(* `status` commands (run_status) and the external BSAM solver.            *)
(*                                                                         *)
(* Every file operation that another process can interleave with is one    *)
(* step: the exclusive creation of stop-request.json and the writing of    *)
(* its body are two, a manifest replacement is one, and a reader holds the *)
(* manifest open between two of its own steps.                             *)
(***************************************************************************)
EXTENDS Naturals, FiniteSets

CONSTANTS
    Supervisors,   \* `run` commands started for this output directory
    Stoppers,      \* `stop` commands, one request each
    Watchers,      \* `status` commands, one read each
    Results,       \* what a finished solver leaves: exit code and log evidence
    HasTimeout,    \* timeout_seconds > 0
    NoGrace,       \* stop_grace_seconds <= 0
    Faults         \* the environment faults of this instance, see FaultKinds

(* "io"      a file operation of the supervisor raises OSError               *)
(* "crash"   a supervisor or a stop command is killed between two steps      *)
(* "sharing" a file that another process holds open cannot be replaced, as   *)
(*           on Windows, the platform the supervisor is written for          *)
(* "slow"    the ten reads of _load_json_object, 20 ms apart, may all fall   *)
(*           between the creation of a stop request and its body             *)
FaultKinds == {"io", "crash", "sharing", "slow"}

Clients == Stoppers \cup Watchers
Procs == Supervisors \cup Clients

ASSUME SupervisorAssumption ==
    /\ Supervisors \cap Clients = {}
    /\ Stoppers \cap Watchers = {}
    /\ Results \subseteq [zero : BOOLEAN, sentinel : BOOLEAN, fatal : BOOLEAN]
    /\ Results # {}
    /\ HasTimeout \in BOOLEAN
    /\ NoGrace \in BOOLEAN
    /\ Faults \subseteq FaultKinds

VARIABLES
    dirMade,    \* the output directory exists
    manifest,   \* run-manifest.json, state "absent" while there is none
    stopFile,   \* stop-request.json: absent, created but empty, or its reason
    exitFile,   \* <deck>.exit: absent, 0 (continue) or 2 (stop)
    bsam,       \* the solver process
    pc,         \* where each command is
    local,      \* the local variables of each run_bsam
    due,        \* the deadlines of each run_bsam that the clock has passed
    snap,       \* manifest state that each client has read
    reply       \* what each client will report

vars == <<dirMade, manifest, stopFile, exitFile, bsam, pc, local, due, snap, reply>>
files == <<dirMade, manifest, stopFile, exitFile>>
clientVars == <<snap, reply>>

-----------------------------------------------------------------------------
(* Data *)

ManifestStates == {"absent", "starting", "running", "terminal"}
Classes == {"pending", "succeeded", "stopped", "failed", "unknown"}
Reasons == {"user", "timeout"}

NoManifest == [state |-> "absent", class |-> "pending", reason |-> "none",
               timedOut |-> FALSE, escalated |-> FALSE, error |-> FALSE]

(* What run_bsam decides from a finished solver: the end sentinel without a  *)
(* fatal marker and with exit code zero is success whatever else happened.   *)
Evidence(r) == r.sentinel /\ ~r.fatal /\ r.zero

(* slip: a stop request hides complete evidence of success *)
ClassifyStopFirst(r, stopRequested) ==
    IF stopRequested THEN "stopped"
    ELSE IF Evidence(r) THEN "succeeded"
    ELSE IF r.fatal \/ ~r.zero THEN "failed"
    ELSE "unknown"

Classify(r, stopRequested) ==
    IF Evidence(r) THEN "succeeded"
    ELSE IF stopRequested THEN "stopped"
    ELSE IF r.fatal \/ ~r.zero THEN "failed"
    ELSE "unknown"

Requested == stopFile \in Reasons
Alive == bsam.state = "running"

LoopPcs == {"poll", "checkStop", "openTimeout", "writeTimeout", "rereadTimeout",
            "stopping", "terminate"}
TryPcs == {"spawn", "writeRunning"} \cup LoopPcs
OwnerPcs == {"writeStarting", "killing", "writeFailed", "collect", "writeTerminal"} \cup TryPcs
EndPcs == {"returned", "raised", "crashed"}
SupervisorPcs == {"preflight", "mkdir", "refused"} \cup OwnerPcs \cup EndPcs
ClientPcs == {"idle", "loading", "checking", "opening", "writing", "rereading",
              "signalling", "done", "crashed"}

NoLocal == [now |-> {}, graceSet |-> FALSE, timedOut |-> FALSE,
            escalated |-> FALSE, seen |-> "none"]

(* Reading a stop request succeeds once its body is written, and fails when  *)
(* ten attempts have seen an empty file: its writer is dead, or slow.        *)
WriterAlive == \/ \E c \in Stoppers : pc[c] = "writing"
               \/ \E s \in Supervisors : pc[s] = "writeTimeout"
ReadFailsAtOnce == stopFile = "partial"   \* slip: a single attempt

ReadFails == stopFile = "partial" /\ (~WriterAlive \/ "slow" \in Faults)

(* os.replace of the manifest *)
CanReplace == \/ "sharing" \notin Faults
              \/ \A c \in Clients : pc[c] # "loading"

Init ==
    /\ dirMade = FALSE
    /\ manifest = NoManifest
    /\ stopFile = "absent"
    /\ exitFile = "absent"
    /\ bsam = [state |-> "none", opened |-> FALSE,
                result |-> [zero |-> FALSE, sentinel |-> FALSE, fatal |-> FALSE]]
    /\ pc = [p \in Procs |-> IF p \in Supervisors THEN "preflight" ELSE "idle"]
    /\ local = [s \in Supervisors |-> NoLocal]
    /\ due = [s \in Supervisors |-> {}]
    /\ snap = [c \in Clients |-> "absent"]
    /\ reply = [c \in Clients |-> "none"]

Goto(p, from, to) == pc[p] = from /\ pc' = [pc EXCEPT ![p] = to]

-----------------------------------------------------------------------------
(* Slips: the forms that plausible mistakes would give to the operations     *)
(* below. No action uses them; every property is known to reject one.        *)

(* mkdir(exist_ok=True) *)
MakeDirectoryExistOk(s) ==
    /\ Goto(s, "mkdir", "writeStarting")
    /\ dirMade' = TRUE
    /\ UNCHANGED <<manifest, stopFile, exitFile, bsam, local, due, clientVars>>

(* the clock is sampled once, before the loop *)
PollKeepsClock(s) ==
    /\ Alive
    /\ Goto(s, "poll", "checkStop")
    /\ UNCHANGED <<files, bsam, local, due, clientVars>>

(* the timeout is noted, its request not created *)
TimesOutUnrecorded(s) ==
    /\ stopFile = "absent" /\ "timeout" \in local[s].now
    /\ Goto(s, "checkStop", "stopping")
    /\ local' = [local EXCEPT ![s].timedOut = TRUE]
    /\ UNCHANGED <<files, bsam, due, clientVars>>

(* open("w") *)
OpenTimeoutRequestOver(s) ==
    /\ Goto(s, "openTimeout", "writeTimeout")
    /\ stopFile' = "partial"
    /\ UNCHANGED <<dirMade, manifest, exitFile, bsam, local, due, clientVars>>

(* the value is asserted in the first iteration only *)
AssertStopOnce(s) ==
    LET over == NoGrace \/ "grace" \in local[s].now
    IN  /\ Goto(s, "stopping", IF over THEN "terminate" ELSE "poll")
        /\ exitFile' = IF local[s].graceSet THEN exitFile ELSE "two"
        /\ local' = [local EXCEPT ![s] =
               [local[s] EXCEPT !.graceSet = TRUE, !.escalated = local[s].escalated \/ over]]
        /\ UNCHANGED <<dirMade, manifest, stopFile, bsam, due, clientVars>>

(* the failure is recorded, the solver left running *)
KillSolverForgotten(s) ==
    /\ Goto(s, "killing", "writeFailed")
    /\ UNCHANGED <<files, bsam, local, due, clientVars>>

(* open("w") *)
OpenRequestOver(c) ==
    /\ Goto(c, "opening", "writing")
    /\ stopFile' = "partial"
    /\ UNCHANGED <<dirMade, manifest, exitFile, bsam, local, due, clientVars>>

-----------------------------------------------------------------------------
(* run_bsam: what happens before the directory exists *)

(* Deck, executable, fingerprint or source-set diagnostics refuse the run,   *)
(* or the directory is there already.                                        *)
PreflightRefuses(s) ==
    /\ Goto(s, "preflight", "refused")
    /\ UNCHANGED <<files, bsam, local, due, clientVars>>

PreflightPasses(s) ==
    /\ ~dirMade
    /\ Goto(s, "preflight", "mkdir")
    /\ UNCHANGED <<files, bsam, local, due, clientVars>>

(* mkdir(parents=False) is the reservation: it fails for all but one. *)
MakeDirectory(s) ==
    /\ ~dirMade
    /\ Goto(s, "mkdir", "writeStarting")
    /\ dirMade' = TRUE
    /\ UNCHANGED <<manifest, stopFile, exitFile, bsam, local, due, clientVars>>

DirectoryTaken(s) ==
    /\ dirMade
    /\ Goto(s, "mkdir", "refused")
    /\ UNCHANGED <<files, bsam, local, due, clientVars>>

(* The first manifest replaces nothing, so no reader can be in its way. *)
WriteStarting(s) ==
    /\ Goto(s, "writeStarting", "spawn")
    /\ manifest' = [NoManifest EXCEPT !.state = "starting"]
    /\ UNCHANGED <<dirMade, stopFile, exitFile, bsam, local, due, clientVars>>

-----------------------------------------------------------------------------
(* run_bsam: inside the try block *)

Spawn(s) ==
    /\ Goto(s, "spawn", "writeRunning")
    /\ bsam' = [bsam EXCEPT !.state = "running"]
    /\ UNCHANGED <<files, local, due, clientVars>>

(* Popen raises: the executable cannot be started. *)
SpawnFails(s) ==
    /\ Goto(s, "spawn", "killing")
    /\ UNCHANGED <<files, bsam, local, due, clientVars>>

WriteRunning(s) ==
    /\ CanReplace
    /\ Goto(s, "writeRunning", "poll")
    /\ manifest' = [manifest EXCEPT !.state = "running"]
    /\ UNCHANGED <<dirMade, stopFile, exitFile, bsam, local, due, clientVars>>

WriteRunningBlocked(s) ==
    /\ ~CanReplace
    /\ Goto(s, "writeRunning", "killing")
    /\ UNCHANGED <<files, bsam, local, due, clientVars>>

(* process.poll(), or the process.wait(0.25) that ends an iteration, sees    *)
(* the exit; otherwise the clock is sampled before the stop request is read. *)
PollSeesExit(s) ==
    /\ bsam.state = "exited"
    /\ Goto(s, "poll", "collect")
    /\ UNCHANGED <<files, bsam, local, due, clientVars>>

PollSamplesClock(s) ==
    /\ Alive
    /\ Goto(s, "poll", "checkStop")
    /\ local' = [local EXCEPT ![s].now = due[s]]
    /\ UNCHANGED <<files, bsam, due, clientVars>>

(* _read_stop_request and the timeout test that follows it *)
NoStopYet(s) ==
    /\ stopFile = "absent" /\ "timeout" \notin local[s].now
    /\ Goto(s, "checkStop", "poll")
    /\ UNCHANGED <<files, bsam, local, due, clientVars>>

TimesOut(s) ==
    /\ stopFile = "absent" /\ "timeout" \in local[s].now
    /\ Goto(s, "checkStop", "openTimeout")
    /\ local' = [local EXCEPT ![s].timedOut = TRUE]
    /\ UNCHANGED <<files, bsam, due, clientVars>>

SeesStop(s) ==
    /\ Requested
    /\ Goto(s, "checkStop", "stopping")
    /\ UNCHANGED <<files, bsam, local, due, clientVars>>

(* An unreadable request raises RunError: the supervisor fails closed. *)
StopUnreadable(s) ==
    /\ ReadFails
    /\ \E from \in {"checkStop", "rereadTimeout"} : Goto(s, from, "killing")
    /\ UNCHANGED <<files, bsam, local, due, clientVars>>

(* _create_stop_request(..., "timeout"): open("x"), then the body; a user's  *)
(* request that came first is read and kept.                                 *)
OpenTimeoutRequest(s) ==
    /\ stopFile = "absent"
    /\ Goto(s, "openTimeout", "writeTimeout")
    /\ stopFile' = "partial"
    /\ UNCHANGED <<dirMade, manifest, exitFile, bsam, local, due, clientVars>>

TimeoutRequestExists(s) ==
    /\ stopFile # "absent"
    /\ Goto(s, "openTimeout", "rereadTimeout")
    /\ UNCHANGED <<files, bsam, local, due, clientVars>>

WriteTimeoutRequest(s) ==
    /\ Goto(s, "writeTimeout", "stopping")
    /\ stopFile' = "timeout"
    /\ UNCHANGED <<dirMade, manifest, exitFile, bsam, local, due, clientVars>>

RereadTimeoutRequest(s) ==
    /\ Requested
    /\ Goto(s, "rereadTimeout", "stopping")
    /\ UNCHANGED <<files, bsam, local, due, clientVars>>

(* The value 2 is asserted in every iteration, because the solver rewrites   *)
(* the file when it starts. The grace period starts at the first assertion.  *)
AssertStop(s) ==
    LET over == NoGrace \/ "grace" \in local[s].now
    IN  /\ Goto(s, "stopping", IF over THEN "terminate" ELSE "poll")
        /\ exitFile' = "two"
        /\ local' = [local EXCEPT ![s] =
               [local[s] EXCEPT !.graceSet = TRUE, !.escalated = local[s].escalated \/ over]]
        /\ UNCHANGED <<dirMade, manifest, stopFile, bsam, due, clientVars>>

(* The solver is dead after terminate() and wait(), or kill() and wait(). *)
EndSolver ==
    \/ /\ Alive
       /\ \E r \in Results : bsam' = [bsam EXCEPT !.state = "exited", !.result = r]
    \/ /\ ~Alive
       /\ UNCHANGED bsam

Terminate(s) ==
    /\ Goto(s, "terminate", "collect")
    /\ EndSolver
    /\ UNCHANGED <<files, local, due, clientVars>>

(* An OSError anywhere in the try block, of poll() and terminate() too *)
FileFault(s) ==
    /\ "io" \in Faults
    /\ \E from \in TryPcs : Goto(s, from, "killing")
    /\ UNCHANGED <<files, bsam, local, due, clientVars>>

(* The except clause: the solver is ended, then the failure is recorded. *)
KillSolver(s) ==
    /\ Goto(s, "killing", "writeFailed")
    /\ EndSolver
    /\ UNCHANGED <<files, local, due, clientVars>>

WriteFailed(s) ==
    /\ CanReplace
    /\ Goto(s, "writeFailed", "raised")
    /\ manifest' = [manifest EXCEPT !.state = "terminal", !.class = "failed", !.error = TRUE]
    /\ UNCHANGED <<dirMade, stopFile, exitFile, bsam, local, due, clientVars>>

-----------------------------------------------------------------------------
(* run_bsam: after the loop, outside the try block *)

CollectEvidence(s) ==
    /\ stopFile # "partial"
    /\ Goto(s, "collect", "writeTerminal")
    /\ local' = [local EXCEPT ![s].seen = IF Requested THEN stopFile ELSE "none"]
    /\ UNCHANGED <<files, bsam, due, clientVars>>

CollectFails(s) ==
    /\ ReadFails
    /\ Goto(s, "collect", "raised")
    /\ UNCHANGED <<files, bsam, local, due, clientVars>>

WriteTerminal(s) ==
    /\ CanReplace
    /\ Goto(s, "writeTerminal", "returned")
    /\ manifest' = [manifest EXCEPT
           !.state = "terminal",
           !.class = Classify(bsam.result, local[s].seen # "none"),
           !.reason = local[s].seen,
           !.timedOut = local[s].timedOut,
           !.escalated = local[s].escalated]
    /\ UNCHANGED <<dirMade, stopFile, exitFile, bsam, local, due, clientVars>>

(* A failure that no except clause of run_bsam handles, kill() of the except *)
(* clause itself among them: the exception leaves the command with the       *)
(* manifest, and the solver, as they were.                                   *)
Unhandled(s) ==
    /\ \E from \in {"writeStarting", "killing", "writeFailed", "collect", "writeTerminal"} :
           /\ Goto(s, from, "raised")
           /\ \/ "io" \in Faults
              \/ from \in {"writeFailed", "writeTerminal"} /\ ~CanReplace
    /\ UNCHANGED <<files, bsam, local, due, clientVars>>

(* The supervisor is killed; the solver lives on. *)
SupervisorCrash(s) ==
    /\ "crash" \in Faults
    /\ \E from \in OwnerPcs : Goto(s, from, "crashed")
    /\ UNCHANGED <<files, bsam, local, due, clientVars>>

(* time.monotonic() passes the deadlines of the loop. *)
DeadlinePasses(s) ==
    /\ pc[s] \in LoopPcs
    /\ \/ HasTimeout /\ "timeout" \notin due[s] /\ due' = [due EXCEPT ![s] = @ \cup {"timeout"}]
       \/ local[s].graceSet /\ "grace" \notin due[s] /\ due' = [due EXCEPT ![s] = @ \cup {"grace"}]
    /\ UNCHANGED <<files, bsam, pc, local, clientVars>>

-----------------------------------------------------------------------------
(* stop and status commands *)

(* _load_run_manifest opens the manifest; a stop or status before the        *)
(* supervisor has written one is refused and may be repeated.                *)
OpenManifest(c) ==
    /\ manifest.state # "absent"
    /\ Goto(c, "idle", "loading")
    /\ snap' = [snap EXCEPT ![c] = manifest.state]
    /\ UNCHANGED <<files, bsam, local, due, reply>>

CloseManifest(c) ==
    /\ Goto(c, "loading", "checking")
    /\ UNCHANGED <<files, bsam, local, due, clientVars>>

Finish(c, from, answer) ==
    /\ Goto(c, from, "done")
    /\ reply' = [reply EXCEPT ![c] = answer]
    /\ UNCHANGED <<files, bsam, local, due, snap>>

(* run_status ends with _read_stop_request. *)
StatusReports(c) ==
    /\ c \in Watchers /\ stopFile # "partial"
    /\ Finish(c, "checking", "report")

(* "run is already terminal and has no stop request" *)
StopRefused(c) ==
    /\ c \in Stoppers /\ stopFile = "absent" /\ snap[c] = "terminal"
    /\ Finish(c, "checking", "refused")

(* A terminal run with a request is left alone, its .exit file included. *)
StopAlreadyTerminal(c) ==
    /\ c \in Stoppers /\ Requested /\ snap[c] = "terminal"
    /\ Finish(c, "checking", "already")

StopProceeds(c) ==
    /\ c \in Stoppers /\ stopFile # "partial" /\ snap[c] # "terminal"
    /\ Goto(c, "checking", "opening")
    /\ UNCHANGED <<files, bsam, local, due, clientVars>>

ClientReadFails(c) ==
    /\ ReadFails
    /\ \E from \in {"checking", "rereading"} : Finish(c, from, "error")

OpenRequest(c) ==
    /\ stopFile = "absent"
    /\ Goto(c, "opening", "writing")
    /\ stopFile' = "partial"
    /\ UNCHANGED <<dirMade, manifest, exitFile, bsam, local, due, clientVars>>

RequestExists(c) ==
    /\ stopFile # "absent"
    /\ Goto(c, "opening", "rereading")
    /\ UNCHANGED <<files, bsam, local, due, clientVars>>

WriteRequest(c) ==
    /\ Goto(c, "writing", "signalling")
    /\ stopFile' = "user"
    /\ reply' = [reply EXCEPT ![c] = "accepted"]
    /\ UNCHANGED <<dirMade, manifest, exitFile, bsam, local, due, snap>>

RereadRequest(c) ==
    /\ Requested
    /\ Goto(c, "rereading", "signalling")
    /\ reply' = [reply EXCEPT ![c] = "already"]
    /\ UNCHANGED <<files, bsam, local, due, snap>>

(* _ensure_exit_stop, whatever the run has become in the meantime *)
SignalStop(c) ==
    /\ Goto(c, "signalling", "done")
    /\ exitFile' = "two"
    /\ UNCHANGED <<dirMade, manifest, stopFile, bsam, local, due, clientVars>>

(* The stop command is killed before the body, or before the .exit file. *)
StopperCrash(c) ==
    /\ "crash" \in Faults
    /\ \E from \in {"writing", "signalling"} : Goto(c, from, "crashed")
    /\ UNCHANGED <<files, bsam, local, due, clientVars>>

-----------------------------------------------------------------------------
(* The solver, external: it writes its control file once at startup with the *)
(* value zero, over whatever is there, and may end at any time.              *)

SolverOpensControlFile ==
    /\ Alive /\ ~bsam.opened
    /\ bsam' = [bsam EXCEPT !.opened = TRUE]
    /\ exitFile' = "zero"
    /\ UNCHANGED <<dirMade, manifest, stopFile, pc, local, due, clientVars>>

SolverExits ==
    /\ Alive
    /\ \E r \in Results : bsam' = [bsam EXCEPT !.state = "exited", !.result = r]
    /\ UNCHANGED <<files, pc, local, due, clientVars>>

-----------------------------------------------------------------------------

RunStep(s) ==
    \/ PreflightRefuses(s) \/ PreflightPasses(s) \/ MakeDirectory(s) \/ DirectoryTaken(s)
    \/ WriteStarting(s) \/ Spawn(s) \/ SpawnFails(s)
    \/ WriteRunning(s) \/ WriteRunningBlocked(s)
    \/ PollSeesExit(s) \/ PollSamplesClock(s)
    \/ NoStopYet(s) \/ TimesOut(s) \/ SeesStop(s) \/ StopUnreadable(s)
    \/ OpenTimeoutRequest(s) \/ TimeoutRequestExists(s)
    \/ WriteTimeoutRequest(s) \/ RereadTimeoutRequest(s)
    \/ AssertStop(s) \/ Terminate(s) \/ KillSolver(s) \/ WriteFailed(s)
    \/ CollectEvidence(s) \/ CollectFails(s) \/ WriteTerminal(s)
    \/ Unhandled(s)

ClientStep(c) ==
    \/ OpenManifest(c) \/ CloseManifest(c) \/ StatusReports(c)
    \/ StopRefused(c) \/ StopAlreadyTerminal(c) \/ StopProceeds(c) \/ ClientReadFails(c)
    \/ OpenRequest(c) \/ RequestExists(c) \/ WriteRequest(c) \/ RereadRequest(c)
    \/ SignalStop(c)

Next ==
    \/ \E s \in Supervisors :
          RunStep(s) \/ FileFault(s) \/ SupervisorCrash(s) \/ DeadlinePasses(s)
    \/ \E c \in Clients : ClientStep(c)
    \/ \E c \in Stoppers : StopperCrash(c)
    \/ SolverOpensControlFile
    \/ SolverExits

Spec == Init /\ [][Next]_vars

(* The operating system schedules every command and the solver; nothing      *)
(* obliges the solver to end or a user to issue a command.                   *)
FairSpec ==
    /\ Spec
    /\ \A s \in Supervisors : WF_vars(RunStep(s))
    /\ \A c \in Clients : WF_vars(ClientStep(c) /\ pc[c] # "idle")
    /\ WF_vars(SolverOpensControlFile)

(* The deadlines are finite, so the clock passes them.                       *)
TimePasses == \A s \in Supervisors : WF_vars(DeadlinePasses(s))

-----------------------------------------------------------------------------
(* Properties *)

LocalRecords == [now : SUBSET {"timeout", "grace"}, graceSet : BOOLEAN, timedOut : BOOLEAN,
                 escalated : BOOLEAN, seen : Reasons \cup {"none"}]
BsamRecords == [state : {"none", "running", "exited"}, opened : BOOLEAN,
                result : [zero : BOOLEAN, sentinel : BOOLEAN, fatal : BOOLEAN]]
ManifestRecords == [state : ManifestStates, class : Classes, reason : Reasons \cup {"none"},
                    timedOut : BOOLEAN, escalated : BOOLEAN, error : BOOLEAN]

(* Every variable holds a value the code can give it. *)
TypeOK ==
    /\ dirMade \in BOOLEAN
    /\ manifest \in ManifestRecords
    /\ stopFile \in {"absent", "partial"} \cup Reasons
    /\ exitFile \in {"absent", "zero", "two"}
    /\ bsam \in BsamRecords
    /\ pc \in [Procs -> SupervisorPcs \cup ClientPcs]
    /\ \A s \in Supervisors : pc[s] \in SupervisorPcs
    /\ \A c \in Clients : pc[c] \in ClientPcs
    /\ local \in [Supervisors -> LocalRecords]
    /\ due \in [Supervisors -> SUBSET {"timeout", "grace"}]
    /\ snap \in [Clients -> ManifestStates]
    /\ reply \in [Clients -> {"none", "report", "refused", "already", "error", "accepted"}]

Owners == {s \in Supervisors : pc[s] \in OwnerPcs \cup EndPcs}

(* At most one `run` command ever owns the directory, however the checks of  *)
(* two of them interleave, and no solver runs that nobody started.           *)
OneOwner ==
    /\ \A s, t \in Owners : s = t
    /\ bsam.state # "none" => Owners # {}

(* A reader that finds a terminal manifest can rely on the solver being      *)
(* gone, whichever of the three paths wrote it.                              *)
TerminalIsDead == manifest.state = "terminal" => ~Alive

(* The terminal manifest claims only what the disk and the process support:  *)
(* success needs full evidence even after a stop, a stop needs its request,  *)
(* and the recorded reason is the one of the request that won.               *)
VerdictJustified ==
    manifest.state = "terminal" =>
        /\ manifest.class \in {"succeeded", "stopped", "unknown"} => bsam.state = "exited"
        /\ manifest.class = "succeeded" <=> Evidence(bsam.result) /\ ~manifest.error
        /\ manifest.class = "stopped" => Requested
        /\ manifest.timedOut \/ manifest.escalated => Requested
        /\ manifest.reason # "none" => manifest.reason = stopFile

(* Whoever is told that a stop is requested finds a complete request on      *)
(* disk, and only one requester is told that the request is his own.         *)
StopIsIdempotent ==
    \A c \in Stoppers :
        /\ reply[c] \in {"accepted", "already"} => Requested
        /\ reply[c] = "accepted" =>
              /\ stopFile = "user"
              /\ \A d \in Stoppers : reply[d] = "accepted" => d = c

(* A complete stop request is never altered, although a timeout and several  *)
(* users compete to create it and any of them may die half way.              *)
StopRequestImmutable == [][Requested => stopFile' = stopFile]_vars

Rank == [absent |-> 0, starting |-> 1, running |-> 2, terminal |-> 3]

(* The manifest only moves forward, and a terminal one is final.             *)
ManifestOnlyAdvances ==
    [][/\ Rank[manifest.state] <= Rank[manifest'.state]
       /\ manifest.state = "terminal" => manifest' = manifest]_vars

(* A `run` command that ends has left a terminal manifest, and reports an    *)
(* error only for a solver that never started: reading a stop request while  *)
(* it is being written never fails the run.                                  *)
EndIsReported ==
    /\ \A s \in Supervisors : pc[s] \in {"returned", "raised"} => manifest.state = "terminal"
    /\ manifest.error => bsam.state = "none"

(* Once a stop is on disk the run ends, whether or not the solver obeys.     *)
StopEndsRun == TimePasses => (Requested /\ Alive ~> manifest.state = "terminal")

(* A timeout asks before it kills: a run that has one gets its stop request  *)
(* on disk, the user's or its own, unless the solver ends first without      *)
(* having been terminated.                                                   *)
TimeoutAsksForStop ==
    TimePasses => (HasTimeout /\ Alive ~>
                       Requested \/ (~Alive /\ \A s \in Supervisors : ~local[s].escalated))

(* However long the grace period is, a solver that opens its control file    *)
(* after the stop was asked for is told to stop.                             *)
StopReachesSolver == Requested /\ Alive ~> (bsam.opened /\ exitFile = "two") \/ ~Alive

(* tests/test_run.py: an unreadable stop record ends in a terminal manifest. *)
UnreadableStopFailsClosed ==
    \A s \in Supervisors : pc[s] = "raised" => manifest.state = "terminal"

-----------------------------------------------------------------------------
(* The run directory as its readers see it *)

Lifecycle == INSTANCE RunLifecycle WITH
    phase <- manifest.state,
    process <- bsam.state,
    success <- bsam.state = "exited" /\ Evidence(bsam.result),
    asked <- Requested,
    verdict <- manifest.class

(* The supervisor, the commands and the solver implement the run lifecycle.  *)
ImplementsLifecycle == Lifecycle!LifeSpec
=============================================================================
