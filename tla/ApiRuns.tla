------------------------------- MODULE ApiRuns ------------------------------
(***************************************************************************)
(* The asynchronous run jobs of src/bsam_agent/api.py for one output       *)
(* directory: run_bsam requests (_start_run), stop_run requests            *)
(* (_stop_run) with the delivery thread each of them may leave behind,     *)
(* status requests (_run_status), and the worker thread of the job. The    *)
(* HTTP server gives every request a thread, so all of them interleave.    *)
(*                                                                         *)
(* Directories share nothing but the lock, hence one is enough. The run    *)
(* inside the worker is RunLifecycle, which RunSupervisor implements.      *)
(***************************************************************************)
EXTENDS RunLifecycle, FiniteSets

CONSTANTS
    Starts,    \* run_bsam requests for this directory
    Stops,     \* stop_run requests
    Reads,     \* get_run_status requests
    Faults     \* the environment faults of this instance, see ServiceFaults

(* "io"      a file operation raises OSError                               *)
(* "restart" the service process ends and is started again                 *)
(* "foreign" a `run` command outside the service wants the same directory  *)
ServiceFaults == {"io", "restart", "foreign"}

Requests == Starts \cup Stops \cup Reads

ASSUME RequestsAssumption ==
    /\ Starts \cap Stops = {} /\ Starts \cap Reads = {} /\ Stops \cap Reads = {}
    /\ Faults \subseteq ServiceFaults

VARIABLES
    owner,     \* who made the output directory: nobody, the job, another process
    job,       \* the entry of _jobs, state "none" while there is none
    worker,    \* the worker thread of the job
    pc,        \* where each request, or the thread it left behind, is
    reply      \* what each status request has answered

serviceVars == <<owner, job, worker, pc, reply>>
vars == <<lifeVars, serviceVars>>

NoJob == [state |-> "none", class |-> "pending", result |-> FALSE, cancel |-> FALSE]
NewJob == [NoJob EXCEPT !.state = "accepted"]
NoReply == [state |-> "none", class |-> "pending"]

WorkerAlive == worker \in {"beginning", "calling", "supervising", "returned", "raised", "failed"}
HasManifest == phase # "absent"

Init ==
    /\ LifeInit
    /\ owner = "none"
    /\ job = NoJob
    /\ worker = "none"
    /\ pc = [r \in Requests |-> "idle"]
    /\ reply = [w \in Reads |-> NoReply]

Goto(r, from, to) == pc[r] = from /\ pc' = [pc EXCEPT ![r] = to]

-----------------------------------------------------------------------------
(* Slips: the forms that plausible mistakes would give to the operations     *)
(* below. No action uses them; every property is known to reject one.        *)

(* only the directory is looked at, not the job table *)
ReserveUnchecked(r) ==
    /\ owner = "none"
    /\ Goto(r, "reserving", "reserved")
    /\ job' = NewJob
    /\ UNCHANGED <<lifeVars, owner, worker, reply>>

(* mkdir(exist_ok=True) *)
WorkerMakesDirectoryAnyway ==
    /\ worker = "calling"
    /\ worker' = "supervising"
    /\ owner' = IF owner = "none" THEN "job" ELSE owner
    /\ UNCHANGED <<lifeVars, job, pc, reply>>

(* the delivery thread looks for the manifest once *)
DeliveryLooksOnce(c) ==
    /\ ~HasManifest
    /\ Goto(c, "looking", "gone")
    /\ UNCHANGED <<lifeVars, owner, job, worker, reply>>

(* the job is marked terminal as soon as the worker calls run_bsam *)
WorkerMarksEarly ==
    /\ worker = "beginning"
    /\ worker' = "calling"
    /\ job' = [job EXCEPT !.state = "terminal"]
    /\ UNCHANGED <<lifeVars, owner, pc, reply>>

-----------------------------------------------------------------------------
(* _start_run, in the thread of its request *)

(* SourceSet.read and its diagnostics *)
StartPreflight(r) ==
    /\ \E to \in {"reserving", "refused"} : Goto(r, "idle", to)
    /\ UNCHANGED <<lifeVars, owner, job, worker, reply>>

(* Under _jobs_lock: the reservation *)
Reserve(r) ==
    /\ job.state = "none" /\ owner = "none"
    /\ Goto(r, "reserving", "reserved")
    /\ job' = NewJob
    /\ UNCHANGED <<lifeVars, owner, worker, reply>>

Conflict(r) ==
    /\ job.state # "none" \/ owner # "none"
    /\ Goto(r, "reserving", "refused")
    /\ UNCHANGED <<lifeVars, owner, job, worker, reply>>

(* The thread is created and started, and the request answers "accepted". *)
StartWorker(r) ==
    /\ Goto(r, "reserved", "accepted")
    /\ worker' = "beginning"
    /\ UNCHANGED <<lifeVars, owner, job, reply>>

-----------------------------------------------------------------------------
(* worker() *)

WorkerBegins ==
    /\ worker = "beginning"
    /\ worker' = "calling"
    /\ job' = [job EXCEPT !.state = "running"]
    /\ UNCHANGED <<lifeVars, owner, pc, reply>>

(* run_bsam refuses: its own preflight, or a directory made in the meantime *)
RunRefused ==
    /\ worker = "calling"
    /\ worker' = "raised"
    /\ UNCHANGED <<lifeVars, owner, job, pc, reply>>

WorkerMakesDirectory ==
    /\ worker = "calling" /\ owner = "none"
    /\ worker' = "supervising"
    /\ owner' = "job"
    /\ UNCHANGED <<lifeVars, job, pc, reply>>

(* The run itself, supervised by the worker or by another process *)
SupervisedStep ==
    /\ owner = "foreign" \/ worker = "supervising"
    /\ Announce \/ Launch \/ ReportRunning \/ Conclude
    /\ UNCHANGED serviceVars

SolverEnds == Finish /\ UNCHANGED serviceVars

(* run_bsam returns the terminal manifest; or raises, having recorded the    *)
(* failure, or, after a file fault, with the solver ended and the manifest   *)
(* as it was.                                                                *)
RunReturns ==
    /\ worker = "supervising" /\ phase = "terminal"
    /\ worker' = "returned"
    /\ UNCHANGED <<lifeVars, owner, job, pc, reply>>

RunRaises ==
    /\ worker = "supervising"
    /\ \/ phase = "terminal" /\ verdict = "failed"
       \/ "io" \in Faults /\ phase # "terminal" /\ process # "running"
    /\ worker' = "raised"
    /\ UNCHANGED <<lifeVars, owner, job, pc, reply>>

(* job.result, job.state and job.classification: nobody reads them one by    *)
(* one, the manifest and then the result are looked at first.                *)
WorkerRecordsResult ==
    /\ worker = "returned"
    /\ worker' = "done"
    /\ job' = [job EXCEPT !.result = TRUE, !.state = "terminal", !.class = verdict]
    /\ UNCHANGED <<lifeVars, owner, pc, reply>>

(* The except clause: the state first, then the classification *)
WorkerRecordsState ==
    /\ worker = "raised"
    /\ worker' = "failed"
    /\ job' = [job EXCEPT !.state = "terminal"]
    /\ UNCHANGED <<lifeVars, owner, pc, reply>>

WorkerRecordsClass ==
    /\ worker = "failed"
    /\ worker' = "done"
    /\ job' = [job EXCEPT !.class = "failed"]
    /\ UNCHANGED <<lifeVars, owner, pc, reply>>

WorkerStep ==
    \/ WorkerBegins \/ RunRefused \/ WorkerMakesDirectory \/ RunReturns \/ RunRaises
    \/ WorkerRecordsResult \/ WorkerRecordsState \/ WorkerRecordsClass

-----------------------------------------------------------------------------
(* _stop_run, and deliver() in the thread it leaves behind *)

StopLooks(c) ==
    /\ Goto(c, "idle", IF HasManifest THEN "asking" ELSE "finding")
    /\ UNCHANGED <<lifeVars, owner, job, worker, reply>>

(* The steps of request_run_stop are those of RunSupervisor. Here it leaves  *)
(* a request, finds one, or refuses a terminal run that has none.            *)
AskRun ==
    \/ Ask
    \/ asked /\ UNCHANGED lifeVars

AskFails ==
    /\ (phase = "terminal" /\ ~asked) \/ "io" \in Faults
    /\ UNCHANGED lifeVars

StopAsks(c) ==
    /\ \/ AskRun /\ Goto(c, "asking", "answered")
       \/ AskFails /\ Goto(c, "asking", "refused")
    /\ UNCHANGED <<owner, job, worker, reply>>

StopUnknown(c) ==
    /\ job.state = "none"
    /\ Goto(c, "finding", "refused")
    /\ UNCHANGED <<lifeVars, owner, job, worker, reply>>

(* cancel_requested is set, the delivery thread starts, and the request      *)
(* answers "stop-requested".                                                 *)
StopPromises(c) ==
    /\ job.state # "none"
    /\ Goto(c, "finding", "watching")
    /\ job' = [job EXCEPT !.cancel = TRUE]
    /\ UNCHANGED <<lifeVars, owner, worker, reply>>

(* while job.thread is not None and job.thread.is_alive() *)
DeliveryWatches(c) ==
    /\ Goto(c, "watching", IF WorkerAlive THEN "looking" ELSE "gone")
    /\ UNCHANGED <<lifeVars, owner, job, worker, reply>>

DeliveryWaits(c) ==
    /\ ~HasManifest
    /\ Goto(c, "looking", "watching")
    /\ UNCHANGED <<lifeVars, owner, job, worker, reply>>

(* Whatever request_run_stop does, the thread ends; an error is swallowed.   *)
DeliveryAsks(c) ==
    /\ HasManifest
    /\ \/ AskRun /\ Goto(c, "looking", "gone")
       \/ AskFails /\ Goto(c, "looking", "swallowed")
    /\ UNCHANGED <<owner, job, worker, reply>>

StopStep(c) ==
    \/ StopAsks(c) \/ StopUnknown(c) \/ StopPromises(c)
    \/ DeliveryWatches(c) \/ DeliveryWaits(c) \/ DeliveryAsks(c)

-----------------------------------------------------------------------------
(* _run_status *)

ReadLooks(w) ==
    /\ Goto(w, "idle", IF HasManifest THEN "answered" ELSE "finding")
    /\ reply' = IF HasManifest
                  THEN [reply EXCEPT ![w] = [state |-> phase, class |-> verdict]]
                  ELSE reply
    /\ UNCHANGED <<lifeVars, owner, job, worker>>

ReadFindsNothing(w) ==
    /\ job.state = "none"
    /\ Goto(w, "finding", "refused")
    /\ UNCHANGED <<lifeVars, owner, job, worker, reply>>

(* job.result when there is one, else the fields of the job *)
ReadFindsJob(w) ==
    /\ job.state # "none"
    /\ Goto(w, "finding", "answered")
    /\ reply' = [reply EXCEPT ![w] =
           IF job.result THEN [state |-> "terminal", class |-> verdict]
                         ELSE [state |-> job.state, class |-> job.class]]
    /\ UNCHANGED <<lifeVars, owner, job, worker>>

-----------------------------------------------------------------------------
(* The environment *)

(* A `run` command outside the service makes the directory first. *)
ForeignRun ==
    /\ "foreign" \in Faults
    /\ owner = "none"
    /\ owner' = "foreign"
    /\ UNCHANGED <<lifeVars, job, worker, pc, reply>>

(* The threads are daemons: they end with the process, without a word to the *)
(* solver, and the job table is empty when the service is back.              *)
ServiceRestarts ==
    /\ "restart" \in Faults
    /\ job' = NoJob
    /\ worker' = "none"
    /\ pc' = [r \in Requests |-> IF pc[r] = "idle" THEN "idle" ELSE "gone"]
    /\ reply' = [w \in Reads |-> NoReply]
    /\ UNCHANGED <<lifeVars, owner>>

StartStep(r) == Reserve(r) \/ Conflict(r) \/ StartWorker(r)
ReadStep(w) == ReadFindsNothing(w) \/ ReadFindsJob(w)

Next ==
    \/ \E r \in Starts : StartPreflight(r) \/ StartStep(r)
    \/ \E c \in Stops : StopLooks(c) \/ StopStep(c)
    \/ \E w \in Reads : ReadLooks(w) \/ ReadStep(w)
    \/ WorkerStep
    \/ SupervisedStep
    \/ SolverEnds
    \/ ForeignRun
    \/ ServiceRestarts

Spec == Init /\ [][Next]_vars

(* Threads are scheduled. A run that has been asked to stop ends: that is    *)
(* StopEndsRun of RunSupervisor. Nothing else obliges a solver to end.       *)
FairSpec ==
    /\ Spec
    /\ \A r \in Starts : WF_vars(StartStep(r))
    /\ \A c \in Stops : WF_vars(StopStep(c))
    /\ WF_vars(WorkerStep)
    /\ WF_vars(SupervisedStep)
    /\ WF_vars(asked /\ SolverEnds)

-----------------------------------------------------------------------------
(* Properties *)

(* Every variable holds a value the code can give it. *)
TypeOK ==
    /\ LifeTypeOK
    /\ owner \in {"none", "job", "foreign"}
    /\ job \in [state : {"none", "accepted", "running", "terminal"}, class : Verdicts,
                result : BOOLEAN, cancel : BOOLEAN]
    /\ worker \in {"none", "beginning", "calling", "supervising", "returned", "raised",
                   "failed", "done"}
    /\ pc \in [Requests -> {"idle", "reserving", "reserved", "accepted", "refused", "asking",
                            "finding", "watching", "looking", "answered", "gone", "swallowed"}]
    /\ reply \in [Reads -> [state : Phases \cup {"none", "accepted"}, class : Verdicts]]

(* However many requests name one directory, one of them is accepted, and    *)
(* the entry of the table is its job for as long as the service lives.       *)
OneJob ==
    LET Holders == {r \in Starts : pc[r] \in {"reserved", "accepted"}}
    IN  /\ \A r, q \in Holders : r = q
        /\ Holders # {} <=> job.state # "none"

(* The worker supervises only a run it made the directory for, although      *)
(* another process may take the directory between reservation and mkdir.     *)
WorkerOwnsRun ==
    /\ worker \in {"supervising", "returned"} => owner = "job"
    /\ owner # "foreign" /\ HasManifest => owner = "job"

(* What a status request answers stays true: after "terminal" the solver of  *)
(* the job is gone, and the classification is the one of the manifest,       *)
(* whether the manifest, the result or the job table answered.               *)
TerminalReplyIsTrue ==
    \A w \in Reads :
        reply[w].state = "terminal" /\ owner = "job" =>
            /\ process # "running"
            /\ phase = "terminal" /\ reply[w].class # "pending" => reply[w].class = verdict

(* Once the delivery thread of a stop has found the worker alive, the run    *)
(* ends, even if it had no manifest when the stop was asked for; unless the  *)
(* service itself ends, or the delivery fails and its error is swallowed.    *)
StopEndsJob ==
    \A c \in Stops :
        pc[c] = "looking" ~> job.state \in {"none", "terminal"} \/ pc[c] = "swallowed"

(* docs/api/README.md: a stop can be requested immediately after acceptance  *)
(* and is delivered as soon as the manifest exists. Acceptance is what       *)
(* get_run_status has reported.                                              *)
StopIsDelivered ==
    \A c \in Stops :
        pc[c] = "finding" /\ (\E w \in Reads : reply[w].state = "accepted")
            ~> asked \/ job.state = "terminal"
=============================================================================
