---------------------------- MODULE ApiRunsProofs ----------------------------
(***************************************************************************)
(* What the local service promises of the run jobs of one directory, for   *)
(* any number of run, stop and status requests and any of the faults.      *)
(*                                                                         *)
(* The invariant: the entry of the job table, the request that holds it    *)
(* and the worker thread come and go together; before the worker has made  *)
(* its directory nothing of a run is known, and after it has let go of it  *)
(* nobody but another process moves the run; so what a status request was  *)
(* told of a finished run is a fact that no later step touches.            *)
(***************************************************************************)
EXTENDS ApiRuns, TLAPS

Holders == {r \in Starts : pc[r] \in {"reserved", "accepted"}}

(* The entry is that of the one request that holds it, and a worker runs     *)
(* only for an entry, once its request has started it.                       *)
Table ==
    /\ \A r, q \in Holders : r = q
    /\ Holders # {} <=> job.state # "none"
    /\ worker # "none" => job.state # "none"
    /\ \A r \in Starts : pc[r] = "reserved" => worker = "none"

(* The directory is the job's only after its worker has made it.             *)
Directory ==
    /\ owner = "job" => /\ worker \notin {"beginning", "calling"}
                        /\ \A r \in Starts : pc[r] # "reserved"
    /\ worker \in {"supervising", "returned"} => owner = "job"
    /\ HasManifest => owner # "none"

(* What the worker's place says of the run and of the entry.                 *)
Records ==
    /\ phase = "terminal" => process # "running"
    /\ worker = "returned" => phase = "terminal"
    /\ job.state = "terminal" => worker \in {"failed", "done"}
    /\ job.result => worker = "done" /\ job.state = "terminal" /\ phase = "terminal"
    /\ job.class # "pending" /\ ~job.result => job.class = "failed"
    /\ worker \in {"raised", "failed", "done"} /\ ~job.result /\ owner = "job" =>
           process # "running" /\ (phase = "terminal" => verdict = "failed")

(* What a reply says, as long as nobody can move the run any more.           *)
Replies ==
    \A w \in Reads : reply[w].state = "terminal" =>
        /\ owner = "none" => job.state = "terminal"
        /\ owner = "job" =>
            /\ process # "running"
            /\ phase = "terminal" \/ worker \in {"failed", "done"}
            /\ phase = "terminal" /\ reply[w].class # "pending" => reply[w].class = verdict

IInv == TypeOK /\ Table /\ Directory /\ Records /\ Replies

-----------------------------------------------------------------------------
(* Typing *)

Pcs == {"idle", "reserving", "reserved", "accepted", "refused", "asking",
        "finding", "watching", "looking", "answered", "gone", "swallowed"}

LEMMA GotoTyped ==
    ASSUME TypeOK, NEW r \in Requests, NEW from, NEW to \in Pcs, Goto(r, from, to)
    PROVE  /\ pc' \in [Requests -> Pcs]
           /\ pc[r] = from /\ pc'[r] = to
           /\ \A q \in Requests : q # r => pc'[q] = pc[q]
BY DEF TypeOK, Goto, Pcs

Jobs == [state : {"none", "accepted", "running", "terminal"}, class : Verdicts,
         result : BOOLEAN, cancel : BOOLEAN]
ReplyRecords == [state : Phases \cup {"none", "accepted"}, class : Verdicts]

LEMMA TypeInit == Init => TypeOK
<1> SUFFICES ASSUME Init PROVE TypeOK OBVIOUS
<1>1. NoReply \in ReplyRecords BY DEF NoReply, ReplyRecords, Verdicts
<1>2. reply \in [Reads -> ReplyRecords] BY <1>1 DEF Init
<1>3. job \in Jobs BY DEF Init, NoJob, Jobs, Verdicts
<1>4. LifeTypeOK BY DEF Init, LifeInit, LifeTypeOK, Phases, Verdicts
<1> QED BY <1>2, <1>3, <1>4 DEF Init, TypeOK, ReplyRecords, Jobs

(* The steps of RunLifecycle keep the types of its variables.                *)
LEMMA TypeLife == LifeTypeOK /\ [LifeNext]_lifeVars => LifeTypeOK'
<1> SUFFICES ASSUME LifeTypeOK, [LifeNext]_lifeVars PROVE LifeTypeOK' OBVIOUS
<1> USE DEF LifeTypeOK, Phases, Verdicts
<1>1. CASE Announce BY <1>1 DEF Announce
<1>2. CASE Launch BY <1>2 DEF Launch
<1>3. CASE ReportRunning BY <1>3 DEF ReportRunning
<1>4. CASE Ask BY <1>4 DEF Ask
<1>5. CASE Finish BY <1>5 DEF Finish
<1>6. CASE Conclude BY <1>6 DEF Conclude
<1>7. CASE UNCHANGED lifeVars BY <1>7 DEF lifeVars
<1> QED BY <1>1, <1>2, <1>3, <1>4, <1>5, <1>6, <1>7 DEF LifeNext

(* Every step of the service takes the run at most one step of its life.     *)
LEMMA StepOfLife == [Next]_vars => [LifeNext]_lifeVars
<1> SUFFICES ASSUME [Next]_vars PROVE [LifeNext]_lifeVars OBVIOUS
<1>1. ASSUME NEW r \in Starts, StartPreflight(r) \/ StartStep(r) PROVE UNCHANGED lifeVars
  BY <1>1 DEF StartPreflight, StartStep, Reserve, Conflict, StartWorker
<1>2. ASSUME NEW c \in Stops, StopLooks(c) \/ StopStep(c) PROVE [LifeNext]_lifeVars
  BY <1>2 DEF StopLooks, StopStep, StopAsks, StopUnknown, StopPromises, DeliveryWatches,
     DeliveryWaits, DeliveryAsks, AskRun, AskFails, LifeNext
<1>3. ASSUME NEW w \in Reads, ReadLooks(w) \/ ReadStep(w) PROVE UNCHANGED lifeVars
  BY <1>3 DEF ReadLooks, ReadStep, ReadFindsNothing, ReadFindsJob
<1>4. ASSUME WorkerStep PROVE UNCHANGED lifeVars
  BY <1>4 DEF WorkerStep, WorkerBegins, RunRefused, WorkerMakesDirectory, RunReturns, RunRaises,
     WorkerRecordsResult, WorkerRecordsState, WorkerRecordsClass
<1>5. SupervisedStep \/ SolverEnds => LifeNext BY DEF SupervisedStep, SolverEnds, LifeNext
<1>6. ForeignRun \/ ServiceRestarts => UNCHANGED lifeVars BY DEF ForeignRun, ServiceRestarts
<1>7. UNCHANGED vars => UNCHANGED lifeVars BY DEF vars
<1> QED BY <1>1, <1>2, <1>3, <1>4, <1>5, <1>6, <1>7 DEF Next

LEMMA TypeStep == TypeOK /\ [Next]_vars => TypeOK'
<1> SUFFICES ASSUME TypeOK, [Next]_vars PROVE TypeOK' OBVIOUS
<1>0. LifeTypeOK' BY TypeLife, StepOfLife DEF TypeOK
<1>1. Starts \subseteq Requests /\ Stops \subseteq Requests /\ Reads \subseteq Requests
  BY DEF Requests
<1> DEFINE ServiceOK ==
      /\ owner \in {"none", "job", "foreign"}
      /\ job \in Jobs
      /\ worker \in {"none", "beginning", "calling", "supervising", "returned", "raised",
                     "failed", "done"}
      /\ pc \in [Requests -> Pcs]
      /\ reply \in [Reads -> ReplyRecords]
<1>2. ServiceOK BY DEF TypeOK, Jobs, Pcs, ReplyRecords
<1>3. ServiceOK'
  <2> USE <1>1, <1>2, GotoTyped
  <2>1. ASSUME NEW r \in Starts, StartPreflight(r) \/ StartStep(r) PROVE ServiceOK'
    <3>1. CASE StartPreflight(r) BY <2>1, <3>1 DEF StartPreflight, Pcs
    <3>2. CASE Reserve(r)
      <4>1. NewJob \in Jobs BY DEF NewJob, NoJob, Jobs, Verdicts
      <4> QED BY <2>1, <3>2, <4>1 DEF Reserve, Pcs
    <3>3. CASE Conflict(r) BY <2>1, <3>3 DEF Conflict, Pcs
    <3>4. CASE StartWorker(r) BY <2>1, <3>4 DEF StartWorker, Pcs
    <3> QED BY <2>1, <3>1, <3>2, <3>3, <3>4 DEF StartStep
  <2>2. ASSUME NEW c \in Stops, StopLooks(c) \/ StopStep(c) PROVE ServiceOK'
    <3>1. CASE StopLooks(c) BY <2>2, <3>1 DEF StopLooks, Pcs
    <3>2. CASE StopAsks(c) BY <2>2, <3>2 DEF StopAsks, Pcs
    <3>3. CASE StopUnknown(c) BY <2>2, <3>3 DEF StopUnknown, Pcs
    <3>4. CASE StopPromises(c) BY <2>2, <3>4 DEF StopPromises, Pcs, Jobs
    <3>5. CASE DeliveryWatches(c) BY <2>2, <3>5 DEF DeliveryWatches, Pcs
    <3>6. CASE DeliveryWaits(c) BY <2>2, <3>6 DEF DeliveryWaits, Pcs
    <3>7. CASE DeliveryAsks(c) BY <2>2, <3>7 DEF DeliveryAsks, Pcs
    <3> QED BY <2>2, <3>1, <3>2, <3>3, <3>4, <3>5, <3>6, <3>7 DEF StopStep
  <2>3. ASSUME NEW w \in Reads, ReadLooks(w) \/ ReadStep(w) PROVE ServiceOK'
    <3>1. CASE ReadLooks(w)
      <4>1. [state |-> phase, class |-> verdict] \in ReplyRecords
        BY DEF TypeOK, LifeTypeOK, ReplyRecords
      <4>2. reply' \in [Reads -> ReplyRecords] BY <3>1, <4>1 DEF ReadLooks
      <4> QED BY <2>3, <3>1, <4>2 DEF ReadLooks, Pcs
    <3>2. CASE ReadFindsNothing(w) BY <2>3, <3>2 DEF ReadFindsNothing, Pcs
    <3>3. CASE ReadFindsJob(w)
      <4>1. [state |-> "terminal", class |-> verdict] \in ReplyRecords
        BY DEF TypeOK, LifeTypeOK, ReplyRecords, Phases
      <4>2. [state |-> job.state, class |-> job.class] \in ReplyRecords
        BY DEF Jobs, ReplyRecords, Phases
      <4>3. reply' \in [Reads -> ReplyRecords] BY <3>3, <4>1, <4>2 DEF ReadFindsJob
      <4> QED BY <2>3, <3>3, <4>3 DEF ReadFindsJob, Pcs
    <3> QED BY <2>3, <3>1, <3>2, <3>3 DEF ReadStep
  <2>4. ASSUME WorkerStep PROVE ServiceOK'
    <3>1. verdict \in Verdicts BY DEF TypeOK, LifeTypeOK
    <3> QED BY <2>4, <3>1 DEF WorkerStep, WorkerBegins, RunRefused, WorkerMakesDirectory, RunReturns,
       RunRaises, WorkerRecordsResult, WorkerRecordsState, WorkerRecordsClass, Jobs, Verdicts
  <2>5. ASSUME SupervisedStep \/ SolverEnds PROVE ServiceOK'
    BY <2>5 DEF SupervisedStep, SolverEnds, serviceVars
  <2>6. ASSUME ForeignRun PROVE ServiceOK' BY <2>6 DEF ForeignRun
  <2>7. ASSUME ServiceRestarts PROVE ServiceOK'
    <3>1. NoReply \in ReplyRecords BY DEF NoReply, ReplyRecords, Verdicts
    <3>2. reply' \in [Reads -> ReplyRecords] BY <2>7, <3>1 DEF ServiceRestarts
    <3>3. pc' \in [Requests -> Pcs] BY <2>7 DEF ServiceRestarts, Pcs
    <3> QED BY <2>7, <3>2, <3>3 DEF ServiceRestarts, NoJob, Jobs, Verdicts
  <2>8. CASE UNCHANGED vars BY <2>8 DEF vars, serviceVars
  <2> QED BY <2>1, <2>2, <2>3, <2>4, <2>5, <2>6, <2>7, <2>8 DEF Next
<1> QED BY <1>0, <1>3 DEF TypeOK, Jobs, Pcs, ReplyRecords

(* However the requests, the worker, the run and the environment interleave, *)
(* every variable holds a value that the code can give it.                   *)
THEOREM TypeCorrect == Spec => []TypeOK
BY TypeInit, TypeStep, PTL DEF Spec

-----------------------------------------------------------------------------
(* The invariant *)

LEMMA InvInit == Init => IInv
<1> SUFFICES ASSUME Init PROVE IInv OBVIOUS
<1>1. TypeOK BY TypeInit
<1>2. Starts \subseteq Requests BY DEF Requests
<1>3. Holders = {} BY <1>2 DEF Init, Holders
<1>4. Table BY <1>2, <1>3 DEF Init, Table, NoJob
<1>5. Directory BY DEF Init, Directory, LifeInit, HasManifest
<1>6. Records BY DEF Init, Records, LifeInit, NoJob
<1>7. Replies BY DEF Init, Replies, NoReply
<1> QED BY <1>1, <1>4, <1>5, <1>6, <1>7 DEF IInv

(* A request or a thread that moves no run_bsam request, and neither the     *)
(* entry nor the worker, keeps the table; with the directory and the         *)
(* manifest as they were, it keeps the directory too.                        *)
LEMMA TableKept ==
    ASSUME Table, \A r \in Starts : pc'[r] = pc[r], job'.state = job.state, worker' = worker
    PROVE  Table'
<1>1. Holders' = Holders BY DEF Holders
<1> QED BY <1>1 DEF Table

LEMMA DirectoryKept ==
    ASSUME Directory, \A r \in Starts : pc'[r] = "reserved" => pc[r] = "reserved",
           worker' = worker, owner' = owner, HasManifest' => HasManifest \/ owner # "none"
    PROVE  Directory'
BY DEF Directory

(* A step of a run_bsam request *)
LEMMA StartKeeps ==
    ASSUME IInv, TypeOK', NEW r \in Starts, StartPreflight(r) \/ StartStep(r)
    PROVE  Table' /\ Directory' /\ Records' /\ Replies'
<1> USE DEF IInv
<1>1. r \in Requests /\ Starts \subseteq Requests BY DEF Requests
<1>2. pc \in [Requests -> Pcs] BY DEF TypeOK, Pcs
<1>3. UNCHANGED lifeVars /\ UNCHANGED <<owner, reply>>
  BY DEF StartPreflight, StartStep, Reserve, Conflict, StartWorker
<1>4. UNCHANGED <<phase, process, success, asked, verdict>> BY <1>3 DEF lifeVars
<1>5. HasManifest' = HasManifest BY <1>4 DEF HasManifest
<1>6. CASE StartPreflight(r) \/ Conflict(r)
  <2>1. UNCHANGED <<job, worker>> BY <1>6 DEF StartPreflight, Conflict
  <2>2. PICK to \in {"reserving", "refused"} :
           pc' = [pc EXCEPT ![r] = to] /\ pc[r] \in {"idle", "reserving"}
    BY <1>6 DEF StartPreflight, Conflict, Goto
  <2>3. \A q \in Starts : /\ q # r => pc'[q] = pc[q]
                          /\ pc[q] \in {"reserved", "accepted"} <=> pc'[q] \in {"reserved", "accepted"}
                          /\ pc'[q] = "reserved" => pc[q] = "reserved"
    BY <1>1, <1>2, <2>2
  <2>4. Holders' = Holders BY <2>3 DEF Holders
  <2>5. Table' BY <2>1, <2>3, <2>4 DEF Table
  <2>6. Directory' BY <1>3, <1>5, <2>1, <2>3, DirectoryKept
  <2>7. Records' BY <1>3, <1>4, <2>1 DEF Records
  <2>8. Replies' BY <1>3, <1>4, <2>1 DEF Replies
  <2> QED BY <2>5, <2>6, <2>7, <2>8
<1>7. CASE Reserve(r)
  <2>1. /\ job.state = "none" /\ owner = "none" /\ job' = NewJob /\ worker' = worker
        /\ pc[r] = "reserving" /\ pc' = [pc EXCEPT ![r] = "reserved"]
    BY <1>7 DEF Reserve, Goto
  <2>2. Holders = {} /\ worker = "none" BY <2>1 DEF Table
  <2>3. pc'[r] = "reserved" /\ \A q \in Starts : q # r => pc'[q] = pc[q] BY <1>1, <1>2, <2>1
  <2>4. Holders' = {r} BY <2>2, <2>3 DEF Holders
  <2>5. NewJob.state = "accepted" /\ NewJob.class = "pending" /\ NewJob.result = FALSE
    BY DEF NewJob, NoJob
  <2>6. Table' BY <2>1, <2>2, <2>4, <2>5 DEF Table
  <2>7. Directory' BY <1>3, <1>5, <2>1, <2>2 DEF Directory
  <2>8. Records' BY <1>3, <1>4, <2>1, <2>2, <2>5 DEF Records
  <2>9. Replies' BY <1>3, <1>4, <2>1 DEF Replies
  <2> QED BY <2>6, <2>7, <2>8, <2>9
<1>8. CASE StartWorker(r)
  <2>1. /\ worker' = "beginning" /\ job' = job
        /\ pc[r] = "reserved" /\ pc' = [pc EXCEPT ![r] = "accepted"]
    BY <1>8 DEF StartWorker, Goto
  <2>2. pc'[r] = "accepted" /\ \A q \in Starts : q # r => pc'[q] = pc[q] BY <1>1, <1>2, <2>1
  <2>3. r \in Holders /\ Holders' = Holders BY <2>1, <2>2 DEF Holders
  <2>4. \A q \in Starts : pc'[q] # "reserved" BY <2>2, <2>3 DEF Table, Holders
  <2>5. worker = "none" /\ job.state # "none" /\ owner # "job" BY <2>1, <2>3 DEF Table, Directory
  <2>6. Table' BY <2>1, <2>3, <2>4, <2>5 DEF Table
  <2>7. Directory' BY <1>3, <1>5, <2>1, <2>4, <2>5 DEF Directory
  <2>8. Records' BY <1>3, <1>4, <2>1, <2>5 DEF Records
  <2>9. Replies' BY <1>3, <1>4, <2>1, <2>5 DEF Replies, Records
  <2> QED BY <2>6, <2>7, <2>8, <2>9
<1> QED BY <1>6, <1>7, <1>8 DEF StartStep

(* A step of a stop request, or of the delivery thread it left               *)
LEMMA StopKeeps ==
    ASSUME IInv, TypeOK', NEW c \in Stops, StopLooks(c) \/ StopStep(c)
    PROVE  Table' /\ Directory' /\ Records' /\ Replies'
<1> USE DEF IInv
<1>1. c \in Requests /\ Starts \subseteq Requests /\ c \notin Starts
  BY RequestsAssumption DEF Requests
<1>2. pc \in [Requests -> Pcs] BY DEF TypeOK, Pcs
<1>3. \E to : pc' = [pc EXCEPT ![c] = to]
  BY DEF StopLooks, StopStep, StopAsks, StopUnknown, StopPromises, DeliveryWatches, DeliveryWaits,
     DeliveryAsks, Goto
<1>4. \A r \in Starts : pc'[r] = pc[r] BY <1>1, <1>2, <1>3
<1>5. UNCHANGED <<owner, worker, reply>>
  BY DEF StopLooks, StopStep, StopAsks, StopUnknown, StopPromises, DeliveryWatches, DeliveryWaits,
     DeliveryAsks
<1>6. UNCHANGED <<phase, process, verdict>>
  BY DEF StopLooks, StopStep, StopAsks, StopUnknown, StopPromises, DeliveryWatches, DeliveryWaits,
     DeliveryAsks, AskRun, AskFails, Ask, lifeVars
<1>7. job'.state = job.state /\ job'.result = job.result /\ job'.class = job.class
  <2>1. UNCHANGED job \/ job' = [job EXCEPT !.cancel = TRUE]
    BY DEF StopLooks, StopStep, StopAsks, StopUnknown, StopPromises, DeliveryWatches, DeliveryWaits,
       DeliveryAsks
  <2> QED BY <2>1 DEF TypeOK
<1>8. HasManifest' = HasManifest BY <1>6 DEF HasManifest
<1>9. Table' BY <1>4, <1>5, <1>7, TableKept
<1>10. Directory' BY <1>4, <1>5, <1>8, DirectoryKept
<1>11. Records' BY <1>5, <1>6, <1>7 DEF Records
<1>12. Replies' BY <1>5, <1>6, <1>7 DEF Replies
<1> QED BY <1>9, <1>10, <1>11, <1>12

(* What a status request is told is the case.                                *)
LEMMA ReadKeeps ==
    ASSUME IInv, TypeOK', NEW w \in Reads, ReadLooks(w) \/ ReadStep(w)
    PROVE  Table' /\ Directory' /\ Records' /\ Replies'
<1> USE DEF IInv
<1>1. w \in Requests /\ Starts \subseteq Requests /\ w \notin Starts
  BY RequestsAssumption DEF Requests
<1>2. pc \in [Requests -> Pcs] BY DEF TypeOK, Pcs
<1>3. \E to : pc' = [pc EXCEPT ![w] = to] BY DEF ReadLooks, ReadStep, ReadFindsNothing, ReadFindsJob, Goto
<1>4. \A r \in Starts : pc'[r] = pc[r] BY <1>1, <1>2, <1>3
<1>5. UNCHANGED <<owner, worker, job>> /\ UNCHANGED lifeVars
  BY DEF ReadLooks, ReadStep, ReadFindsNothing, ReadFindsJob
<1>6. UNCHANGED <<phase, process, success, asked, verdict>> BY <1>5 DEF lifeVars
<1>7. HasManifest' = HasManifest BY <1>6 DEF HasManifest
<1>8. Table' BY <1>4, <1>5, TableKept
<1>9. Directory' BY <1>4, <1>5, <1>7, DirectoryKept
<1>10. Records' BY <1>5, <1>6 DEF Records
<1>11. Replies'
  <2> DEFINE True(a) == a.state = "terminal" =>
        /\ owner = "none" => job.state = "terminal"
        /\ owner = "job" =>
            /\ process # "running"
            /\ phase = "terminal" \/ worker \in {"failed", "done"}
            /\ phase = "terminal" /\ a.class # "pending" => a.class = verdict
  <2>1. ASSUME HasManifest PROVE True([state |-> phase, class |-> verdict])
    BY <2>1 DEF Directory, Records
  <2>2. ASSUME job.result PROVE True([state |-> "terminal", class |-> verdict])
    BY <2>2 DEF Records
  <2>3. ASSUME ~job.result PROVE True([state |-> job.state, class |-> job.class])
    BY <2>3 DEF Records
  <2>4. UNCHANGED reply \/ \E a : True(a) /\ reply' = [reply EXCEPT ![w] = a]
    <3>1. CASE ReadLooks(w) BY <3>1, <2>1 DEF ReadLooks
    <3>2. CASE ReadFindsNothing(w) BY <3>2 DEF ReadFindsNothing
    <3>3. CASE ReadFindsJob(w) BY <3>3, <2>2, <2>3 DEF ReadFindsJob
    <3> QED BY <3>1, <3>2, <3>3 DEF ReadStep
  <2>5. \A v \in Reads : True(reply[v]) BY DEF Replies
  <2>6. \A v \in Reads : True(reply'[v]) BY <2>4, <2>5 DEF TypeOK
  <2> QED BY <1>5, <1>6, <2>6 DEF Replies
<1> QED BY <1>8, <1>9, <1>10, <1>11

(* The worker takes hold of the run, lets go of it, and records its end.     *)
LEMMA WorkerKeeps ==
    ASSUME IInv, TypeOK', WorkerStep
    PROVE  Table' /\ Directory' /\ Records' /\ Replies'
<1> USE DEF IInv
<1>1. UNCHANGED lifeVars /\ UNCHANGED <<pc, reply>>
  BY DEF WorkerStep, WorkerBegins, RunRefused, WorkerMakesDirectory, RunReturns, RunRaises,
     WorkerRecordsResult, WorkerRecordsState, WorkerRecordsClass
<1>2. UNCHANGED <<phase, process, success, asked, verdict>> BY <1>1 DEF lifeVars
<1>3. HasManifest' = HasManifest BY <1>2 DEF HasManifest
<1>4. worker # "none" /\ worker' # "none"
  BY DEF WorkerStep, WorkerBegins, RunRefused, WorkerMakesDirectory, RunReturns, RunRaises,
     WorkerRecordsResult, WorkerRecordsState, WorkerRecordsClass
<1>5. job.state # "none" /\ \A r \in Starts : pc[r] # "reserved" BY <1>4 DEF Table
<1>6. job \in Jobs BY DEF TypeOK, Jobs
<1>7. Table'
  <2>1. job'.state # "none"
    BY <1>5, <1>6 DEF WorkerStep, WorkerBegins, RunRefused, WorkerMakesDirectory, RunReturns, RunRaises,
       WorkerRecordsResult, WorkerRecordsState, WorkerRecordsClass, Jobs
  <2>2. Holders' = Holders BY <1>1 DEF Holders
  <2> QED BY <1>1, <1>4, <1>5, <2>1, <2>2 DEF Table
<1>8. Directory'
  <2>1. CASE WorkerMakesDirectory
    BY <1>1, <1>5, <2>1 DEF WorkerMakesDirectory, Directory
  <2>2. CASE ~WorkerMakesDirectory
    <3>1. /\ owner' = owner
          /\ worker' \in {"beginning", "calling"} => worker \in {"beginning", "calling"}
          /\ worker' \in {"supervising", "returned"} => worker \in {"supervising", "returned"}
      BY <2>2 DEF WorkerStep, WorkerBegins, RunRefused, RunReturns, RunRaises, WorkerRecordsResult,
         WorkerRecordsState, WorkerRecordsClass
    <3> QED BY <1>1, <1>3, <3>1 DEF Directory
  <2> QED BY <2>1, <2>2
<1>9. Records' /\ Replies'
  <2>1. CASE WorkerBegins
    <3>1. /\ worker = "beginning" /\ worker' = "calling" /\ UNCHANGED owner
          /\ job'.state = "running" /\ job'.result = job.result /\ job'.class = job.class
      BY <1>6, <2>1 DEF WorkerBegins, Jobs
    <3> QED BY <1>1, <1>2, <3>1 DEF Records, Replies, Directory
  <2>2. CASE RunRefused
    BY <1>1, <1>2, <2>2 DEF RunRefused, Records, Replies, Directory
  <2>3. CASE WorkerMakesDirectory
    BY <1>1, <1>2, <2>3 DEF WorkerMakesDirectory, Records, Replies, Directory
  <2>4. CASE RunReturns
    BY <1>1, <1>2, <2>4 DEF RunReturns, Records, Replies, Directory
  <2>5. CASE RunRaises
    BY <1>1, <1>2, <2>5 DEF RunRaises, Records, Replies, Directory
  <2>6. CASE WorkerRecordsResult
    <3>1. /\ worker = "returned" /\ worker' = "done" /\ UNCHANGED owner
          /\ job'.state = "terminal" /\ job'.result = TRUE /\ job'.class = verdict
      BY <1>6, <2>6 DEF WorkerRecordsResult, Jobs
    <3> QED BY <1>1, <1>2, <3>1 DEF Records, Replies, Directory
  <2>7. CASE WorkerRecordsState
    <3>1. /\ worker = "raised" /\ worker' = "failed" /\ UNCHANGED owner
          /\ job'.state = "terminal" /\ job'.result = job.result /\ job'.class = job.class
      BY <1>6, <2>7 DEF WorkerRecordsState, Jobs
    <3> QED BY <1>1, <1>2, <3>1 DEF Records, Replies, Directory
  <2>8. CASE WorkerRecordsClass
    <3>1. /\ worker = "failed" /\ worker' = "done" /\ UNCHANGED owner
          /\ job'.state = job.state /\ job'.result = job.result /\ job'.class = "failed"
      BY <1>6, <2>8 DEF WorkerRecordsClass, Jobs
    <3> QED BY <1>1, <1>2, <3>1 DEF Records, Replies, Directory
  <2> QED BY <2>1, <2>2, <2>3, <2>4, <2>5, <2>6, <2>7, <2>8 DEF WorkerStep
<1> QED BY <1>7, <1>8, <1>9

(* The run moves only under a worker that supervises it, or under the other  *)
(* process whose directory it is.                                            *)
LEMMA RunKeeps ==
    ASSUME IInv, TypeOK', SupervisedStep \/ SolverEnds
    PROVE  Table' /\ Directory' /\ Records' /\ Replies'
<1> USE DEF IInv
<1>1. UNCHANGED <<owner, job, worker, pc, reply>> BY DEF SupervisedStep, SolverEnds, serviceVars
<1>2. Table' BY <1>1, TableKept
<1>3. CASE SupervisedStep
  <2>1. owner = "foreign" \/ (owner = "job" /\ worker = "supervising")
    <3>1. owner = "foreign" \/ worker = "supervising" BY <1>3 DEF SupervisedStep
    <3> QED BY <3>1 DEF Directory
  <2>2. phase' = "terminal" => process' # "running"
    BY <1>3 DEF SupervisedStep, Announce, Launch, ReportRunning, Conclude, Records
  <2>3. phase # "terminal"
    BY <1>3 DEF SupervisedStep, Announce, Launch, ReportRunning, Conclude
  <2>4. Directory' BY <1>1, <2>1, DirectoryKept
  <2>5. Records' BY <1>1, <2>1, <2>2, <2>3 DEF Records
  <2>6. Replies' BY <1>1, <2>1, <2>3 DEF Replies
  <2> QED BY <1>2, <2>4, <2>5, <2>6
<1>4. CASE SolverEnds
  <2>1. process' = "exited" /\ UNCHANGED <<phase, verdict>> BY <1>4 DEF SolverEnds, Finish
  <2>2. Directory' BY <1>1, <2>1, DirectoryKept DEF HasManifest
  <2>3. Records' BY <1>1, <2>1 DEF Records
  <2>4. Replies' BY <1>1, <2>1 DEF Replies
  <2> QED BY <1>2, <2>2, <2>3, <2>4
<1> QED BY <1>3, <1>4

LEMMA EnvironmentKeeps ==
    ASSUME IInv, TypeOK', ForeignRun \/ ServiceRestarts
    PROVE  Table' /\ Directory' /\ Records' /\ Replies'
<1> USE DEF IInv
<1>1. UNCHANGED lifeVars BY DEF ForeignRun, ServiceRestarts
<1>2. UNCHANGED <<phase, process, success, asked, verdict>> BY <1>1 DEF lifeVars
<1>3. HasManifest' = HasManifest BY <1>2 DEF HasManifest
<1>4. CASE ForeignRun
  <2>1. owner = "none" /\ owner' = "foreign" /\ UNCHANGED <<job, worker, pc, reply>>
    BY <1>4 DEF ForeignRun
  <2>2. Table' BY <2>1, TableKept
  <2>3. Directory' BY <2>1 DEF Directory
  <2>4. Records' BY <1>2, <2>1 DEF Records
  <2>5. Replies' BY <1>2, <2>1 DEF Replies
  <2> QED BY <2>2, <2>3, <2>4, <2>5
<1>5. CASE ServiceRestarts
  <2>1. /\ job'.state = "none" /\ job'.result = FALSE /\ job'.class = "pending"
        /\ worker' = "none" /\ owner' = owner
        /\ \A r \in Requests : pc'[r] \in {"idle", "gone"}
        /\ \A w \in Reads : reply'[w].state = "none"
    BY <1>5 DEF ServiceRestarts, NoJob, NoReply
  <2>2. Starts \subseteq Requests BY DEF Requests
  <2>3. Holders' = {} BY <2>1, <2>2 DEF Holders
  <2>4. Table' BY <2>1, <2>2, <2>3 DEF Table
  <2>5. Directory' BY <1>3, <2>1, <2>2 DEF Directory
  <2>6. Records' BY <1>2, <2>1 DEF Records
  <2>7. Replies' BY <2>1 DEF Replies
  <2> QED BY <2>4, <2>5, <2>6, <2>7
<1> QED BY <1>4, <1>5

LEMMA InvStep == IInv /\ [Next]_vars => IInv'
<1> SUFFICES ASSUME IInv, [Next]_vars PROVE IInv' OBVIOUS
<1>1. TypeOK' BY TypeStep DEF IInv
<1>2. ASSUME NEW r \in Starts, StartPreflight(r) \/ StartStep(r) PROVE IInv'
  BY <1>1, <1>2, StartKeeps DEF IInv
<1>3. ASSUME NEW c \in Stops, StopLooks(c) \/ StopStep(c) PROVE IInv'
  BY <1>1, <1>3, StopKeeps DEF IInv
<1>4. ASSUME NEW w \in Reads, ReadLooks(w) \/ ReadStep(w) PROVE IInv'
  BY <1>1, <1>4, ReadKeeps DEF IInv
<1>5. CASE WorkerStep BY <1>1, <1>5, WorkerKeeps DEF IInv
<1>6. CASE SupervisedStep \/ SolverEnds BY <1>1, <1>6, RunKeeps DEF IInv
<1>7. CASE ForeignRun \/ ServiceRestarts BY <1>1, <1>7, EnvironmentKeeps DEF IInv
<1>8. CASE UNCHANGED vars
  BY <1>1, <1>8 DEF vars, serviceVars, lifeVars, IInv, Table, Holders, Directory, HasManifest,
     Records, Replies
<1> QED BY <1>2, <1>3, <1>4, <1>5, <1>6, <1>7, <1>8 DEF Next

LEMMA Invariant == Spec => []IInv
BY InvInit, InvStep, PTL DEF Spec

-----------------------------------------------------------------------------
(* The promises of the service *)

(* However many run requests name the directory and however they interleave  *)
(* with each other, the worker, a foreign run and restarts, at most one      *)
(* holds a reservation, and the table has an entry exactly while one does.   *)
THEOREM OneJobOnly == Spec => []OneJob
<1>1. IInv => OneJob BY DEF IInv, Table, Holders, OneJob
<1> QED BY <1>1, Invariant, PTL

(* The worker supervises only a run whose directory it made, and a manifest  *)
(* in a directory nobody else took is the job's own.                         *)
THEOREM WorkerOwnsItsRun == Spec => []WorkerOwnsRun
<1>1. IInv => WorkerOwnsRun BY DEF IInv, TypeOK, Directory, WorkerOwnsRun
<1> QED BY <1>1, Invariant, PTL

(* A status request that answered "terminal" said nothing that a later step  *)
(* of the solver, the worker or another request makes untrue.                *)
THEOREM TerminalRepliesAreTrue == Spec => []TerminalReplyIsTrue
<1>1. IInv => TerminalReplyIsTrue BY DEF IInv, Replies, TerminalReplyIsTrue
<1> QED BY <1>1, Invariant, PTL
=============================================================================
