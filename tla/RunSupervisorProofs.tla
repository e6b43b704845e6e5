------------------------- MODULE RunSupervisorProofs ------------------------
(***************************************************************************)
(* What holds of one output directory for any number of run, stop and      *)
(* status commands, any solver results and any of the environment faults.  *)
(***************************************************************************)
EXTENDS RunSupervisor, TLAPS

-----------------------------------------------------------------------------
(* Type correctness *)

(* The control states of run_bsam and of the clients are disjoint but for    *)
(* "crashed", so a Goto keeps every pc in its own set.                       *)
LEMMA GotoSupervisor ==
    ASSUME TypeOK, NEW s \in Supervisors, NEW from, NEW to \in SupervisorPcs,
           Goto(s, from, to)
    PROVE  /\ pc' \in [Procs -> SupervisorPcs \cup ClientPcs]
           /\ \A t \in Supervisors : pc'[t] \in SupervisorPcs
           /\ \A c \in Clients : pc'[c] = pc[c] /\ pc'[c] \in ClientPcs
           /\ pc[s] = from /\ pc'[s] = to
           /\ \A t \in Supervisors : t # s => pc'[t] = pc[t]
BY SupervisorAssumption DEF TypeOK, Goto, Procs

LEMMA GotoClient ==
    ASSUME TypeOK, NEW c \in Clients, NEW from, NEW to \in ClientPcs, Goto(c, from, to)
    PROVE  /\ pc' \in [Procs -> SupervisorPcs \cup ClientPcs]
           /\ \A t \in Supervisors : pc'[t] = pc[t] /\ pc'[t] \in SupervisorPcs
           /\ \A d \in Clients : pc'[d] \in ClientPcs
           /\ pc[c] = from /\ pc'[c] = to
           /\ \A d \in Clients : d # c => pc'[d] = pc[d]
BY SupervisorAssumption DEF TypeOK, Goto, Procs

(* The labels, for leaves that only need to know that one is a control state *)
LEMMA Labels ==
    /\ {"preflight", "mkdir", "refused", "writeStarting", "spawn", "writeRunning", "poll",
        "checkStop", "openTimeout", "writeTimeout", "rereadTimeout", "stopping", "terminate",
        "killing", "writeFailed", "collect", "writeTerminal", "returned", "raised",
        "crashed"} = SupervisorPcs
    /\ "crashed" \in ClientPcs
BY DEF SupervisorPcs, OwnerPcs, TryPcs, LoopPcs, EndPcs, ClientPcs

LEMMA TypeInit == Init => TypeOK
<1> SUFFICES ASSUME Init PROVE TypeOK OBVIOUS
<1>1. /\ pc \in [Procs -> SupervisorPcs \cup ClientPcs]
      /\ \A s \in Supervisors : pc[s] \in SupervisorPcs
      /\ \A c \in Clients : pc[c] \in ClientPcs
  <2>1. "preflight" \in SupervisorPcs /\ "idle" \in ClientPcs BY Labels DEF ClientPcs
  <2>2. pc = [p \in Procs |-> IF p \in Supervisors THEN "preflight" ELSE "idle"] BY DEF Init
  <2>3. QED BY <2>1, <2>2, SupervisorAssumption DEF Procs
<1>2. local \in [Supervisors -> LocalRecords] BY DEF Init, LocalRecords, NoLocal
<1>3. manifest \in ManifestRecords BY DEF Init, ManifestRecords, NoManifest, ManifestStates, Classes
<1>4. due \in [Supervisors -> SUBSET {"timeout", "grace"}] BY DEF Init
<1>5. QED BY <1>1, <1>2, <1>3, <1>4 DEF Init, TypeOK, BsamRecords, ManifestStates

LEMMA ClassifyType ==
    ASSUME NEW r \in [zero : BOOLEAN, sentinel : BOOLEAN, fatal : BOOLEAN], NEW q \in BOOLEAN
    PROVE  Classify(r, q) \in Classes
BY DEF Classify, Classes, Evidence

(* The records keep their types under the updates of the actions. *)
LEMMA SolverEnds ==
    ASSUME TypeOK, EndSolver
    PROVE  /\ bsam' \in BsamRecords
           /\ ~Alive'
           /\ bsam'.state = "none" <=> bsam.state = "none"
           /\ ~Alive => bsam' = bsam
<1>1. CASE ~Alive /\ UNCHANGED bsam BY <1>1 DEF TypeOK, Alive
<1>2. CASE Alive /\ \E r \in Results : bsam' = [bsam EXCEPT !.state = "exited", !.result = r]
  BY <1>2, SupervisorAssumption DEF TypeOK, BsamRecords, Alive
<1>3. QED BY <1>1, <1>2 DEF EndSolver

LEMMA LocalUpdate ==
    ASSUME TypeOK, NEW s \in Supervisors, NEW x \in LocalRecords,
           local' = [local EXCEPT ![s] = x]
    PROVE  local' \in [Supervisors -> LocalRecords]
BY DEF TypeOK

LEMMA TypeRun ==
    ASSUME TypeOK, NEW s \in Supervisors, RunStep(s)
    PROVE  TypeOK'
<1> USE DEF files, clientVars
<1>1. CASE PreflightRefuses(s) BY <1>1, GotoSupervisor, Labels DEF TypeOK, PreflightRefuses
<1>2. CASE PreflightPasses(s) BY <1>2, GotoSupervisor, Labels DEF TypeOK, PreflightPasses
<1>3. CASE MakeDirectory(s) BY <1>3, GotoSupervisor, Labels DEF TypeOK, MakeDirectory
<1>4. CASE DirectoryTaken(s) BY <1>4, GotoSupervisor, Labels DEF TypeOK, DirectoryTaken
<1>5. CASE WriteStarting(s)
  BY <1>5, GotoSupervisor, Labels DEF TypeOK, WriteStarting, NoManifest, ManifestRecords, ManifestStates, Classes
<1>6. CASE Spawn(s) BY <1>6, GotoSupervisor, Labels DEF TypeOK, BsamRecords, Spawn
<1>7. CASE SpawnFails(s) BY <1>7, GotoSupervisor, Labels DEF TypeOK, SpawnFails
<1>8. CASE WriteRunning(s)
  BY <1>8, GotoSupervisor, Labels DEF TypeOK, WriteRunning, ManifestRecords, ManifestStates
<1>9. CASE WriteRunningBlocked(s)
  BY <1>9, GotoSupervisor, Labels DEF TypeOK, WriteRunningBlocked
<1>10. CASE PollSeesExit(s) BY <1>10, GotoSupervisor, Labels DEF TypeOK, PollSeesExit
<1>11. CASE PollSamplesClock(s)
  <2>1. [local[s] EXCEPT !.now = due[s]] \in LocalRecords BY DEF TypeOK, LocalRecords
  <2>2. local' \in [Supervisors -> LocalRecords] BY <1>11, <2>1, LocalUpdate DEF PollSamplesClock
  <2>3. QED BY <1>11, <2>2, GotoSupervisor, Labels DEF TypeOK, PollSamplesClock
<1>12. CASE NoStopYet(s) BY <1>12, GotoSupervisor, Labels DEF TypeOK, NoStopYet
<1>13. CASE TimesOut(s)
  <2>1. [local[s] EXCEPT !.timedOut = TRUE] \in LocalRecords BY DEF TypeOK, LocalRecords
  <2>2. local' \in [Supervisors -> LocalRecords] BY <1>13, <2>1, LocalUpdate DEF TimesOut
  <2>3. QED BY <1>13, <2>2, GotoSupervisor, Labels DEF TypeOK, TimesOut
<1>14. CASE SeesStop(s) BY <1>14, GotoSupervisor, Labels DEF TypeOK, SeesStop
<1>15. CASE StopUnreadable(s)
  BY <1>15, GotoSupervisor, Labels DEF TypeOK, StopUnreadable
<1>16. CASE OpenTimeoutRequest(s)
  BY <1>16, GotoSupervisor, Labels DEF TypeOK, OpenTimeoutRequest
<1>17. CASE TimeoutRequestExists(s)
  BY <1>17, GotoSupervisor, Labels DEF TypeOK, TimeoutRequestExists
<1>18. CASE WriteTimeoutRequest(s)
  BY <1>18, GotoSupervisor, Labels DEF TypeOK, WriteTimeoutRequest, Reasons
<1>19. CASE RereadTimeoutRequest(s)
  BY <1>19, GotoSupervisor, Labels DEF TypeOK, RereadTimeoutRequest
<1>20. CASE AssertStop(s)
  <2> DEFINE over == NoGrace \/ "grace" \in local[s].now
  <2>1. over \in BOOLEAN BY SupervisorAssumption
  <2>2. (IF over THEN "terminate" ELSE "poll") \in SupervisorPcs BY Labels
  <2>3. Goto(s, "stopping", IF over THEN "terminate" ELSE "poll") BY <1>20 DEF AssertStop
  <2>4. [local[s] EXCEPT !.graceSet = TRUE, !.escalated = local[s].escalated \/ over] \in LocalRecords
    BY <2>1 DEF TypeOK, LocalRecords
  <2>5. local' = [local EXCEPT ![s] = [local[s] EXCEPT !.graceSet = TRUE, !.escalated = local[s].escalated \/ over]]
    BY <1>20 DEF AssertStop
  <2>6. local' \in [Supervisors -> LocalRecords] BY <2>4, <2>5, LocalUpdate
  <2>7. QED BY <1>20, <2>2, <2>3, <2>6, GotoSupervisor DEF TypeOK, AssertStop
<1>21. CASE Terminate(s)
  BY <1>21, GotoSupervisor, Labels, SolverEnds DEF TypeOK, Terminate
<1>22. CASE KillSolver(s)
  BY <1>22, GotoSupervisor, Labels, SolverEnds DEF TypeOK, KillSolver
<1>23. CASE WriteFailed(s)
  BY <1>23, GotoSupervisor, Labels DEF TypeOK, WriteFailed, ManifestRecords, ManifestStates, Classes
<1>24. CASE CollectEvidence(s)
  <2>1. [local[s] EXCEPT !.seen = IF Requested THEN stopFile ELSE "none"] \in LocalRecords
    BY DEF TypeOK, LocalRecords, Requested
  <2>2. local' \in [Supervisors -> LocalRecords] BY <1>24, <2>1, LocalUpdate DEF CollectEvidence
  <2>3. QED BY <1>24, <2>2, GotoSupervisor, Labels DEF TypeOK, CollectEvidence
<1>25. CASE CollectFails(s) BY <1>25, GotoSupervisor, Labels DEF TypeOK, CollectFails
<1>26. CASE WriteTerminal(s)
  <2>1. Classify(bsam.result, local[s].seen # "none") \in Classes BY ClassifyType DEF TypeOK, BsamRecords
  <2>2. manifest' \in ManifestRecords
    BY <1>26, <2>1 DEF TypeOK, ManifestRecords, LocalRecords, WriteTerminal, ManifestStates
  <2>3. QED BY <1>26, <2>2, GotoSupervisor, Labels DEF TypeOK, WriteTerminal
<1>27. CASE Unhandled(s) BY <1>27, GotoSupervisor, Labels DEF TypeOK, Unhandled
<1>28. QED
  BY <1>1, <1>2, <1>3, <1>4, <1>5, <1>6, <1>7, <1>8, <1>9, <1>10, <1>11, <1>12, <1>13, <1>14,
     <1>15, <1>16, <1>17, <1>18, <1>19, <1>20, <1>21, <1>22, <1>23, <1>24, <1>25, <1>26, <1>27
     DEF RunStep

LEMMA TypeClient ==
    ASSUME TypeOK, NEW c \in Clients, ClientStep(c)
    PROVE  TypeOK'
<1> USE DEF files, clientVars, Finish
<1> DEFINE answers == {"none", "report", "refused", "already", "error", "accepted"}
<1>0. {"loading", "checking", "opening", "writing", "rereading", "signalling", "done"}
        \subseteq ClientPcs
  BY DEF ClientPcs
<1>1. CASE OpenManifest(c)
  BY <1>0, <1>1, GotoClient DEF TypeOK, OpenManifest, ManifestRecords
<1>2. CASE CloseManifest(c) BY <1>0, <1>2, GotoClient DEF TypeOK, CloseManifest
<1>3. CASE StatusReports(c) BY <1>0, <1>3, GotoClient DEF TypeOK, StatusReports
<1>4. CASE StopRefused(c) BY <1>0, <1>4, GotoClient DEF TypeOK, StopRefused
<1>5. CASE StopAlreadyTerminal(c) BY <1>0, <1>5, GotoClient DEF TypeOK, StopAlreadyTerminal
<1>6. CASE StopProceeds(c) BY <1>0, <1>6, GotoClient DEF TypeOK, StopProceeds
<1>7. CASE ClientReadFails(c) BY <1>0, <1>7, GotoClient DEF TypeOK, ClientReadFails
<1>8. CASE OpenRequest(c) BY <1>0, <1>8, GotoClient DEF TypeOK, OpenRequest
<1>9. CASE RequestExists(c) BY <1>0, <1>9, GotoClient DEF TypeOK, RequestExists
<1>10. CASE WriteRequest(c) BY <1>0, <1>10, GotoClient DEF TypeOK, WriteRequest, Reasons
<1>11. CASE RereadRequest(c) BY <1>0, <1>11, GotoClient DEF TypeOK, RereadRequest
<1>12. CASE SignalStop(c) BY <1>0, <1>12, GotoClient DEF TypeOK, SignalStop
<1>13. QED
  BY <1>1, <1>2, <1>3, <1>4, <1>5, <1>6, <1>7, <1>8, <1>9, <1>10, <1>11, <1>12 DEF ClientStep

(* Every step keeps every variable in its type. *)
LEMMA TypeStep == TypeOK /\ [Next]_vars => TypeOK'
<1> SUFFICES ASSUME TypeOK, [Next]_vars PROVE TypeOK' OBVIOUS
<1> USE DEF files, clientVars
<1>1. CASE \E s \in Supervisors : RunStep(s) BY <1>1, TypeRun
<1>2. CASE \E c \in Clients : ClientStep(c) BY <1>2, TypeClient
<1>3. CASE \E s \in Supervisors : FileFault(s)
  BY <1>3, GotoSupervisor, Labels DEF TypeOK, FileFault
<1>4. CASE \E s \in Supervisors : SupervisorCrash(s)
  BY <1>4, GotoSupervisor, Labels DEF TypeOK, SupervisorCrash
<1>5. CASE \E s \in Supervisors : DeadlinePasses(s) BY <1>5 DEF TypeOK, DeadlinePasses
<1>6. CASE \E c \in Stoppers : StopperCrash(c)
  BY <1>6, GotoClient, Labels DEF TypeOK, StopperCrash, Clients
<1>7. CASE SolverOpensControlFile BY <1>7 DEF TypeOK, SolverOpensControlFile, BsamRecords
<1>8. CASE SolverExits BY <1>8, SolverEnds DEF TypeOK, SolverExits, EndSolver
<1>9. CASE UNCHANGED vars BY <1>9 DEF TypeOK, vars
<1>10. QED BY <1>1, <1>2, <1>3, <1>4, <1>5, <1>6, <1>7, <1>8, <1>9 DEF Next

(* Whatever the commands, the solver and the environment do, every variable  *)
(* keeps a value that the code can give it.                                  *)
THEOREM TypeCorrect == Spec => []TypeOK
BY TypeInit, TypeStep, PTL DEF Spec

-----------------------------------------------------------------------------
(* The inductive invariant. OneOwner and TerminalIsDead are not inductive:   *)
(* they rest on what the owner's control state says of the disk and of the   *)
(* solver, and the verdict on where a timed out or escalating owner is when  *)
(* its request is known to be complete.                                      *)

Directory ==
    /\ dirMade <=> Owners # {}
    /\ manifest.state # "absent" => dirMade

OwnerPhase ==
    \A s \in Supervisors :
        /\ pc[s] = "writeStarting" => manifest.state = "absent" /\ bsam.state = "none"
        /\ pc[s] = "spawn" => manifest.state = "starting" /\ bsam.state = "none"
        /\ pc[s] = "writeRunning" => manifest.state = "starting" /\ bsam.state # "none"
        /\ pc[s] \in LoopPcs \cup {"collect", "writeTerminal"} =>
              manifest.state = "running" /\ bsam.state # "none"
        /\ pc[s] \in {"killing", "writeFailed"} => manifest.state \in {"starting", "running"}
        /\ pc[s] \in {"writeFailed", "collect", "writeTerminal"} => ~Alive

(* The stop request is empty as long as somebody is going to write it. *)
Writers == {c \in Stoppers : pc[c] = "writing"} \cup {s \in Supervisors : pc[s] = "writeTimeout"}

OneWriter ==
    /\ Writers # {} => stopFile = "partial"
    /\ \A p, q \in Writers : p = q

StopKnown ==
    \A s \in Supervisors :
        /\ pc[s] \in {"stopping", "terminate"} => Requested
        /\ pc[s] \in {"preflight", "mkdir"} => ~local[s].timedOut
        /\ local[s].escalated => Requested
        /\ local[s].seen # "none" => local[s].seen = stopFile /\ Requested
        /\ local[s].timedOut /\ pc[s] \in OwnerPcs
              \ {"openTimeout", "writeTimeout", "rereadTimeout", "killing", "writeFailed"}
              => Requested

ManifestFresh ==
    manifest.state # "terminal" => manifest = [NoManifest EXCEPT !.state = manifest.state]

(* A client that is past the manifest has found one. *)
ClientsStarted ==
    \A c \in Clients : pc[c] \in ClientPcs \ {"idle"} => manifest.state # "absent"

WatchersOnlyRead == \A w \in Watchers : pc[w] \in {"idle", "loading", "checking", "done"}

IInv ==
    /\ TypeOK
    /\ OneOwner
    /\ Directory
    /\ OwnerPhase
    /\ OneWriter
    /\ StopKnown
    /\ ManifestFresh
    /\ WatchersOnlyRead
    /\ ClientsStarted
    /\ TerminalIsDead
    /\ VerdictJustified
    /\ StopIsIdempotent

LEMMA OwnershipInit == Init => OneOwner /\ Directory /\ OwnerPhase /\ TerminalIsDead
<1> SUFFICES ASSUME Init PROVE OneOwner /\ Directory /\ OwnerPhase /\ TerminalIsDead OBVIOUS
<1>1. \A s \in Supervisors : pc[s] = "preflight" BY DEF Init, Procs
<1>2. Owners = {} BY <1>1 DEF Owners, OwnerPcs, TryPcs, LoopPcs, EndPcs
<1>3. manifest.state = "absent" /\ bsam.state = "none" /\ ~dirMade BY DEF Init, NoManifest
<1>4. OwnerPhase BY <1>1 DEF OwnerPhase, LoopPcs
<1>5. QED BY <1>2, <1>3, <1>4 DEF OneOwner, Directory, TerminalIsDead, Alive

LEMMA OwnershipRun ==
    ASSUME TypeOK, OneOwner, Directory, OwnerPhase, TerminalIsDead,
           NEW s \in Supervisors, RunStep(s)
    PROVE  OneOwner' /\ Directory' /\ OwnerPhase' /\ TerminalIsDead'
<1> USE GotoSupervisor, Labels
    DEF files, clientVars, OneOwner, Directory, OwnerPhase, TerminalIsDead, Owners, Alive,
        OwnerPcs, TryPcs, LoopPcs, EndPcs
<1>1. CASE PreflightRefuses(s) BY <1>1 DEF PreflightRefuses
<1>2. CASE PreflightPasses(s) BY <1>2 DEF PreflightPasses
<1>3. CASE MakeDirectory(s) BY <1>3 DEF MakeDirectory
<1>4. CASE DirectoryTaken(s) BY <1>4 DEF DirectoryTaken
<1>5. CASE WriteStarting(s) BY <1>5 DEF WriteStarting
<1>6. CASE Spawn(s) BY <1>6 DEF Spawn
<1>7. CASE SpawnFails(s) BY <1>7 DEF SpawnFails
<1>8. CASE WriteRunning(s) BY <1>8 DEF WriteRunning
<1>9. CASE WriteRunningBlocked(s) BY <1>9 DEF WriteRunningBlocked
<1>10. CASE PollSeesExit(s) BY <1>10 DEF PollSeesExit
<1>11. CASE PollSamplesClock(s) BY <1>11 DEF PollSamplesClock
<1>12. CASE NoStopYet(s) BY <1>12 DEF NoStopYet
<1>13. CASE TimesOut(s) BY <1>13 DEF TimesOut
<1>14. CASE SeesStop(s) BY <1>14 DEF SeesStop
<1>15. CASE StopUnreadable(s) BY <1>15 DEF StopUnreadable
<1>16. CASE OpenTimeoutRequest(s) BY <1>16 DEF OpenTimeoutRequest
<1>17. CASE TimeoutRequestExists(s) BY <1>17 DEF TimeoutRequestExists
<1>18. CASE WriteTimeoutRequest(s) BY <1>18 DEF WriteTimeoutRequest
<1>19. CASE RereadTimeoutRequest(s) BY <1>19 DEF RereadTimeoutRequest
<1>20. CASE AssertStop(s) BY <1>20 DEF AssertStop
<1>21. CASE Terminate(s) BY <1>21, SolverEnds DEF Terminate
<1>22. CASE KillSolver(s) BY <1>22, SolverEnds DEF KillSolver
<1>23. CASE WriteFailed(s) BY <1>23 DEF WriteFailed
<1>24. CASE CollectEvidence(s) BY <1>24 DEF CollectEvidence
<1>25. CASE CollectFails(s) BY <1>25 DEF CollectFails
<1>26. CASE WriteTerminal(s) BY <1>26 DEF WriteTerminal
<1>27. CASE Unhandled(s) BY <1>27 DEF Unhandled
<1>28. QED
  BY <1>1, <1>2, <1>3, <1>4, <1>5, <1>6, <1>7, <1>8, <1>9, <1>10, <1>11, <1>12, <1>13, <1>14, <1>15, <1>16, <1>17, <1>18, <1>19, <1>20, <1>21, <1>22, <1>23, <1>24, <1>25, <1>26, <1>27
     DEF RunStep

LEMMA OwnershipStep ==
    ASSUME TypeOK, OneOwner, Directory, OwnerPhase, TerminalIsDead, [Next]_vars
    PROVE  OneOwner' /\ Directory' /\ OwnerPhase' /\ TerminalIsDead'
<1> USE DEF files, clientVars
<1> DEFINE Ownership == OneOwner /\ Directory /\ OwnerPhase /\ TerminalIsDead
(* Steps that leave the directory, the manifest and every supervisor alone *)
<1>0. ASSUME UNCHANGED <<dirMade, manifest>>, \A s \in Supervisors : pc'[s] = pc[s],
             bsam'.state = bsam.state \/ (Alive /\ bsam'.state = "exited")
      PROVE  Ownership'
  BY <1>0 DEF OneOwner, Directory, OwnerPhase, TerminalIsDead, Owners, Alive
<1>1. CASE \E s \in Supervisors : RunStep(s) BY <1>1, OwnershipRun
<1>2. CASE \E c \in Clients : ClientStep(c)
  <2>1. PICK c \in Clients : ClientStep(c) BY <1>2
  <2>2. /\ UNCHANGED <<dirMade, manifest, bsam>>
        /\ \E from, to \in ClientPcs : Goto(c, from, to)
    BY <2>1 DEF ClientStep, OpenManifest, CloseManifest, StatusReports, StopRefused,
       StopAlreadyTerminal, StopProceeds, ClientReadFails, OpenRequest, RequestExists,
       WriteRequest, RereadRequest, SignalStop, Finish, ClientPcs
  <2>3. \A s \in Supervisors : pc'[s] = pc[s] BY <2>2, GotoClient
  <2>4. QED BY <1>0, <2>2, <2>3
<1>3. CASE \E s \in Supervisors : FileFault(s)
  BY <1>3, GotoSupervisor, Labels
     DEF FileFault, OneOwner, Directory, OwnerPhase, TerminalIsDead, Owners, Alive, OwnerPcs,
         TryPcs, LoopPcs, EndPcs
<1>4. CASE \E s \in Supervisors : SupervisorCrash(s)
  BY <1>4, GotoSupervisor, Labels
     DEF SupervisorCrash, OneOwner, Directory, OwnerPhase, TerminalIsDead, Owners, Alive,
         OwnerPcs, TryPcs, LoopPcs, EndPcs
<1>5. CASE \E s \in Supervisors : DeadlinePasses(s) BY <1>0, <1>5 DEF DeadlinePasses
<1>6. CASE \E c \in Stoppers : StopperCrash(c)
  <2>1. \A s \in Supervisors : pc'[s] = pc[s]
    BY <1>6, GotoClient, Labels DEF StopperCrash, Clients
  <2>2. QED BY <1>0, <1>6, <2>1 DEF StopperCrash
<1>7. CASE SolverOpensControlFile BY <1>0, <1>7 DEF SolverOpensControlFile, TypeOK, BsamRecords
<1>8. CASE SolverExits BY <1>0, <1>8 DEF SolverExits, TypeOK, BsamRecords
<1>9. CASE UNCHANGED vars BY <1>0, <1>9 DEF vars
<1>10. QED BY <1>1, <1>2, <1>3, <1>4, <1>5, <1>6, <1>7, <1>8, <1>9 DEF Next

-----------------------------------------------------------------------------
(* The stop request and the verdict *)

LEMMA RequestRun ==
    ASSUME TypeOK, OneWriter, WatchersOnlyRead, StopIsIdempotent, NEW s \in Supervisors, RunStep(s)
    PROVE  OneWriter' /\ WatchersOnlyRead' /\ StopIsIdempotent' /\ (Requested => stopFile' = stopFile)
<1> USE GotoSupervisor, Labels, SupervisorAssumption
    DEF files, clientVars, OneWriter, WatchersOnlyRead, StopIsIdempotent, Requested, Writers, Clients, Reasons
<1>1. CASE PreflightRefuses(s) BY <1>1 DEF PreflightRefuses
<1>2. CASE PreflightPasses(s) BY <1>2 DEF PreflightPasses
<1>3. CASE MakeDirectory(s) BY <1>3 DEF MakeDirectory
<1>4. CASE DirectoryTaken(s) BY <1>4 DEF DirectoryTaken
<1>5. CASE WriteStarting(s) BY <1>5 DEF WriteStarting
<1>6. CASE Spawn(s) BY <1>6 DEF Spawn
<1>7. CASE SpawnFails(s) BY <1>7 DEF SpawnFails
<1>8. CASE WriteRunning(s) BY <1>8 DEF WriteRunning
<1>9. CASE WriteRunningBlocked(s) BY <1>9 DEF WriteRunningBlocked
<1>10. CASE PollSeesExit(s) BY <1>10 DEF PollSeesExit
<1>11. CASE PollSamplesClock(s) BY <1>11 DEF PollSamplesClock
<1>12. CASE NoStopYet(s) BY <1>12 DEF NoStopYet
<1>13. CASE TimesOut(s) BY <1>13 DEF TimesOut
<1>14. CASE SeesStop(s) BY <1>14 DEF SeesStop
<1>15. CASE StopUnreadable(s) BY <1>15 DEF StopUnreadable
<1>16. CASE OpenTimeoutRequest(s) BY <1>16 DEF OpenTimeoutRequest
<1>17. CASE TimeoutRequestExists(s) BY <1>17 DEF TimeoutRequestExists
<1>18. CASE WriteTimeoutRequest(s) BY <1>18 DEF WriteTimeoutRequest
<1>19. CASE RereadTimeoutRequest(s) BY <1>19 DEF RereadTimeoutRequest
<1>20. CASE AssertStop(s) BY <1>20 DEF AssertStop
<1>21. CASE Terminate(s) BY <1>21 DEF Terminate
<1>22. CASE KillSolver(s) BY <1>22 DEF KillSolver
<1>23. CASE WriteFailed(s) BY <1>23 DEF WriteFailed
<1>24. CASE CollectEvidence(s) BY <1>24 DEF CollectEvidence
<1>25. CASE CollectFails(s) BY <1>25 DEF CollectFails
<1>26. CASE WriteTerminal(s) BY <1>26 DEF WriteTerminal
<1>27. CASE Unhandled(s) BY <1>27 DEF Unhandled
<1>28. QED
  BY <1>1, <1>2, <1>3, <1>4, <1>5, <1>6, <1>7, <1>8, <1>9, <1>10, <1>11, <1>12, <1>13, <1>14, <1>15, <1>16, <1>17, <1>18, <1>19, <1>20, <1>21, <1>22, <1>23, <1>24, <1>25, <1>26, <1>27
     DEF RunStep

LEMMA RequestClient ==
    ASSUME TypeOK, OneWriter, WatchersOnlyRead, StopIsIdempotent, NEW c \in Clients, ClientStep(c)
    PROVE  OneWriter' /\ WatchersOnlyRead' /\ StopIsIdempotent' /\ (Requested => stopFile' = stopFile)
<1> USE GotoClient, SupervisorAssumption
    DEF files, clientVars, OneWriter, WatchersOnlyRead, StopIsIdempotent, Requested, Writers, Finish,
        Clients, Reasons, ClientPcs
<1>1. CASE OpenManifest(c) BY <1>1 DEF OpenManifest
<1>2. CASE CloseManifest(c) BY <1>2 DEF CloseManifest
<1>3. CASE StatusReports(c) BY <1>3 DEF StatusReports
<1>4. CASE StopRefused(c) BY <1>4 DEF StopRefused
<1>5. CASE StopAlreadyTerminal(c) BY <1>5 DEF StopAlreadyTerminal
<1>6. CASE StopProceeds(c) BY <1>6 DEF StopProceeds
<1>7. CASE ClientReadFails(c) BY <1>7 DEF ClientReadFails
<1>8. CASE OpenRequest(c) BY <1>8 DEF OpenRequest
<1>9. CASE RequestExists(c) BY <1>9 DEF RequestExists
<1>10. CASE WriteRequest(c) BY <1>10 DEF WriteRequest
<1>11. CASE RereadRequest(c) BY <1>11 DEF RereadRequest
<1>12. CASE SignalStop(c) BY <1>12 DEF SignalStop
<1>13. QED
  BY <1>1, <1>2, <1>3, <1>4, <1>5, <1>6, <1>7, <1>8, <1>9, <1>10, <1>11, <1>12
     DEF ClientStep

LEMMA RequestInit == Init => OneWriter /\ WatchersOnlyRead /\ StopIsIdempotent
<1> SUFFICES ASSUME Init PROVE OneWriter /\ WatchersOnlyRead /\ StopIsIdempotent OBVIOUS
<1>1. \A s \in Supervisors : pc[s] = "preflight" BY DEF Init, Procs
<1>2. \A c \in Clients : pc[c] = "idle" /\ reply[c] = "none"
  BY SupervisorAssumption DEF Init, Procs
<1>3. Writers = {} BY <1>1, <1>2 DEF Writers, Clients
<1>4. QED BY <1>2, <1>3 DEF OneWriter, WatchersOnlyRead, StopIsIdempotent, Clients

LEMMA RequestStep ==
    ASSUME TypeOK, OneWriter, WatchersOnlyRead, StopIsIdempotent, [Next]_vars
    PROVE  OneWriter' /\ WatchersOnlyRead' /\ StopIsIdempotent' /\ (Requested => stopFile' = stopFile)
<1> USE DEF files, clientVars
<1>1. CASE \E s \in Supervisors : RunStep(s) BY <1>1, RequestRun
<1>2. CASE \E c \in Clients : ClientStep(c) BY <1>2, RequestClient
<1>3. CASE \E s \in Supervisors : FileFault(s) \/ SupervisorCrash(s)
  BY <1>3, GotoSupervisor, Labels, SupervisorAssumption
     DEF FileFault, SupervisorCrash, OneWriter, WatchersOnlyRead, StopIsIdempotent, Requested,
         Writers, Clients, Reasons
<1>4. CASE \E c \in Stoppers : StopperCrash(c)
  BY <1>4, GotoClient, Labels, SupervisorAssumption
     DEF StopperCrash, OneWriter, WatchersOnlyRead, StopIsIdempotent, Requested, Writers, Clients,
         Reasons
<1>5. CASE UNCHANGED <<stopFile, pc, reply>>
  BY <1>5 DEF OneWriter, WatchersOnlyRead, StopIsIdempotent, Requested, Writers
<1>6. QED
  BY <1>1, <1>2, <1>3, <1>4, <1>5
     DEF Next, vars, DeadlinePasses, SolverOpensControlFile, SolverExits

(* What run_bsam knows of the request, and what the manifest says. *)
Verdict == StopKnown /\ ManifestFresh /\ VerdictJustified

LEMMA VerdictRun ==
    ASSUME TypeOK, TypeOK', OneOwner, OwnerPhase, TerminalIsDead, Verdict,
           Requested => stopFile' = stopFile, NEW s \in Supervisors, RunStep(s)
    PROVE  Verdict'
<1> USE GotoSupervisor, Labels
    DEF files, clientVars, OneOwner, OwnerPhase, TerminalIsDead, Owners, Alive, Verdict, StopKnown,
        ManifestFresh, VerdictJustified, Requested, OwnerPcs, TryPcs, LoopPcs, EndPcs, Reasons
<1>1. CASE PreflightRefuses(s) BY <1>1 DEF PreflightRefuses, TypeOK
<1>2. CASE PreflightPasses(s) BY <1>2 DEF PreflightPasses, TypeOK
<1>3. CASE MakeDirectory(s) BY <1>3 DEF MakeDirectory, TypeOK
<1>4. CASE DirectoryTaken(s) BY <1>4 DEF DirectoryTaken, TypeOK
<1>5. CASE WriteStarting(s) BY <1>5 DEF WriteStarting, TypeOK
<1>6. CASE Spawn(s) BY <1>6 DEF Spawn, TypeOK
<1>7. CASE SpawnFails(s) BY <1>7 DEF SpawnFails, TypeOK
<1>8. CASE WriteRunning(s) BY <1>8 DEF WriteRunning, TypeOK
<1>9. CASE WriteRunningBlocked(s) BY <1>9 DEF WriteRunningBlocked, TypeOK
<1>10. CASE PollSeesExit(s) BY <1>10 DEF PollSeesExit, TypeOK
<1>11. CASE PollSamplesClock(s) BY <1>11 DEF PollSamplesClock, TypeOK
<1>12. CASE NoStopYet(s) BY <1>12 DEF NoStopYet, TypeOK
<1>13. CASE TimesOut(s) BY <1>13 DEF TimesOut, TypeOK
<1>14. CASE SeesStop(s) BY <1>14 DEF SeesStop, TypeOK
<1>15. CASE StopUnreadable(s) BY <1>15 DEF StopUnreadable, TypeOK
<1>16. CASE OpenTimeoutRequest(s) BY <1>16 DEF OpenTimeoutRequest, TypeOK
<1>17. CASE TimeoutRequestExists(s) BY <1>17 DEF TimeoutRequestExists, TypeOK
<1>18. CASE WriteTimeoutRequest(s) BY <1>18 DEF WriteTimeoutRequest, TypeOK
<1>19. CASE RereadTimeoutRequest(s) BY <1>19 DEF RereadTimeoutRequest, TypeOK
<1>20. CASE AssertStop(s) BY <1>20 DEF AssertStop, TypeOK
<1>21. CASE Terminate(s) BY <1>21 DEF Terminate, TypeOK
<1>22. CASE KillSolver(s) BY <1>22 DEF KillSolver, TypeOK
<1>23. CASE WriteFailed(s)
  <2>1. manifest = [NoManifest EXCEPT !.state = manifest.state] BY <1>23 DEF WriteFailed
  <2>2. manifest' = [NoManifest EXCEPT !.state = "terminal", !.class = "failed", !.error = TRUE]
    BY <1>23, <2>1 DEF WriteFailed, NoManifest
  <2>3. ~Alive' /\ StopKnown' BY <1>23 DEF WriteFailed, TypeOK
  <2>4. QED BY <2>2, <2>3 DEF NoManifest
<1>24. CASE CollectEvidence(s) BY <1>24 DEF CollectEvidence, TypeOK
<1>25. CASE CollectFails(s) BY <1>25 DEF CollectFails, TypeOK
<1>26. CASE WriteTerminal(s)
  <2>1. manifest = [NoManifest EXCEPT !.state = manifest.state] BY <1>26 DEF WriteTerminal
  <2>2. manifest' = [state |-> "terminal", class |-> Classify(bsam.result, local[s].seen # "none"),
                     reason |-> local[s].seen, timedOut |-> local[s].timedOut,
                     escalated |-> local[s].escalated, error |-> FALSE]
    BY <1>26, <2>1 DEF WriteTerminal, NoManifest
  <2>3. bsam.state = "exited" BY <1>26 DEF WriteTerminal, TypeOK, BsamRecords
  <2>4. StopKnown' BY <1>26 DEF WriteTerminal, TypeOK
  <2>5. local[s].timedOut \/ local[s].escalated => Requested BY <1>26 DEF WriteTerminal
  <2>6. local[s].seen # "none" => local[s].seen = stopFile /\ Requested
    BY DEF TypeOK
  <2>7. bsam' = bsam /\ stopFile' = stopFile BY <1>26 DEF WriteTerminal
  <2>8. VerdictJustified'
    BY <2>2, <2>3, <2>5, <2>6, <2>7 DEF Classify
  <2>9. QED BY <2>2, <2>4, <2>8
<1>27. CASE Unhandled(s) BY <1>27 DEF Unhandled, TypeOK
<1>28. QED
  BY <1>1, <1>2, <1>3, <1>4, <1>5, <1>6, <1>7, <1>8, <1>9, <1>10, <1>11, <1>12, <1>13, <1>14, <1>15, <1>16, <1>17, <1>18, <1>19, <1>20, <1>21, <1>22, <1>23, <1>24, <1>25, <1>26, <1>27
     DEF RunStep

LEMMA VerdictInit == Init => Verdict
<1> SUFFICES ASSUME Init PROVE Verdict OBVIOUS
<1>1. \A s \in Supervisors : pc[s] = "preflight" /\ local[s] = NoLocal BY DEF Init, Procs
<1>2. StopKnown BY <1>1 DEF StopKnown, NoLocal, OwnerPcs, TryPcs, LoopPcs
<1>3. QED BY <1>2 DEF Init, Verdict, ManifestFresh, VerdictJustified, NoManifest

LEMMA VerdictStep ==
    ASSUME TypeOK, TypeOK', OneOwner, OwnerPhase, TerminalIsDead, Verdict,
           Requested => stopFile' = stopFile, [Next]_vars
    PROVE  Verdict'
<1> USE DEF files, clientVars
<1>0. ASSUME UNCHANGED <<manifest, local>>, \A s \in Supervisors : pc'[s] = pc[s],
             ~Alive => UNCHANGED bsam
      PROVE  Verdict'
  <2>1. Requested => Requested' BY DEF Requested
  <2>2. StopKnown' BY <1>0, <2>1 DEF Verdict, StopKnown, Requested, TypeOK
  <2>3. ManifestFresh' BY <1>0 DEF Verdict, ManifestFresh
  <2>4. VerdictJustified'
    <3> SUFFICES ASSUME manifest.state = "terminal" PROVE VerdictJustified'
      BY <1>0 DEF VerdictJustified
    <3>1. ~Alive BY DEF TerminalIsDead
    <3>2. UNCHANGED bsam BY <1>0, <3>1
    <3>3. QED
      BY <1>0, <2>1, <3>2 DEF Verdict, VerdictJustified, Requested, TypeOK, ManifestRecords, Reasons
  <2>5. QED BY <2>2, <2>3, <2>4 DEF Verdict
<1>1. CASE \E s \in Supervisors : RunStep(s) BY <1>1, VerdictRun
<1>2. CASE \E c \in Clients : ClientStep(c)
  <2>1. PICK c \in Clients : ClientStep(c) BY <1>2
  <2>2. /\ UNCHANGED <<manifest, local, bsam>>
        /\ \E from, to \in ClientPcs : Goto(c, from, to)
    BY <2>1 DEF ClientStep, OpenManifest, CloseManifest, StatusReports, StopRefused,
       StopAlreadyTerminal, StopProceeds, ClientReadFails, OpenRequest, RequestExists,
       WriteRequest, RereadRequest, SignalStop, Finish, ClientPcs
  <2>3. \A s \in Supervisors : pc'[s] = pc[s] BY <2>2, GotoClient
  <2>4. QED BY <1>0, <2>2, <2>3
<1>3. CASE \E s \in Supervisors : FileFault(s) \/ SupervisorCrash(s)
  BY <1>3, GotoSupervisor, Labels
     DEF FileFault, SupervisorCrash, Verdict, StopKnown, ManifestFresh, VerdictJustified, Requested,
         OwnerPcs, TryPcs, LoopPcs, EndPcs
<1>4. CASE \E s \in Supervisors : DeadlinePasses(s) BY <1>0, <1>4 DEF DeadlinePasses
<1>5. CASE \E c \in Stoppers : StopperCrash(c)
  <2>1. \A s \in Supervisors : pc'[s] = pc[s]
    BY <1>5, GotoClient, Labels DEF StopperCrash, Clients
  <2>2. QED BY <1>0, <1>5, <2>1 DEF StopperCrash
<1>6. CASE SolverOpensControlFile
  BY <1>0, <1>6 DEF SolverOpensControlFile, TypeOK, BsamRecords
<1>7. CASE SolverExits BY <1>0, <1>7 DEF SolverExits, Alive
<1>8. CASE UNCHANGED vars BY <1>0, <1>8 DEF vars
<1>9. QED BY <1>1, <1>2, <1>3, <1>4, <1>5, <1>6, <1>7, <1>8 DEF Next

-----------------------------------------------------------------------------
(* Clients only ever act on an announced run *)

LEMMA StartedInit == Init => ClientsStarted
<1> SUFFICES ASSUME Init PROVE ClientsStarted OBVIOUS
<1>1. \A c \in Clients : pc[c] = "idle" BY SupervisorAssumption DEF Init, Procs
<1>2. QED BY <1>1 DEF ClientsStarted

LEMMA StartedStep ==
    ASSUME TypeOK, ClientsStarted, [Next]_vars
    PROVE  ClientsStarted'
<1> USE DEF files, clientVars
<1>1. ASSUME \A c \in Clients : pc'[c] = pc[c],
             UNCHANGED manifest \/ manifest'.state \in {"starting", "running", "terminal"}
      PROVE  ClientsStarted'
  BY <1>1 DEF ClientsStarted
<1>2. ASSUME NEW c \in Clients, NEW from, NEW to \in ClientPcs, Goto(c, from, to),
             UNCHANGED manifest, from # "idle" \/ manifest.state # "absent"
      PROVE  ClientsStarted'
  <2>1. pc[c] = from /\ pc[c] \in ClientPcs BY <1>2 DEF Goto, TypeOK
  <2>2. manifest.state # "absent" BY <1>2, <2>1 DEF ClientsStarted
  <2>3. QED BY <1>2, <2>2 DEF ClientsStarted
<1>3. ASSUME NEW s \in Supervisors, NEW from, NEW to \in SupervisorPcs, Goto(s, from, to)
      PROVE  \A c \in Clients : pc'[c] = pc[c]
  BY <1>3, GotoSupervisor
<1>4. ASSUME NEW s \in Supervisors, RunStep(s) PROVE ClientsStarted'
  <2>1. \E from, to \in SupervisorPcs : Goto(s, from, to)
    BY <1>4, Labels
       DEF RunStep, PreflightRefuses, PreflightPasses, MakeDirectory, DirectoryTaken, WriteStarting,
           Spawn, SpawnFails, WriteRunning, WriteRunningBlocked, PollSeesExit, PollSamplesClock,
           NoStopYet, TimesOut, SeesStop, StopUnreadable, OpenTimeoutRequest,
           TimeoutRequestExists, WriteTimeoutRequest, RereadTimeoutRequest, AssertStop,
           Terminate, KillSolver, WriteFailed, CollectEvidence, CollectFails, WriteTerminal,
           Unhandled
  <2>2. UNCHANGED manifest \/ manifest'.state \in {"starting", "running", "terminal"}
    <3>1. CASE WriteStarting(s) BY <3>1 DEF WriteStarting, NoManifest
    <3>2. CASE WriteRunning(s) BY <3>2 DEF WriteRunning, TypeOK, ManifestRecords
    <3>3. CASE WriteFailed(s) BY <3>3 DEF WriteFailed, TypeOK, ManifestRecords
    <3>4. CASE WriteTerminal(s) BY <3>4 DEF WriteTerminal, TypeOK, ManifestRecords
    <3>5. QED
      BY <1>4, <3>1, <3>2, <3>3, <3>4
         DEF RunStep, PreflightRefuses, PreflightPasses, MakeDirectory, DirectoryTaken, Spawn,
             SpawnFails, WriteRunningBlocked, PollSeesExit, PollSamplesClock, NoStopYet, TimesOut,
             SeesStop, StopUnreadable, OpenTimeoutRequest, TimeoutRequestExists,
             WriteTimeoutRequest, RereadTimeoutRequest, AssertStop, Terminate, KillSolver,
             CollectEvidence, CollectFails, Unhandled
  <2>3. QED BY <1>1, <1>3, <2>1, <2>2
<1>5. ASSUME NEW c \in Clients, ClientStep(c) PROVE ClientsStarted'
  <2>1. CASE OpenManifest(c) BY <1>2, <2>1 DEF OpenManifest, ClientPcs
  <2>2. CASE CloseManifest(c) BY <1>2, <2>2 DEF CloseManifest, ClientPcs
  <2>3. CASE StatusReports(c) \/ StopRefused(c) \/ StopAlreadyTerminal(c) \/ ClientReadFails(c)
    BY <1>2, <2>3
       DEF StatusReports, StopRefused, StopAlreadyTerminal, ClientReadFails, Finish, ClientPcs
  <2>4. CASE StopProceeds(c) \/ OpenRequest(c) \/ RequestExists(c)
    BY <1>2, <2>4 DEF StopProceeds, OpenRequest, RequestExists, ClientPcs
  <2>5. CASE WriteRequest(c) \/ RereadRequest(c) \/ SignalStop(c)
    BY <1>2, <2>5 DEF WriteRequest, RereadRequest, SignalStop, ClientPcs
  <2>6. QED BY <1>5, <2>1, <2>2, <2>3, <2>4, <2>5 DEF ClientStep
<1>6. CASE \E s \in Supervisors : FileFault(s) \/ SupervisorCrash(s)
  <2>1. PICK s \in Supervisors : FileFault(s) \/ SupervisorCrash(s) BY <1>6
  <2>2. \E from \in SupervisorPcs, to \in SupervisorPcs : Goto(s, from, to)
    BY <2>1, Labels DEF FileFault, SupervisorCrash, SupervisorPcs, OwnerPcs
  <2>3. \A c \in Clients : pc'[c] = pc[c] BY <1>3, <2>2
  <2>4. QED BY <1>1, <2>1, <2>3 DEF FileFault, SupervisorCrash
<1>7. CASE \E c \in Stoppers : StopperCrash(c)
  BY <1>2, <1>7 DEF StopperCrash, Clients, ClientPcs
<1>8. CASE UNCHANGED <<manifest, pc>> BY <1>1, <1>8
<1>9. QED
  BY <1>4, <1>5, <1>6, <1>7, <1>8
     DEF Next, vars, DeadlinePasses, SolverOpensControlFile, SolverExits

-----------------------------------------------------------------------------
(* The theorems *)

LEMMA InductiveInit == Init => IInv
BY TypeInit, OwnershipInit, RequestInit, VerdictInit, StartedInit DEF IInv, Verdict

LEMMA InductiveStep == IInv /\ [Next]_vars => IInv' /\ (Requested => stopFile' = stopFile)
<1> SUFFICES ASSUME IInv, [Next]_vars PROVE IInv' /\ (Requested => stopFile' = stopFile)
  OBVIOUS
<1>1. TypeOK' BY TypeStep DEF IInv
<1>2. OneOwner' /\ Directory' /\ OwnerPhase' /\ TerminalIsDead' BY OwnershipStep DEF IInv
<1>3. OneWriter' /\ WatchersOnlyRead' /\ StopIsIdempotent' /\ (Requested => stopFile' = stopFile)
  BY RequestStep DEF IInv
<1>4. Verdict' BY <1>1, <1>3, VerdictStep DEF IInv, Verdict
<1>5. ClientsStarted' BY StartedStep DEF IInv
<1>6. QED BY <1>1, <1>2, <1>3, <1>4, <1>5 DEF IInv, Verdict

THEOREM Inductive == Spec => []IInv
BY InductiveInit, InductiveStep, PTL DEF Spec

(* However many `run` commands race for the directory, at most one passes    *)
(* mkdir and owns it, and a solver runs only for that one.                   *)
THEOREM Exclusive == Spec => []OneOwner
<1>1. IInv => OneOwner BY DEF IInv
<1>2. QED BY <1>1, Inductive, PTL

(* Whoever reads a terminal manifest can rely on the solver being dead: on   *)
(* the normal path, after an escalation and after every failure.             *)
THEOREM TerminalMeansDead == Spec => []TerminalIsDead
<1>1. IInv => TerminalIsDead BY DEF IInv
<1>2. QED BY <1>1, Inductive, PTL

(* The classification, the timeout and escalation flags and the stop reason  *)
(* of a terminal manifest are backed by the process and by the request.      *)
THEOREM VerdictIsJustified == Spec => []VerdictJustified
<1>1. IInv => VerdictJustified BY DEF IInv
<1>2. QED BY <1>1, Inductive, PTL

(* Every acknowledged stop has its complete request on disk, written by the  *)
(* one requester that was told so.                                           *)
THEOREM RequestIsIdempotent == Spec => []StopIsIdempotent
<1>1. IInv => StopIsIdempotent BY DEF IInv
<1>2. QED BY <1>1, Inductive, PTL

(* A complete stop request survives every competitor, crash and fault.       *)
THEOREM RequestIsImmutable == Spec => StopRequestImmutable
<1>1. IInv /\ [Next]_vars => [Requested => stopFile' = stopFile]_vars BY InductiveStep
<1>2. QED BY <1>1, Inductive, PTL DEF Spec, StopRequestImmutable

(* The manifest moves through its states in one direction and is final once  *)
(* terminal, whichever `run` command replaces it.                            *)
THEOREM ManifestAdvances == Spec => ManifestOnlyAdvances
<1> DEFINE Advances == /\ Rank[manifest.state] <= Rank[manifest'.state]
                       /\ manifest.state = "terminal" => manifest' = manifest
<1>1. IInv /\ [Next]_vars => [Advances]_vars
  <2> SUFFICES ASSUME IInv, [Next]_vars PROVE Advances OBVIOUS
  <2>0. ASSUME UNCHANGED manifest PROVE Advances
    BY <2>0 DEF IInv, TypeOK, ManifestRecords, ManifestStates, Rank
  <2>1. ASSUME NEW s \in Supervisors, WriteStarting(s) PROVE Advances
    BY <2>1 DEF IInv, OwnerPhase, WriteStarting, Goto, NoManifest, Rank
  <2>2. ASSUME NEW s \in Supervisors, WriteRunning(s) PROVE Advances
    BY <2>2 DEF IInv, TypeOK, ManifestRecords, OwnerPhase, WriteRunning, Goto, Rank
  <2>3. ASSUME NEW s \in Supervisors, WriteFailed(s) PROVE Advances
    BY <2>3 DEF IInv, TypeOK, ManifestRecords, OwnerPhase, WriteFailed, Goto, Rank
  <2>4. ASSUME NEW s \in Supervisors, WriteTerminal(s) PROVE Advances
    BY <2>4 DEF IInv, TypeOK, ManifestRecords, OwnerPhase, WriteTerminal, Goto, Rank
  <2>5. QED
    BY <2>0, <2>1, <2>2, <2>3, <2>4
       DEF Next, RunStep, ClientStep, vars, files, Finish,
           PreflightRefuses, PreflightPasses, MakeDirectory, DirectoryTaken, Spawn, SpawnFails, WriteRunningBlocked, PollSeesExit, PollSamplesClock, NoStopYet, TimesOut, SeesStop, StopUnreadable, OpenTimeoutRequest, TimeoutRequestExists, WriteTimeoutRequest, RereadTimeoutRequest, AssertStop, Terminate, KillSolver, CollectEvidence, CollectFails, Unhandled,
           FileFault, SupervisorCrash, DeadlinePasses, StopperCrash, OpenManifest, CloseManifest,
           StatusReports, StopRefused, StopAlreadyTerminal, StopProceeds, ClientReadFails,
           OpenRequest, RequestExists, WriteRequest, RereadRequest, SignalStop,
           SolverOpensControlFile, SolverExits
<1>2. QED BY <1>1, Inductive, PTL DEF Spec, ManifestOnlyAdvances

-----------------------------------------------------------------------------
(* Refinement: every step of the run directory is a step of RunLifecycle or  *)
(* leaves what its readers see unchanged.                                    *)

LEMMA LifecycleInit == Init => Lifecycle!LifeInit
BY DEF Init, Lifecycle!LifeInit, NoManifest, Requested, Reasons

(* The steps that touch neither manifest, nor solver, nor stop request *)
LEMMA Stutter ==
    ASSUME UNCHANGED <<manifest, stopFile>>, UNCHANGED bsam.state, UNCHANGED bsam.result
    PROVE  UNCHANGED Lifecycle!lifeVars
BY DEF Lifecycle!lifeVars, Requested

LEMMA SolverEndRefines ==
    ASSUME IInv, EndSolver, UNCHANGED <<manifest, stopFile>>
    PROVE  [Lifecycle!LifeNext]_(Lifecycle!lifeVars)
<1>1. CASE ~Alive BY <1>1, Stutter DEF EndSolver
<1>2. CASE Alive
  <2>1. bsam'.state = "exited" BY <1>2 DEF EndSolver, IInv, TypeOK, BsamRecords
  <2>2. (bsam'.state = "exited" /\ Evidence(bsam'.result)) \in BOOLEAN OBVIOUS
  <2>3. Lifecycle!Finish
    BY <1>2, <2>1, <2>2 DEF Lifecycle!Finish, Alive, Requested
  <2>4. QED BY <2>3 DEF Lifecycle!LifeNext
<1>3. QED BY <1>1, <1>2

LEMMA LifecycleStep == IInv /\ [Next]_vars => [Lifecycle!LifeNext]_(Lifecycle!lifeVars)
<1> SUFFICES ASSUME IInv, [Next]_vars PROVE [Lifecycle!LifeNext]_(Lifecycle!lifeVars) OBVIOUS
<1> USE DEF files, clientVars
<1> DEFINE Refines == [Lifecycle!LifeNext]_(Lifecycle!lifeVars)
<1>1. ASSUME NEW s \in Supervisors, WriteStarting(s) PROVE Refines
  <2>1. manifest.state = "absent" /\ bsam.state = "none"
    BY <1>1 DEF WriteStarting, Goto, IInv, OwnerPhase
  <2>2. manifest.class = "pending" BY <2>1 DEF IInv, ManifestFresh, NoManifest
  <2>3. manifest'.state = "starting" /\ manifest'.class = "pending"
    BY <1>1 DEF WriteStarting, NoManifest
  <2>4. Lifecycle!Announce
    BY <1>1, <2>1, <2>2, <2>3 DEF Lifecycle!Announce, WriteStarting, Requested
  <2>5. QED BY <2>4 DEF Lifecycle!LifeNext
<1>2. ASSUME NEW s \in Supervisors, Spawn(s) PROVE Refines
  <2>1. manifest.state = "starting" /\ bsam.state = "none"
    BY <1>2 DEF Spawn, Goto, IInv, OwnerPhase
  <2>2. bsam'.state = "running" BY <1>2 DEF Spawn, IInv, TypeOK, BsamRecords
  <2>3. Lifecycle!Launch
    BY <1>2, <2>1, <2>2 DEF Lifecycle!Launch, Spawn, Requested
  <2>4. QED BY <2>3 DEF Lifecycle!LifeNext
<1>3. ASSUME NEW s \in Supervisors, WriteRunning(s) PROVE Refines
  <2>1. manifest.state = "starting" /\ bsam.state # "none"
    BY <1>3 DEF WriteRunning, Goto, IInv, OwnerPhase
  <2>2. manifest'.state = "running" /\ manifest'.class = manifest.class
    BY <1>3 DEF WriteRunning, IInv, TypeOK, ManifestRecords
  <2>3. Lifecycle!ReportRunning
    BY <1>3, <2>1, <2>2 DEF Lifecycle!ReportRunning, WriteRunning, Requested
  <2>4. QED BY <2>3 DEF Lifecycle!LifeNext
<1>4. ASSUME NEW s \in Supervisors, WriteFailed(s) PROVE Refines
  <2>1. manifest.state \in {"starting", "running"} /\ bsam.state # "running"
    BY <1>4 DEF WriteFailed, Goto, IInv, OwnerPhase, Alive
  <2>2. manifest'.state = "terminal" /\ manifest'.class = "failed"
    BY <1>4 DEF WriteFailed, IInv, TypeOK, ManifestRecords
  <2>3. Lifecycle!Conclude
    BY <1>4, <2>1, <2>2
       DEF Lifecycle!Conclude, Lifecycle!Justified, Lifecycle!Verdicts, WriteFailed, Requested
  <2>4. QED BY <2>3 DEF Lifecycle!LifeNext
<1>5. ASSUME NEW s \in Supervisors, WriteTerminal(s) PROVE Refines
  <2>1. manifest.state = "running" /\ bsam.state = "exited"
    BY <1>5 DEF WriteTerminal, Goto, IInv, OwnerPhase, Alive, TypeOK, BsamRecords
  <2>2. manifest'.state = "terminal"
        /\ manifest'.class = Classify(bsam.result, local[s].seen # "none")
    BY <1>5 DEF WriteTerminal, IInv, TypeOK, ManifestRecords
  <2>3. local[s].seen # "none" => Requested BY DEF IInv, StopKnown
  <2>4. bsam.result \in [zero : BOOLEAN, sentinel : BOOLEAN, fatal : BOOLEAN]
    BY DEF IInv, TypeOK, BsamRecords
  <2>5. manifest'.class \in Lifecycle!Verdicts
    BY <2>2, <2>4, ClassifyType DEF Classes, Lifecycle!Verdicts
  <2>6. Lifecycle!Justified(manifest'.class)
    BY <2>1, <2>2, <2>3 DEF Lifecycle!Justified, Classify
  <2>7. Lifecycle!Conclude
    BY <1>5, <2>1, <2>2, <2>5, <2>6 DEF Lifecycle!Conclude, WriteTerminal, Requested
  <2>8. QED BY <2>7 DEF Lifecycle!LifeNext
<1>6. ASSUME UNCHANGED <<manifest, bsam>>, Requested => UNCHANGED stopFile,
             UNCHANGED stopFile \/ manifest.state # "absent"
      PROVE  Refines
  <2>1. CASE Requested' = Requested BY <1>6, <2>1 DEF Lifecycle!lifeVars
  <2>2. CASE Requested' # Requested
    <3>1. ~Requested /\ Requested' BY <1>6, <2>2 DEF Requested
    <3>2. Lifecycle!Ask BY <1>6, <3>1 DEF Lifecycle!Ask, Requested
    <3>3. QED BY <3>2 DEF Lifecycle!LifeNext
  <2>3. QED BY <2>1, <2>2
<1>7. ASSUME EndSolver, UNCHANGED <<manifest, stopFile>> PROVE Refines
  BY <1>7, SolverEndRefines
<1>8. ASSUME UNCHANGED <<manifest, stopFile>>, UNCHANGED bsam.state, UNCHANGED bsam.result
      PROVE  Refines
  BY <1>8, Stutter
<1>9. Requested => stopFile' = stopFile BY InductiveStep
<1>10. ASSUME NEW s \in Supervisors, RunStep(s) PROVE Refines
  <2>1. CASE OpenTimeoutRequest(s) \/ WriteTimeoutRequest(s)
    <3>1. manifest.state # "absent"
      BY <2>1 DEF OpenTimeoutRequest, WriteTimeoutRequest, Goto, IInv, OwnerPhase, LoopPcs
    <3>2. QED BY <1>6, <1>9, <2>1, <3>1 DEF OpenTimeoutRequest, WriteTimeoutRequest
  <2>2. CASE Terminate(s) \/ KillSolver(s) BY <1>7, <2>2 DEF Terminate, KillSolver
  <2>3. QED
    BY <1>1, <1>2, <1>3, <1>4, <1>5, <1>8, <1>10, <2>1, <2>2
       DEF RunStep, PreflightRefuses, PreflightPasses, MakeDirectory, DirectoryTaken, SpawnFails,
           WriteRunningBlocked, PollSeesExit, PollSamplesClock, NoStopYet, TimesOut, SeesStop,
           StopUnreadable, TimeoutRequestExists, RereadTimeoutRequest, AssertStop,
           CollectEvidence, CollectFails, Unhandled
<1>11. ASSUME NEW c \in Clients, ClientStep(c) PROVE Refines
  <2>1. CASE OpenRequest(c) \/ WriteRequest(c)
    <3>1. manifest.state # "absent"
      BY <2>1 DEF IInv, ClientsStarted, OpenRequest, WriteRequest, Goto, ClientPcs
    <3>2. QED BY <1>6, <1>9, <2>1, <3>1 DEF OpenRequest, WriteRequest
  <2>2. QED
    BY <1>8, <1>11, <2>1
       DEF ClientStep, OpenManifest, CloseManifest, StatusReports, StopRefused,
           StopAlreadyTerminal, StopProceeds, ClientReadFails, RequestExists, RereadRequest,
           SignalStop, Finish
<1>12. CASE SolverOpensControlFile
  BY <1>8, <1>12 DEF SolverOpensControlFile, IInv, TypeOK, BsamRecords
<1>13. CASE SolverExits BY <1>7, <1>13 DEF SolverExits, EndSolver
<1>14. QED
  BY <1>8, <1>10, <1>11, <1>12, <1>13
     DEF Next, vars, FileFault, SupervisorCrash, DeadlinePasses, StopperCrash

(* A reader of the run directory sees the abstract run lifecycle, for every  *)
(* number of commands and every combination of faults.                       *)
THEOREM Refinement == Spec => ImplementsLifecycle
<1>1. Init => Lifecycle!LifeInit BY LifecycleInit
<1>2. IInv /\ [Next]_vars => [Lifecycle!LifeNext]_(Lifecycle!lifeVars) BY LifecycleStep
<1>3. QED BY <1>1, <1>2, Inductive, PTL DEF Spec, ImplementsLifecycle, Lifecycle!LifeSpec

-----------------------------------------------------------------------------
(* The end of a run that nothing disturbs                                    *)

(* A request that is being read while it is written has a writer that will   *)
(* finish it, so the supervisor fails only if the solver cannot be started.  *)
Undisturbed ==
    /\ stopFile = "partial" => WriterAlive
    /\ \A s \in Supervisors :
          /\ pc[s] \in {"killing", "writeFailed"} => bsam.state = "none"
          /\ pc[s] \in {"returned", "raised"} => manifest.state = "terminal"
    /\ manifest.error => bsam.state = "none"

(* Steps of a command that change neither manifest nor request.              *)
LEMMA SmallStep ==
    ASSUME IInv, Undisturbed, NEW p \in Procs, NEW from, NEW to, Goto(p, from, to),
           from \notin {"writing", "writeTimeout"}, UNCHANGED <<stopFile, manifest>>,
           bsam'.state = "none" <=> bsam.state = "none",
           p \in Supervisors => to \notin {"returned", "raised"},
           p \in Supervisors /\ to \in {"killing", "writeFailed"} => bsam.state = "none"
    PROVE  Undisturbed'
<1>1. pc \in [Procs -> SupervisorPcs \cup ClientPcs] BY DEF IInv, TypeOK
<1>2. pc[p] = from /\ pc'[p] = to /\ \A q \in Procs : q # p => pc'[q] = pc[q] BY <1>1 DEF Goto
<1>3. Supervisors \subseteq Procs /\ Stoppers \subseteq Procs BY DEF Procs, Clients
<1>4. WriterAlive => WriterAlive' BY <1>2, <1>3 DEF WriterAlive
<1> QED BY <1>2, <1>3, <1>4 DEF Undisturbed

(* Whoever owns the directory is alone past mkdir.                           *)
LEMMA AloneInside ==
    ASSUME IInv, NEW s \in Supervisors, pc[s] \in OwnerPcs, NEW t \in Supervisors, t # s
    PROVE  pc[t] \in {"preflight", "mkdir", "refused"}
BY DEF IInv, OneOwner, Owners, TypeOK, SupervisorPcs

LEMMA UndisturbedRun ==
    ASSUME Faults = {}, IInv, Undisturbed, NEW s \in Supervisors, RunStep(s)
    PROVE  Undisturbed'
<1>1. s \in Procs /\ CanReplace /\ ~ReadFails
  BY DEF Procs, CanReplace, ReadFails, Undisturbed
<1>2. TypeOK /\ OwnerPhase /\ ManifestFresh BY DEF IInv
<1> USE DEF files, clientVars
<1>3. CASE PreflightRefuses(s) \/ PreflightPasses(s) \/ MakeDirectory(s) \/ DirectoryTaken(s)
  BY <1>1, <1>3, SmallStep DEF PreflightRefuses, PreflightPasses, MakeDirectory, DirectoryTaken
<1>4. CASE SpawnFails(s)
  <2>1. bsam.state = "none" BY <1>2, <1>4 DEF SpawnFails, Goto, OwnerPhase
  <2> QED BY <1>1, <1>4, <2>1, SmallStep DEF SpawnFails
<1>5. CASE PollSeesExit(s) \/ PollSamplesClock(s) \/ NoStopYet(s) \/ TimesOut(s) \/ SeesStop(s)
  BY <1>1, <1>5, SmallStep DEF PollSeesExit, PollSamplesClock, NoStopYet, TimesOut, SeesStop
<1>6. CASE TimeoutRequestExists(s) \/ RereadTimeoutRequest(s) \/ CollectEvidence(s)
  BY <1>1, <1>6, SmallStep DEF TimeoutRequestExists, RereadTimeoutRequest, CollectEvidence
<1>7. CASE AssertStop(s)
  <2>1. PICK to \in {"terminate", "poll"} : Goto(s, "stopping", to) BY <1>7 DEF AssertStop
  <2> QED BY <1>1, <1>7, <2>1, SmallStep DEF AssertStop
<1>8. CASE Terminate(s) \/ KillSolver(s)
  <2>1. EndSolver /\ UNCHANGED <<stopFile, manifest>> BY <1>8 DEF Terminate, KillSolver
  <2>2. bsam'.state = "none" <=> bsam.state = "none" BY <1>2, <2>1, SolverEnds
  <2>3. CASE Terminate(s) BY <1>1, <2>1, <2>2, <2>3, SmallStep DEF Terminate
  <2>4. CASE KillSolver(s)
    <3>1. Goto(s, "killing", "writeFailed") BY <2>4 DEF KillSolver
    <3>2. bsam.state = "none" BY <3>1 DEF Undisturbed, Goto
    <3> QED BY <1>1, <2>1, <2>2, <3>1, <3>2, SmallStep
  <2> QED BY <1>8, <2>3, <2>4
<1>9. ASSUME NEW from \in OwnerPcs, NEW to \in SupervisorPcs, Goto(s, from, to),
             stopFile' = stopFile, from # "writeTimeout",
             to \notin {"killing", "writeFailed"},
             to \in {"returned", "raised"} => manifest'.state = "terminal",
             manifest'.error => bsam'.state = "none"
      PROVE  Undisturbed'
  <2>1. /\ pc[s] = from /\ pc'[s] = to
        /\ \A c \in Clients : pc'[c] = pc[c]
        /\ \A t \in Supervisors : t # s => pc'[t] = pc[t]
    BY <1>2, <1>9, GotoSupervisor
  <2>2. \A t \in Supervisors : t # s => pc'[t] \in {"preflight", "mkdir", "refused"}
    BY <1>9, <2>1, AloneInside
  <2>3. WriterAlive => WriterAlive' BY <1>9, <2>1 DEF WriterAlive, Clients
  <2> QED BY <1>9, <2>1, <2>2, <2>3 DEF Undisturbed
<1>10. {"writeStarting", "spawn", "writeRunning", "writeFailed", "writeTerminal", "openTimeout",
        "writeTimeout"} \subseteq OwnerPcs
  BY DEF OwnerPcs, TryPcs, LoopPcs
<1>11. manifest.state # "terminal" => ~manifest.error
  BY <1>2 DEF ManifestFresh, NoManifest
<1>12. CASE WriteStarting(s)
  <2>1. Goto(s, "writeStarting", "spawn") /\ stopFile' = stopFile BY <1>12 DEF WriteStarting
  <2>2. ~manifest'.error BY <1>12 DEF WriteStarting, NoManifest
  <2> QED BY <1>9, <1>10, <2>1, <2>2, Labels
<1>13. CASE Spawn(s)
  <2>1. Goto(s, "spawn", "writeRunning") /\ UNCHANGED <<stopFile, manifest>> BY <1>13 DEF Spawn
  <2>2. ~manifest.error BY <1>2, <1>11, <2>1 DEF OwnerPhase, Goto
  <2> QED BY <1>9, <1>10, <2>1, <2>2, Labels
<1>14. CASE WriteRunning(s)
  <2>1. Goto(s, "writeRunning", "poll") /\ stopFile' = stopFile
        /\ manifest' = [manifest EXCEPT !.state = "running"]
    BY <1>14 DEF WriteRunning
  <2>2. ~manifest.error BY <1>2, <1>11, <2>1 DEF OwnerPhase, Goto
  <2>3. ~manifest'.error BY <1>2, <2>1, <2>2 DEF TypeOK, ManifestRecords
  <2> QED BY <1>9, <1>10, <2>1, <2>3, Labels
<1>15. CASE WriteFailed(s)
  <2>1. Goto(s, "writeFailed", "raised") /\ UNCHANGED <<stopFile, bsam>>
        /\ manifest' = [manifest EXCEPT !.state = "terminal", !.class = "failed", !.error = TRUE]
    BY <1>15 DEF WriteFailed
  <2>2. bsam'.state = "none" BY <2>1 DEF Undisturbed, Goto
  <2>3. manifest'.state = "terminal" BY <1>2, <2>1 DEF TypeOK, ManifestRecords
  <2> QED BY <1>9, <1>10, <2>1, <2>2, <2>3, Labels
<1>16. CASE WriteTerminal(s)
  <2>1. Goto(s, "writeTerminal", "returned") /\ stopFile' = stopFile BY <1>16 DEF WriteTerminal
  <2>2. manifest'.state = "terminal" /\ manifest'.error = manifest.error
    BY <1>2, <1>16 DEF WriteTerminal, TypeOK, ManifestRecords
  <2>3. ~manifest.error BY <1>2, <1>11, <2>1 DEF OwnerPhase, Goto
  <2> QED BY <1>9, <1>10, <2>1, <2>2, <2>3, Labels
<1>17. CASE OpenTimeoutRequest(s)
  <2>1. Goto(s, "openTimeout", "writeTimeout") /\ UNCHANGED <<manifest, bsam>>
    BY <1>17 DEF OpenTimeoutRequest
  <2>2. pc'[s] = "writeTimeout" /\ \A t \in Supervisors : t # s => pc'[t] = pc[t]
    BY <1>2, <2>1, GotoSupervisor, Labels
  <2> QED BY <2>1, <2>2 DEF Undisturbed, WriterAlive
<1>18. CASE WriteTimeoutRequest(s)
  <2>1. Goto(s, "writeTimeout", "stopping") /\ UNCHANGED <<manifest, bsam>> /\ stopFile' = "timeout"
    BY <1>18 DEF WriteTimeoutRequest
  <2>2. pc'[s] = "stopping" /\ \A t \in Supervisors : t # s => pc'[t] = pc[t]
    BY <1>2, <2>1, GotoSupervisor, Labels
  <2> QED BY <2>1, <2>2 DEF Undisturbed
<1>19. ~WriteRunningBlocked(s) /\ ~StopUnreadable(s) /\ ~CollectFails(s) /\ ~Unhandled(s)
  BY <1>1 DEF WriteRunningBlocked, StopUnreadable, CollectFails, Unhandled
<1> QED
  BY <1>3, <1>4, <1>5, <1>6, <1>7, <1>8, <1>12, <1>13, <1>14, <1>15, <1>16, <1>17, <1>18, <1>19
     DEF RunStep

LEMMA UndisturbedClient ==
    ASSUME IInv, Undisturbed, NEW c \in Clients, ClientStep(c)
    PROVE  Undisturbed'
<1>1. c \in Procs /\ c \notin Supervisors BY SupervisorAssumption DEF Procs, Clients
<1> USE DEF files, clientVars
<1>2. CASE \/ OpenManifest(c) \/ CloseManifest(c) \/ StopProceeds(c) \/ RequestExists(c)
           \/ RereadRequest(c) \/ SignalStop(c)
  BY <1>1, <1>2, SmallStep
     DEF OpenManifest, CloseManifest, StopProceeds, RequestExists, RereadRequest, SignalStop
<1>3. CASE StatusReports(c) \/ StopRefused(c) \/ StopAlreadyTerminal(c) \/ ClientReadFails(c)
  <2>1. PICK from, answer : from \in {"checking", "rereading"} /\ Finish(c, from, answer)
    BY <1>3 DEF StatusReports, StopRefused, StopAlreadyTerminal, ClientReadFails
  <2> QED BY <1>1, <2>1, SmallStep DEF Finish
<1>4. ASSUME NEW from, NEW to \in ClientPcs, Goto(c, from, to)
      PROVE  /\ pc[c] = from /\ pc'[c] = to
             /\ \A t \in Supervisors : pc'[t] = pc[t]
  BY <1>4, GotoClient DEF IInv
<1>5. CASE OpenRequest(c)
  <2>1. Goto(c, "opening", "writing") /\ UNCHANGED <<manifest, bsam>> BY <1>5 DEF OpenRequest
  <2>2. pc[c] = "opening" /\ pc'[c] = "writing" /\ \A t \in Supervisors : pc'[t] = pc[t]
    BY <1>4, <2>1 DEF ClientPcs
  <2>3. c \in Stoppers BY <2>2 DEF IInv, WatchersOnlyRead, Clients
  <2> QED BY <2>1, <2>2, <2>3 DEF Undisturbed, WriterAlive
<1>6. CASE WriteRequest(c)
  <2>1. Goto(c, "writing", "signalling") /\ UNCHANGED <<manifest, bsam>> /\ stopFile' = "user"
    BY <1>6 DEF WriteRequest
  <2>2. \A t \in Supervisors : pc'[t] = pc[t] BY <1>4, <2>1 DEF ClientPcs
  <2> QED BY <2>1, <2>2 DEF Undisturbed
<1> QED BY <1>2, <1>3, <1>5, <1>6 DEF ClientStep

LEMMA UndisturbedStep ==
    ASSUME Faults = {}, IInv, Undisturbed, [Next]_vars
    PROVE  Undisturbed'
<1> USE DEF files, clientVars
<1>1. ASSUME UNCHANGED <<stopFile, manifest, pc>>, bsam'.state = "none" <=> bsam.state = "none"
      PROVE  Undisturbed'
  BY <1>1 DEF Undisturbed, WriterAlive
<1>2. CASE SolverOpensControlFile
  <2>1. UNCHANGED <<stopFile, manifest, pc>> /\ bsam' = [bsam EXCEPT !.opened = TRUE]
    BY <1>2 DEF SolverOpensControlFile
  <2>2. bsam'.state = bsam.state BY <2>1 DEF IInv, TypeOK, BsamRecords
  <2> QED BY <1>1, <2>1, <2>2
<1>3. CASE SolverExits
  <2>1. UNCHANGED <<stopFile, manifest, pc>> /\ bsam.state = "running"
        /\ \E r \in Results : bsam' = [bsam EXCEPT !.state = "exited", !.result = r]
    BY <1>3 DEF SolverExits, Alive
  <2>2. bsam'.state = "exited" BY <2>1 DEF IInv, TypeOK, BsamRecords
  <2> QED BY <1>1, <2>1, <2>2
<1>4. CASE \E s \in Supervisors : DeadlinePasses(s) BY <1>1, <1>4 DEF DeadlinePasses
<1>5. CASE UNCHANGED vars BY <1>1, <1>5 DEF vars
<1>6. ~(\E s \in Supervisors : FileFault(s) \/ SupervisorCrash(s)) /\ ~(\E c \in Stoppers : StopperCrash(c))
  BY DEF FileFault, SupervisorCrash, StopperCrash
<1> QED BY <1>2, <1>3, <1>4, <1>5, <1>6, UndisturbedRun, UndisturbedClient DEF Next

(* Where nothing fails around it, a `run` command that ends has left a       *)
(* terminal manifest, with an error only for a solver that never started:    *)
(* stop commands that write their request meanwhile do not make it fail.     *)
THEOREM EveryEndIsReported ==
    ASSUME Faults = {}
    PROVE  Spec => []EndIsReported
<1>1. Init => Undisturbed
  BY DEF Init, Undisturbed, NoManifest, Procs
<1>2. IInv /\ Undisturbed /\ [Next]_vars => Undisturbed' BY UndisturbedStep
<1>3. Undisturbed => EndIsReported BY DEF Undisturbed, EndIsReported
<1>4. QED BY <1>1, <1>2, <1>3, Inductive, PTL DEF Spec
=============================================================================
