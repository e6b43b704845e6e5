---------------------------- MODULE ServerManager ---------------------------
(***************************************************************************)
(* The ServerManager of clients/vscode/src/serverManager.ts in one window: *)
(* the commands that start, use and stop the local service, each of them   *)
(* an async function whose awaits let the others in. A health request is   *)
(* answered at one moment and its answer acted on at a later one; in       *)
(* between the port may change hands, the service may die and another      *)
(* command may spawn or kill it.                                           *)
(*                                                                         *)
(* Commands that use the service (validate, inspect, preview, apply, run,  *)
(* ...) all begin with ensureStarted and are one kind here, "use".         *)
(***************************************************************************)
EXTENDS Naturals, FiniteSets

CONSTANTS
    MaxCalls,    \* bound: commands under way at a time
    MaxServices, \* bound: service processes spawned
    MaxUpsets    \* bound: crashes, failed spawns, timed out requests, other owners of the port

ASSUME ServerAssumption == {MaxCalls, MaxServices} \subseteq Nat \ {0} /\ MaxUpsets \in Nat

VARIABLES
    call,      \* the commands under way
    process,   \* ServerManager.process; 0 is undefined
    service,   \* the service processes
    killed,    \* those that were sent a kill
    port,      \* who answers on the port
    serverDown,   \* deactivate has run
    pendingStart, \* history: a start was under way when it ran
    upsets     \* bound counter

serverVars == <<call, process, service, killed, port, serverDown, pendingStart, upsets>>

Calls == 1 .. MaxCalls
Services == 1 .. MaxServices

(* "booting": not yet bound. "dead": ended, 'exit' not yet emitted. "failed":  *)
(* never started, an exit code but no 'exit' event. A number is used again     *)
(* once nothing knows the process.                                             *)
ServiceStates == {"none", "booting", "ready", "dead", "failed"}
Alive(s) == service[s] \in {"booting", "ready"}

(* exitCode is null until Node has noticed the end of the process.             *)
ExitCodeIsNull(s) == service[s] \in {"booting", "ready", "dead"}
HasProcess == process # 0 /\ ExitCodeIsNull(process)

(* Where an async command stands: the connect of ensureStarted, that of start, *)
(* the loop of waitUntilReady, the request in it, the last connect of          *)
(* ensureStarted, and the promise in stop.                                     *)
Connects == {"first", "inner", "poll", "last"}
Places == {"idle", "wait", "stopping", "ready", "failed", "stopped"} \cup Connects
Answers == {"none", "ok", "stranger", "timeout", "unavailable"}
Over == {"idle", "ready", "failed", "stopped"}
IdleCall == [cmd |-> "none", at |-> "idle", answer |-> "none", late |-> FALSE]
Begin(c, cmd, place) == call' = [call EXCEPT ![c] = [IdleCall EXCEPT !.cmd = cmd, !.at = place]]
Goto(c, place) ==
    call' = [call EXCEPT ![c] = [IdleCall EXCEPT !.cmd = call[c].cmd, !.at = place,
                                                 !.late = call[c].late /\ place \notin Over]]

(* "own" is the service that is ready. "twin" serves this workspace for        *)
(* another window, "stranger" another one.                                     *)
Foreign == {"twin", "stranger"}
HealthOf(owner) ==
    CASE owner = "stranger" -> "stranger"
      [] owner = "nobody" -> "unavailable"
      [] OTHER -> "ok"

(* A request is answered, or times out although somebody listens.              *)
Answered(c) ==
    /\ call[c].at \in Connects /\ call[c].answer = "none"
    /\ \/ call' = [call EXCEPT ![c].answer = HealthOf(port)] /\ UNCHANGED upsets
       \/ /\ port # "nobody" /\ upsets < MaxUpsets
          /\ call' = [call EXCEPT ![c].answer = "timeout"] /\ upsets' = upsets + 1
    /\ UNCHANGED <<process, service, killed, port, serverDown, pendingStart>>

Has(c, place, answer) == call[c].at = place /\ call[c].answer = answer
Errors == {"stranger", "timeout"}

-----------------------------------------------------------------------------
(* The first slot that is free; what was said at the end of the command that   *)
(* had it is forgotten.                                                        *)
Free(c) == call[c].at \in Over /\ \A d \in 1 .. c - 1 : call[d].at \notin Over

StartCommand(c) ==
    /\ Free(c) /\ ~serverDown
    /\ Begin(c, "start", "inner")
    /\ UNCHANGED <<process, service, killed, port, serverDown, pendingStart, upsets>>

UseCommand(c) ==
    /\ Free(c) /\ ~serverDown
    /\ Begin(c, "use", "first")
    /\ UNCHANGED <<process, service, killed, port, serverDown, pendingStart, upsets>>

(* ensureStarted: only "unavailable" leads to start. *)
FirstConnected(c) ==
    /\ \/ Has(c, "first", "ok") /\ Goto(c, "ready")
       \/ call[c].at = "first" /\ call[c].answer \in Errors /\ Goto(c, "failed")
       \/ Has(c, "first", "unavailable") /\ Goto(c, "inner")
    /\ UNCHANGED <<process, service, killed, port, serverDown, pendingStart, upsets>>

(* What is left of a command once start has returned. *)
Started(c) == IF call[c].cmd = "use" THEN Goto(c, "last") ELSE Goto(c, "ready")

(* start, before the spawn. *)
Connected(c) ==
    /\ \/ Has(c, "inner", "ok") /\ Started(c)
       \/ call[c].at = "inner" /\ call[c].answer \in Errors /\ Goto(c, "failed")
       \/ Has(c, "inner", "unavailable") /\ HasProcess /\ Goto(c, "wait")
    /\ UNCHANGED <<process, service, killed, port, serverDown, pendingStart, upsets>>

(* start: nobody listens and no process is known, so one is spawned.           *)
NextService == CHOOSE s \in Services : service[s] = "none" /\ \A t \in 1 .. s - 1 : service[t] # "none"
(* slip: the process that still boots is not looked for. *)
SpawnUnlooked(c) ==
    /\ Has(c, "inner", "unavailable") /\ \E s \in Services : service[s] = "none"
    /\ process' = NextService
    /\ service' = [service EXCEPT ![NextService] = "booting"] /\ Goto(c, "wait")
    /\ UNCHANGED <<killed, port, serverDown, pendingStart, upsets>>

Spawn(c) ==
    /\ Has(c, "inner", "unavailable") /\ ~HasProcess
    /\ \E s \in Services : service[s] = "none"
    /\ process' = NextService
    /\ service' = [s \in Services |->
          IF s = NextService THEN "booting" ELSE IF service[s] = "failed" THEN "none" ELSE service[s]]
    /\ killed' = {s \in killed : service[s] # "failed"}
    /\ Goto(c, "wait")
    /\ UNCHANGED <<port, serverDown, pendingStart, upsets>>

(* The deadline of waitUntilReady passes. *)
Late(c) ==
    /\ call[c].at \in {"wait", "poll"} /\ ~call[c].late
    /\ call' = [call EXCEPT ![c].late = TRUE]
    /\ UNCHANGED <<process, service, killed, port, serverDown, pendingStart, upsets>>

(* One turn of the loop: the deadline, the process, then a connect.            *)
(* slip: the deadline is not looked at. *)
WaitForever(c) ==
    /\ call[c].at = "wait" /\ (IF ~HasProcess THEN Goto(c, "failed") ELSE Goto(c, "poll"))
    /\ UNCHANGED <<process, service, killed, port, serverDown, pendingStart, upsets>>

WaitUntilReady(c) ==
    /\ call[c].at = "wait"
    /\ IF call[c].late \/ ~HasProcess THEN Goto(c, "failed") ELSE Goto(c, "poll")
    /\ UNCHANGED <<process, service, killed, port, serverDown, pendingStart, upsets>>

(* Every error keeps the loop going, a stranger on the port included.          *)
Polled(c) ==
    /\ call[c].at = "poll" /\ call[c].answer # "none"
    /\ IF call[c].answer = "ok" THEN Started(c) ELSE Goto(c, "wait")
    /\ UNCHANGED <<process, service, killed, port, serverDown, pendingStart, upsets>>

LastConnected(c) ==
    /\ call[c].at = "last" /\ call[c].answer # "none"
    /\ IF call[c].answer = "ok" THEN Goto(c, "ready") ELSE Goto(c, "failed")
    /\ UNCHANGED <<process, service, killed, port, serverDown, pendingStart, upsets>>

StopCommand(c) ==
    /\ Free(c) /\ ~serverDown
    /\ IF HasProcess
       THEN killed' = killed \cup {process} /\ Begin(c, "stop", "stopping")
       ELSE UNCHANGED killed /\ Begin(c, "stop", "stopped")
    /\ UNCHANGED <<process, service, port, serverDown, pendingStart, upsets>>

(* The promise in stop: the exit of the process, or three seconds.             *)
StopResolves(c) == call[c].at = "stopping" /\ Goto(c, "stopped")
                   /\ UNCHANGED <<process, service, killed, port, serverDown, pendingStart, upsets>>

Starting == {c \in Calls : call[c].at \in Connects \cup {"wait"}}

(* dispose, from deactivate: kill what is known to run. Commands under way go  *)
(* on with the manager they hold.                                              *)
DisposeServer ==
    /\ ~serverDown /\ serverDown' = TRUE
    /\ pendingStart' = (Starting # {})
    /\ killed' = IF HasProcess THEN killed \cup {process} ELSE killed
    /\ UNCHANGED <<call, process, service, port, upsets>>

-----------------------------------------------------------------------------
(* The service binds the port, or ends because somebody has it. *)
Binds(s) ==
    /\ service[s] = "booting"
    /\ IF port = "nobody"
       THEN port' = "own" /\ service' = [service EXCEPT ![s] = "ready"]
       ELSE service' = [service EXCEPT ![s] = "dead"] /\ UNCHANGED port
    /\ UNCHANGED <<call, process, killed, serverDown, pendingStart, upsets>>

Freed(s) == IF service[s] = "ready" THEN "nobody" ELSE port

(* A killed service ends; any other may crash. *)
Ends(s) ==
    /\ Alive(s)
    /\ \/ s \in killed /\ UNCHANGED upsets
       \/ s \notin killed /\ upsets < MaxUpsets /\ upsets' = upsets + 1
    /\ service' = [service EXCEPT ![s] = "dead"] /\ port' = Freed(s)
    /\ UNCHANGED <<call, process, killed, serverDown, pendingStart>>

(* The 'exit' handler, which forgets whatever process is known.                *)
ExitEvent(s) ==
    /\ service[s] = "dead"
    /\ service' = [service EXCEPT ![s] = "none"] /\ process' = 0 /\ killed' = killed \ {s}
    /\ UNCHANGED <<call, port, serverDown, pendingStart, upsets>>

(* The executable cannot be started: an exit code, an 'error' event nobody     *)
(* listens to, and no 'exit'.                                                  *)
SpawnFails(s) ==
    /\ service[s] = "booting" /\ upsets < MaxUpsets /\ upsets' = upsets + 1
    /\ service' = [service EXCEPT ![s] = "failed"]
    /\ UNCHANGED <<call, process, killed, port, serverDown, pendingStart>>

(* Another window or program takes the port, or leaves it. *)
PortChanges ==
    /\ upsets < MaxUpsets /\ upsets' = upsets + 1
    /\ \/ port = "nobody" /\ port' \in Foreign
       \/ port \in Foreign /\ port' = "nobody"
    /\ UNCHANGED <<call, process, service, killed, serverDown, pendingStart>>

ServerInit ==
    /\ call = [c \in Calls |-> IdleCall] /\ process = 0
    /\ service = [s \in Services |-> "none"] /\ killed = {}
    /\ port \in {"nobody"} \cup Foreign
    /\ serverDown = FALSE /\ pendingStart = FALSE /\ upsets \in 0 .. MaxUpsets

(* The steps of commands under way and of processes; new commands and          *)
(* deactivate are left to the module that composes this one.                   *)
CallStep(c) ==
    \/ Answered(c) \/ FirstConnected(c) \/ Connected(c) \/ Spawn(c) \/ Late(c)
    \/ WaitUntilReady(c) \/ Polled(c) \/ LastConnected(c) \/ StopResolves(c)
ServiceStep(s) == Binds(s) \/ Ends(s) \/ ExitEvent(s) \/ SpawnFails(s)
ServerSteps == (\E c \in Calls : CallStep(c)) \/ (\E s \in Services : ServiceStep(s)) \/ PortChanges
ServerCommand(c) == StartCommand(c) \/ UseCommand(c) \/ StopCommand(c)

(* The editor's event loop runs what is due, requests are answered or time     *)
(* out, time passes and a killed process ends.                                 *)
ServerFairness ==
    /\ \A c \in Calls :
        /\ WF_serverVars(Answered(c)) /\ WF_serverVars(FirstConnected(c))
        /\ WF_serverVars(Connected(c)) /\ WF_serverVars(Spawn(c)) /\ WF_serverVars(Late(c))
        /\ WF_serverVars(WaitUntilReady(c)) /\ WF_serverVars(Polled(c))
        /\ WF_serverVars(LastConnected(c)) /\ WF_serverVars(StopResolves(c))
    /\ \A s \in Services : WF_serverVars(ExitEvent(s)) /\ WF_serverVars(Ends(s) /\ s \in killed)

-----------------------------------------------------------------------------
ServerTypeOK ==
    /\ call \in [Calls -> [cmd : {"none", "start", "use", "stop"}, at : Places,
                           answer : Answers, late : BOOLEAN]]
    /\ process \in 0 .. MaxServices /\ service \in [Services -> ServiceStates]
    /\ killed \subseteq Services /\ port \in {"nobody", "own"} \cup Foreign
    /\ {serverDown, pendingStart} \subseteq BOOLEAN /\ upsets \in 0 .. MaxUpsets

(* However starts, stops and exits interleave, a service process that runs is  *)
(* the one the manager knows, so that stop and dispose reach it: start looks   *)
(* for a process and spawns one in the same turn of the event loop, and only   *)
(* the exit of the process that is known makes it forget one.                  *)
KnownService == \A s \in Services : Alive(s) => process = s

(* After deactivate no service that was not told to end runs, unless a start   *)
(* was under way: it goes on after its connect and spawns one.                 *)
ServiceEndsWithWindow ==
    serverDown /\ ~pendingStart => \A s \in Services : Alive(s) => s \in killed

(* Every command comes to an end: waitUntilReady by its deadline, also when    *)
(* a stranger answers, and stop by its timer.                                  *)
CommandsEnd == \A c \in Calls : call[c].at \notin Over ~> call[c].at \in Over
=============================================================================
