---------------------------- MODULE EditorProofs ----------------------------
(***************************************************************************)
(* What holds of the extension in one window, for any number of services,  *)
(* commands under way, chat windows, confirmations and mishaps, and for    *)
(* any commands given: the manager and the chat client share nothing but   *)
(* deactivate, which each survives.                                        *)
(*                                                                         *)
(* The invariant of the manager is about exit codes: at most one process   *)
(* has none yet, and it is the one the manager knows. Alive is not enough, *)
(* for a dead process whose exit is still to be told would make the        *)
(* manager forget its successor.                                           *)
(*                                                                         *)
(* The invariant of one chat window: panel, script and process pass one    *)
(* baton. It is the right to send, and lies in at most one place: with a   *)
(* script that is not busy, in a text on its way to the panel or to the    *)
(* process, with a process that works, or in a message on its way back     *)
(* that will free the script. Whoever holds it knows the same pending      *)
(* confirmation, and the panel is busy only while it is on the process's   *)
(* side. Only an error without a turn of its own makes a second baton      *)
(* (blurred).                                                              *)
(***************************************************************************)
EXTENDS Editor, SequenceTheorems, WellFoundedInduction, TLAPS

-----------------------------------------------------------------------------
(* The manager and its services. *)

CallRecords == [cmd : {"none", "start", "use", "stop"}, at : Places,
                answer : Answers, late : BOOLEAN]

(* Only the known process is without an exit code.                           *)
OnlyKnown == \A s \in Services : ExitCodeIsNull(s) => process = s

(* After deactivate nothing starts and what runs was told to end.            *)
DownForGood ==
    serverDown /\ ~pendingStart => Starting = {} /\ \A s \in Services : Alive(s) => s \in killed

(* A kill is remembered of a process, not of its number.                     *)
KilledExist == \A s \in killed : service[s] # "none"

ServerInv == ServerTypeOK /\ OnlyKnown /\ DownForGood /\ KilledExist

LEMMA NextServiceIsFree ==
    ASSUME ServerTypeOK, \E s \in Services : service[s] = "none"
    PROVE  NextService \in Services /\ service[NextService] = "none"
<1> DEFINE S == {s \in Services : service[s] = "none"}
<1>1. S \subseteq Nat /\ S # {} /\ MaxServices \in Nat BY ServerAssumption DEF Services
<1> HIDE DEF S
<1>2. PICK s \in S : \A t \in S : ~(<<t, s>> \in OpToRel(<, Nat))
  BY <1>1, NatLessThanWellFounded, WFMin
<1>3. \A t \in S : ~(t < s) BY <1>1, <1>2 DEF OpToRel
<1>4. \A t \in 1 .. s - 1 : service[t] # "none"
  <2> SUFFICES ASSUME NEW t \in 1 .. s - 1, service[t] = "none" PROVE FALSE OBVIOUS
  <2>1. s \in Services BY DEF S
  <2>2. t \in S BY <1>1, <2>1 DEF S, Services
  <2> QED BY <1>1, <1>3, <2>1, <2>2 DEF Services
<1> QED BY <1>4 DEF NextService, S

LEMMA PlacesTyped ==
    /\ {"idle", "wait", "stopping", "ready", "failed", "stopped", "first", "inner", "poll", "last"} = Places
    /\ Starting = {c \in Calls : call[c].at \in {"first", "inner", "poll", "last", "wait"}}
BY DEF Places, Connects, Starting

LEMMA BeginTyped ==
    ASSUME ServerTypeOK, NEW c \in Calls, NEW cmd \in {"none", "start", "use", "stop"},
           NEW place \in Places, Begin(c, cmd, place)
    PROVE  /\ call' \in [Calls -> CallRecords]
           /\ call'[c].at = place
           /\ \A d \in Calls : d # c => call'[d] = call[d]
<1>1. call \in [Calls -> CallRecords] BY DEF ServerTypeOK, CallRecords
<1> DEFINE new == [IdleCall EXCEPT !.cmd = cmd, !.at = place]
<1>2. IdleCall \in CallRecords BY PlacesTyped DEF IdleCall, CallRecords, Answers
<1>3. new \in CallRecords /\ new.at = place BY <1>2 DEF CallRecords
<1> HIDE DEF new
<1> QED BY <1>1, <1>3 DEF Begin, new

LEMMA GotoTyped ==
    ASSUME ServerTypeOK, NEW c \in Calls, NEW place \in Places, Goto(c, place)
    PROVE  /\ call' \in [Calls -> CallRecords]
           /\ call'[c].at = place
           /\ \A d \in Calls : d # c => call'[d] = call[d]
<1>1. call \in [Calls -> CallRecords] BY DEF ServerTypeOK, CallRecords
<1> DEFINE new == [IdleCall EXCEPT !.cmd = call[c].cmd, !.at = place,
                                   !.late = call[c].late /\ place \notin Over]
<1>2. IdleCall \in CallRecords BY PlacesTyped DEF IdleCall, CallRecords, Answers
<1>3. new \in CallRecords /\ new.at = place BY <1>1, <1>2 DEF CallRecords
<1> HIDE DEF new
<1> QED BY <1>1, <1>3 DEF Goto, new

(* A step that only moves a command: nothing begins to start a service but   *)
(* what was about to already.                                                *)
LEMMA CallKeeps ==
    ASSUME ServerInv, call' \in [Calls -> CallRecords], upsets' \in 0 .. MaxUpsets,
           UNCHANGED <<process, service, killed, port, serverDown, pendingStart>>,
           \A c \in Calls : call'[c].at \in Connects \cup {"wait"} =>
                                call[c].at \in Connects \cup {"wait"} \/ ~serverDown
    PROVE  ServerInv'
<1> USE DEF ServerInv
<1>1. ServerTypeOK' BY DEF ServerTypeOK, CallRecords
<1>2. OnlyKnown' /\ KilledExist' BY DEF OnlyKnown, ExitCodeIsNull, KilledExist
<1>3. DownForGood' BY DEF DownForGood, Starting, Alive
<1> QED BY <1>1, <1>2, <1>3

LEMMA ServerCommandKeeps == ASSUME ServerInv, NEW c \in Calls, ServerCommand(c) PROVE ServerInv'
<1> USE DEF ServerInv
<1>1. CASE StartCommand(c)
  <2>1. /\ Begin(c, "start", "inner") /\ ~serverDown
        /\ UNCHANGED <<process, service, killed, port, serverDown, pendingStart, upsets>>
    BY <1>1 DEF StartCommand
  <2>2. call' \in [Calls -> CallRecords] BY <2>1, BeginTyped, PlacesTyped
  <2> QED BY <2>1, <2>2, CallKeeps DEF ServerTypeOK
<1>2. CASE UseCommand(c)
  <2>1. /\ Begin(c, "use", "first") /\ ~serverDown
        /\ UNCHANGED <<process, service, killed, port, serverDown, pendingStart, upsets>>
    BY <1>2 DEF UseCommand
  <2>2. call' \in [Calls -> CallRecords] BY <2>1, BeginTyped, PlacesTyped
  <2> QED BY <2>1, <2>2, CallKeeps DEF ServerTypeOK
<1>3. CASE StopCommand(c)
  <2>1. PICK place \in {"stopping", "stopped"} : Begin(c, "stop", place)
    BY <1>3 DEF StopCommand
  <2>2. /\ ~serverDown /\ killed' = IF HasProcess THEN killed \cup {process} ELSE killed
        /\ UNCHANGED <<process, service, port, serverDown, pendingStart, upsets>>
    BY <1>3 DEF StopCommand
  <2>3. call' \in [Calls -> CallRecords] BY <2>1, BeginTyped, PlacesTyped
  <2>4. HasProcess => process \in Services /\ service[process] # "none"
    BY ServerAssumption DEF HasProcess, ExitCodeIsNull, ServerTypeOK, Services
  <2>5. ServerTypeOK' BY <2>2, <2>3, <2>4 DEF ServerTypeOK, CallRecords
  <2>6. OnlyKnown' /\ KilledExist' BY <2>2, <2>4 DEF OnlyKnown, ExitCodeIsNull, KilledExist
  <2>7. DownForGood' BY <2>2 DEF DownForGood
  <2> QED BY <2>5, <2>6, <2>7
<1> QED BY <1>1, <1>2, <1>3 DEF ServerCommand

(* A step of a command under way: only Spawn touches processes, and it does  *)
(* so when no process is without an exit code.                               *)
LEMMA CallStepKeeps == ASSUME ServerInv, NEW c \in Calls, CallStep(c) PROVE ServerInv'
<1> USE DEF ServerInv
<1>1. call \in [Calls -> CallRecords] /\ upsets \in 0 .. MaxUpsets /\ MaxUpsets \in Nat
  BY ServerAssumption DEF ServerTypeOK, CallRecords
<1>2. ASSUME NEW place \in Places, Goto(c, place), UNCHANGED upsets,
             call[c].at \in Connects \cup {"wait"} \/ place \notin Connects \cup {"wait"},
             UNCHANGED <<process, service, killed, port, serverDown, pendingStart>>
      PROVE  ServerInv'
  BY <1>1, <1>2, GotoTyped, CallKeeps
<1>3. CASE Answered(c)
  <2>1. PICK answer \in Answers : call' = [call EXCEPT ![c].answer = answer]
    BY <1>3 DEF Answered, Answers, HealthOf
  <2>2. [call[c] EXCEPT !.answer = answer] \in CallRecords
        /\ [call[c] EXCEPT !.answer = answer].at = call[c].at
    BY <1>1 DEF CallRecords
  <2>3. /\ call' \in [Calls -> CallRecords]
        /\ \A d \in Calls : call'[d].at = call[d].at
    BY <1>1, <2>1, <2>2
  <2>4. /\ upsets' \in 0 .. MaxUpsets
        /\ UNCHANGED <<process, service, killed, port, serverDown, pendingStart>>
    BY <1>1, <1>3 DEF Answered
  <2> QED BY <2>3, <2>4, CallKeeps
<1>4. ASSUME Started(c), call[c].at \in Connects \cup {"wait"}, UNCHANGED upsets,
             UNCHANGED <<process, service, killed, port, serverDown, pendingStart>>
      PROVE  ServerInv'
  BY <1>2, <1>4, PlacesTyped DEF Started
<1>5. CASE FirstConnected(c) BY <1>2, <1>5, PlacesTyped DEF FirstConnected, Has, Connects
<1>6. CASE Connected(c) BY <1>2, <1>4, <1>6, PlacesTyped DEF Connected, Has, Connects
<1>7. CASE Spawn(c)
  <2>1. /\ call[c].at = "inner" /\ ~HasProcess /\ \E s \in Services : service[s] = "none"
        /\ process' = NextService
        /\ service' = [s \in Services |->
              IF s = NextService THEN "booting" ELSE IF service[s] = "failed" THEN "none" ELSE service[s]]
        /\ killed' = {s \in killed : service[s] # "failed"}
        /\ Goto(c, "wait")
        /\ UNCHANGED <<port, serverDown, pendingStart, upsets>>
    BY <1>7 DEF Spawn, Has
  <2>2. NextService \in Services /\ service[NextService] = "none" BY <2>1, NextServiceIsFree
  <2>3. call' \in [Calls -> CallRecords] BY <2>1, GotoTyped, PlacesTyped
  <2>4. \A s \in Services : service[s] \in {"none", "failed"}
    <3> SUFFICES ASSUME NEW s \in Services, service[s] \notin {"none", "failed"} PROVE FALSE
      OBVIOUS
    <3>1. ExitCodeIsNull(s) BY DEF ExitCodeIsNull, ServerTypeOK, ServiceStates
    <3>2. process = s /\ s # 0 BY <3>1, ServerAssumption DEF OnlyKnown, Services
    <3> QED BY <2>1, <3>1, <3>2 DEF HasProcess
  <2>5. ServerTypeOK'
    <3>1. service' \in [Services -> ServiceStates]
      <4>1. {"booting", "none"} \subseteq ServiceStates BY DEF ServiceStates
      <4>2. \A s \in Services : service[s] \in ServiceStates BY DEF ServerTypeOK
      <4> QED BY <2>1, <4>1, <4>2
    <3>2. process' \in 0 .. MaxServices BY <2>1, <2>2, ServerAssumption DEF Services
    <3> QED BY <2>1, <2>3, <3>1, <3>2 DEF ServerTypeOK, CallRecords
  <2>6. OnlyKnown' BY <2>1, <2>2, <2>4 DEF OnlyKnown, ExitCodeIsNull
  <2>7. KilledExist' BY <2>1, <2>2, <2>4 DEF KilledExist, ServerTypeOK
  <2>8. DownForGood'
    <3>1. c \in Starting BY <2>1 DEF Starting, Connects
    <3> QED BY <2>1, <3>1 DEF DownForGood
  <2> QED BY <2>5, <2>6, <2>7, <2>8
<1>8. CASE Late(c)
  <2>1. call' = [call EXCEPT ![c].late = TRUE] BY <1>8 DEF Late
  <2>2. [call[c] EXCEPT !.late = TRUE] \in CallRecords
        /\ [call[c] EXCEPT !.late = TRUE].at = call[c].at
    BY <1>1 DEF CallRecords
  <2>3. /\ call' \in [Calls -> CallRecords]
        /\ \A d \in Calls : call'[d].at = call[d].at
    BY <1>1, <2>1, <2>2
  <2> QED BY <1>1, <1>8, <2>3, CallKeeps DEF Late
<1>9. CASE WaitUntilReady(c) BY <1>2, <1>9, PlacesTyped DEF WaitUntilReady
<1>10. CASE Polled(c) BY <1>2, <1>4, <1>10, PlacesTyped DEF Polled, Connects
<1>11. CASE LastConnected(c) BY <1>2, <1>11, PlacesTyped DEF LastConnected, Connects
<1>12. CASE StopResolves(c) BY <1>2, <1>12, PlacesTyped DEF StopResolves, Connects
<1> QED BY <1>3, <1>5, <1>6, <1>7, <1>8, <1>9, <1>10, <1>11, <1>12 DEF CallStep

(* deactivate kills the only process there can be.                           *)
LEMMA DisposeKeeps == ASSUME ServerInv, DisposeServer PROVE ServerInv'
<1> USE DEF ServerInv
<1>1. /\ serverDown' = TRUE /\ pendingStart' = (Starting # {})
      /\ killed' = IF HasProcess THEN killed \cup {process} ELSE killed
      /\ UNCHANGED <<call, process, service, port, upsets>>
  BY DEF DisposeServer
<1>2. HasProcess => process \in Services /\ service[process] # "none"
  BY ServerAssumption DEF HasProcess, ExitCodeIsNull, ServerTypeOK, Services
<1>3. ServerTypeOK' BY <1>1, <1>2 DEF ServerTypeOK
<1>4. OnlyKnown' /\ KilledExist' BY <1>1, <1>2 DEF OnlyKnown, ExitCodeIsNull, KilledExist
<1>5. \A s \in Services : Alive(s) => s \in killed'
  BY <1>1, ServerAssumption DEF OnlyKnown, ExitCodeIsNull, HasProcess, Alive, Services
<1>6. DownForGood' BY <1>1, <1>5 DEF DownForGood, Starting, Alive
<1> QED BY <1>3, <1>4, <1>6

(* A step of a service process: none comes to life but by Spawn, and the     *)
(* exit that makes the manager forget is that of the process it knows.       *)
LEMMA ServiceStepKeeps == ASSUME ServerInv, NEW s \in Services, ServiceStep(s) PROVE ServerInv'
<1> USE DEF ServerInv
<1>1. service \in [Services -> ServiceStates] /\ MaxUpsets \in Nat /\ killed \subseteq Services
  BY ServerAssumption DEF ServerTypeOK
<1>2. ASSUME NEW state \in ServiceStates \ {"none"}, service' = [service EXCEPT ![s] = state],
             ExitCodeIsNull(s), Alive(s) \/ state \notin {"booting", "ready"},
             port' \in {"nobody", "own"} \cup Foreign, upsets' \in 0 .. MaxUpsets,
             UNCHANGED <<call, process, killed, serverDown, pendingStart>>
      PROVE  ServerInv'
  <2>1. ServerTypeOK' BY <1>1, <1>2 DEF ServerTypeOK
  <2>2. \A t \in Services : service'[t] = IF t = s THEN state ELSE service[t] BY <1>1, <1>2
  <2>3. OnlyKnown' BY <1>2, <2>2 DEF OnlyKnown, ExitCodeIsNull
  <2>4. KilledExist' BY <1>1, <1>2, <2>2 DEF KilledExist
  <2>5. DownForGood' BY <1>2, <2>2 DEF DownForGood, Starting, Alive
  <2> QED BY <2>1, <2>3, <2>4, <2>5
<1>3. port \in {"nobody", "own"} \cup Foreign /\ upsets \in 0 .. MaxUpsets BY DEF ServerTypeOK
<1>4. {"ready", "dead", "failed"} \subseteq ServiceStates \ {"none"} BY DEF ServiceStates
<1>5. CASE Binds(s)
  BY <1>2, <1>3, <1>4, <1>5 DEF Binds, Alive, ExitCodeIsNull
<1>6. CASE Ends(s)
  <2>1. upsets' \in 0 .. MaxUpsets BY <1>1, <1>3, <1>6 DEF Ends
  <2> QED BY <1>2, <1>3, <1>4, <1>6, <2>1 DEF Ends, Freed, Alive, ExitCodeIsNull
<1>7. CASE SpawnFails(s)
  <2>1. upsets' \in 0 .. MaxUpsets BY <1>1, <1>3, <1>7 DEF SpawnFails
  <2> QED BY <1>2, <1>3, <1>4, <1>7, <2>1 DEF SpawnFails, Alive, ExitCodeIsNull
<1>8. CASE ExitEvent(s)
  <2>1. /\ service[s] = "dead" /\ service' = [service EXCEPT ![s] = "none"] /\ process' = 0
        /\ killed' = killed \ {s}
        /\ UNCHANGED <<call, port, serverDown, pendingStart, upsets>>
    BY <1>8 DEF ExitEvent
  <2>2. \A t \in Services : service'[t] = IF t = s THEN "none" ELSE service[t] BY <1>1, <2>1
  <2>3. ServerTypeOK' BY <1>1, <2>1, ServerAssumption DEF ServerTypeOK, ServiceStates
  <2>4. process = s BY <2>1 DEF OnlyKnown, ExitCodeIsNull
  <2>5. OnlyKnown' BY <2>2, <2>4 DEF OnlyKnown, ExitCodeIsNull
  <2>6. KilledExist' BY <1>1, <2>1, <2>2 DEF KilledExist
  <2>7. DownForGood' BY <2>1, <2>2 DEF DownForGood, Starting, Alive
  <2> QED BY <2>3, <2>5, <2>6, <2>7
<1> QED BY <1>5, <1>6, <1>7, <1>8 DEF ServiceStep

LEMMA ServerStepKeeps == ASSUME ServerInv, ServerSteps PROVE ServerInv'
<1>1. CASE PortChanges
  <2>1. ServerTypeOK' BY <1>1, ServerAssumption DEF PortChanges, ServerInv, ServerTypeOK
  <2>2. OnlyKnown' /\ KilledExist' /\ DownForGood'
    BY <1>1 DEF PortChanges, ServerInv, OnlyKnown, ExitCodeIsNull, KilledExist, DownForGood, Starting, Alive
  <2> QED BY <2>1, <2>2 DEF ServerInv
<1> QED BY <1>1, CallStepKeeps, ServiceStepKeeps DEF ServerSteps

LEMMA ServerInvUnchanged == ASSUME ServerInv, UNCHANGED serverVars PROVE ServerInv'
<1>1. UNCHANGED <<call, process, service, killed, port, serverDown, pendingStart, upsets>>
  BY DEF serverVars
<1> QED BY <1>1 DEF ServerInv, ServerTypeOK, OnlyKnown, ExitCodeIsNull, KilledExist, DownForGood,
                    Starting, Alive

LEMMA ServerInvInit == ServerInit => ServerInv
<1> SUFFICES ASSUME ServerInit PROVE ServerInv OBVIOUS
<1>1. IdleCall \in CallRecords BY PlacesTyped DEF IdleCall, CallRecords, Answers
<1>2. call \in [Calls -> CallRecords] BY <1>1 DEF ServerInit
<1>3. service \in [Services -> ServiceStates] BY DEF ServerInit, ServiceStates
<1>4. process \in 0 .. MaxServices /\ killed \subseteq Services /\ upsets \in 0 .. MaxUpsets
      /\ port \in {"nobody", "own"} \cup Foreign /\ {serverDown, pendingStart} \subseteq BOOLEAN
  <2>1. {} \subseteq Services /\ FALSE \in BOOLEAN /\ 0 \in 0 .. MaxServices
    BY ServerAssumption
  <2>2. /\ process = 0 /\ killed = {} /\ serverDown = FALSE /\ pendingStart = FALSE
        /\ upsets \in 0 .. MaxUpsets /\ port \in {"nobody"} \cup Foreign
    BY DEF ServerInit
  <2>3. {serverDown, pendingStart} \subseteq BOOLEAN BY <2>2
  <2> QED BY <2>1, <2>2, <2>3
<1>5. ServerTypeOK BY <1>2, <1>3, <1>4 DEF ServerTypeOK, CallRecords
<1>6. OnlyKnown /\ KilledExist BY DEF ServerInit, OnlyKnown, ExitCodeIsNull, KilledExist
<1>7. DownForGood BY DEF ServerInit, DownForGood
<1> QED BY <1>5, <1>6, <1>7 DEF ServerInv

LEMMA ServerPromises == ServerInv => KnownService /\ ServiceEndsWithWindow
BY DEF ServerInv, OnlyKnown, ExitCodeIsNull, DownForGood, Alive, KnownService, ServiceEndsWithWindow

-----------------------------------------------------------------------------
(* The chat windows. *)

PanelRecords ==
    [phase : {"none", "boxed", "open", "closed"}, busy : BOOLEAN, view : Views,
     toView : Seq(Messages), fromView : Seq(Lines), stdin : Seq(Lines), stdout : Seq(Messages),
     proc : Procs, ask : Asks, text : Texts \cup {"none"}, heard : BOOLEAN,
     queue : {"empty"} \cup SendOutcomes, late : BOOLEAN, blurred : BOOLEAN, lost : BOOLEAN]

(* The messages that free the script, in a queue of messages.                *)
Frees(m) == m.type \in {"ready", "turn", "error"}
Quiet(q) == \A i \in 1 .. Len(q) : ~Frees(q[i])
Single(q) == \A i, j \in 1 .. Len(q) : Frees(q[i]) /\ Frees(q[j]) => i = j
Tells(q, ask) == \A i \in 1 .. Len(q) : Frees(q[i]) => q[i].type # "error" /\ q[i].ask = ask

Runs(w) == w.proc \in {"starting", "idle", "consulting", "answering"}
Works(w) == w.proc \in {"starting", "consulting", "answering"}
Sent(w) == w.fromView # <<>>
Fed(w) == Runs(w) /\ w.stdin # <<>>

(* At most one place has the baton.                                          *)
OneBaton(w) ==
    /\ Len(w.fromView) <= 1 /\ (Runs(w) => Len(w.stdin) <= 1)
    /\ Single(w.toView) /\ Single(w.stdout)
    /\ ~w.view.busy => ~Sent(w) /\ ~Fed(w) /\ ~Works(w) /\ Quiet(w.stdout) /\ Quiet(w.toView)
    /\ Sent(w) => ~Fed(w) /\ ~Works(w) /\ Quiet(w.stdout) /\ Quiet(w.toView)
    /\ Fed(w) => ~Works(w) /\ Quiet(w.stdout) /\ Quiet(w.toView)
    /\ Works(w) => Quiet(w.stdout) /\ Quiet(w.toView)
    /\ Quiet(w.stdout) \/ Quiet(w.toView)

(* The panel is free when it is on the script's side.                        *)
BusyInTurn(w) == ~w.view.busy \/ Sent(w) \/ ~Quiet(w.toView) => ~w.busy

(* As long as the process runs, whoever has it knows what is pending.        *)
SameAsk(w) ==
    Runs(w) =>
        /\ ~w.view.busy => w.view.ask = w.ask
        /\ Sent(w) => w.fromView[1].seen = w.ask
        /\ Fed(w) => w.stdin[1].seen = w.ask
        /\ Tells(w.stdout, w.ask) /\ Tells(w.toView, w.ask)

Orderly(w) ==
    /\ w.phase # "open" =>
        /\ ~Runs(w) /\ w.view.busy
        /\ w.toView = <<>> /\ w.fromView = <<>> /\ w.stdin = <<>> /\ w.stdout = <<>>
    /\ w.lost => w.blurred
    /\ ~w.blurred => OneBaton(w) /\ BusyInTurn(w) /\ SameAsk(w)

(* The windows among themselves.                                             *)
Windows ==
    /\ ~overtaken =>
        /\ \A p \in Panels : Live(p) => current = p
        /\ \A p \in Panels : panel[p].phase = "boxed" => current = 0
        /\ \A p, q \in Panels : panel[p].phase = "boxed" /\ panel[q].phase = "boxed" => p = q
    /\ chatDown /\ ~overtaken => \A p \in Panels : panel[p].phase \notin {"boxed", "open"}

ChatInv ==
    /\ panel \in [Panels -> PanelRecords]
    /\ \A p \in Panels : Orderly(panel[p])
    /\ current \in 0 .. MaxPanels /\ session \in Asks /\ askCount \in Asks
    /\ hasKey \in BOOLEAN /\ overtaken \in BOOLEAN /\ chatDown \in BOOLEAN /\ noise \in 0 .. MaxNoise
    /\ Windows

-----------------------------------------------------------------------------
(* Queues of messages: what is put at the end and what is left when the head *)
(* is taken.                                                                 *)

LEMMA QuietQueue ==
    ASSUME NEW q \in Seq(Messages), Quiet(q), NEW ask
    PROVE  Single(q) /\ Tells(q, ask)
BY DEF Quiet, Single, Tells

LEMMA NoMessage == Quiet(<<>>) /\ <<>> \in Seq(Messages) /\ <<>> \in Seq(Lines) /\ Len(<<>>) = 0
BY DEF Quiet

LEMMA AppendMessage ==
    ASSUME NEW q \in Seq(Messages), NEW m \in Messages, NEW ask
    PROVE  /\ Append(q, m) \in Seq(Messages)
           /\ ~Frees(m) /\ Quiet(q) => Quiet(Append(q, m))
           /\ ~Frees(m) /\ Single(q) => Single(Append(q, m))
           /\ Quiet(Append(q, m)) => Quiet(q)
           /\ Quiet(q) => Single(Append(q, m))
           /\ Tells(q, ask) /\ (Frees(m) => m.type # "error" /\ m.ask = ask)
                 => Tells(Append(q, m), ask)
<1>1. /\ Append(q, m) \in Seq(Messages) /\ Len(q) \in Nat /\ Len(Append(q, m)) = Len(q) + 1
      /\ Append(q, m)[Len(q) + 1] = m
      /\ \A i \in 1 .. Len(q) : Append(q, m)[i] = q[i]
  OBVIOUS
<1>2. ~Frees(m) /\ Quiet(q) => Quiet(Append(q, m)) BY <1>1 DEF Quiet
<1>3. ~Frees(m) /\ Single(q) => Single(Append(q, m)) BY <1>1 DEF Single
<1>4. Quiet(Append(q, m)) => Quiet(q) BY <1>1 DEF Quiet
<1>5. Quiet(q) => Single(Append(q, m)) BY <1>1 DEF Quiet, Single
<1>6. Tells(q, ask) /\ (Frees(m) => m.type # "error" /\ m.ask = ask) => Tells(Append(q, m), ask)
  BY <1>1 DEF Tells
<1> QED BY <1>1, <1>2, <1>3, <1>4, <1>5, <1>6

LEMMA TailMessage ==
    ASSUME NEW q \in Seq(Messages), q # <<>>, NEW ask
    PROVE  /\ Head(q) \in Messages /\ Tail(q) \in Seq(Messages)
           /\ Quiet(q) => Quiet(Tail(q)) /\ ~Frees(Head(q))
           /\ ~Frees(Head(q)) /\ Quiet(Tail(q)) => Quiet(q)
           /\ Single(q) => Single(Tail(q))
           /\ Single(q) /\ Frees(Head(q)) => Quiet(Tail(q))
           /\ Tells(q, ask) => Tells(Tail(q), ask)
           /\ Tells(q, ask) /\ Frees(Head(q)) => Head(q).type # "error" /\ Head(q).ask = ask
<1>1. /\ Head(q) \in Messages /\ Tail(q) \in Seq(Messages) /\ Len(q) \in Nat /\ Len(q) >= 1
      /\ Head(q) = q[1] /\ Len(Tail(q)) = Len(q) - 1
      /\ \A i \in 1 .. Len(q) - 1 : Tail(q)[i] = q[i + 1]
  OBVIOUS
<1>2. \A i \in 1 .. Len(q) : i # 1 => i - 1 \in 1 .. Len(q) - 1 /\ Tail(q)[i - 1] = q[i] BY <1>1
<1>3. Quiet(q) => Quiet(Tail(q)) /\ ~Frees(Head(q)) BY <1>1 DEF Quiet
<1>4. ~Frees(Head(q)) /\ Quiet(Tail(q)) => Quiet(q) BY <1>1, <1>2 DEF Quiet
<1>5. Single(q) => Single(Tail(q)) BY <1>1 DEF Single
<1>6. Single(q) /\ Frees(Head(q)) => Quiet(Tail(q)) BY <1>1 DEF Single, Quiet
<1>7. /\ Tells(q, ask) => Tells(Tail(q), ask)
      /\ Tells(q, ask) /\ Frees(Head(q)) => Head(q).type # "error" /\ Head(q).ask = ask
  BY <1>1 DEF Tells
<1> QED BY <1>1, <1>3, <1>4, <1>5, <1>6, <1>7

LEMMA AppendLine ==
    ASSUME NEW q \in Seq(Lines), NEW l \in Lines
    PROVE  /\ Append(q, l) \in Seq(Lines) /\ Append(q, l) # <<>>
           /\ q = <<>> => Len(Append(q, l)) = 1 /\ Append(q, l)[1] = l
<1>1. /\ Append(q, l) \in Seq(Lines) /\ Len(Append(q, l)) = Len(q) + 1 /\ Len(q) \in Nat
      /\ Append(q, l)[Len(q) + 1] = l
  OBVIOUS
<1>2. Append(q, l) # <<>> /\ Len(<<>>) = 0 BY <1>1
<1>3. q = <<>> => Len(q) = 0 OBVIOUS
<1> QED BY <1>1, <1>2, <1>3

LEMMA TailLine ==
    ASSUME NEW q \in Seq(Lines), q # <<>>
    PROVE  /\ Head(q) \in Lines /\ Tail(q) \in Seq(Lines) /\ Head(q) = q[1]
           /\ Len(q) <= 1 => Tail(q) = <<>>
<1>1. Head(q) \in Lines /\ Tail(q) \in Seq(Lines) /\ Head(q) = q[1] OBVIOUS
<1>2. Len(q) \in Nat \ {0} /\ Len(Tail(q)) = Len(q) - 1 OBVIOUS
<1> QED BY <1>1, <1>2, EmptySeq

-----------------------------------------------------------------------------
LEMMA Typed ==
    /\ MaxPanels \in Nat \ {0} /\ MaxAsks \in Nat \ {0} /\ MaxNoise \in Nat
    /\ 0 \in Asks /\ 0 \notin Panels
    /\ \A type \in {"ready", "busy", "turn", "error", "closed"}, a \in Asks :
          Message(type, a) \in Messages /\ Message(type, a).type = type /\ Message(type, a).ask = a
    /\ \A text \in Texts, a \in Asks : Line(text, a) \in Lines /\ Line(text, a).seen = a
BY ChatAssumption DEF Asks, Panels, Message, Messages, Line, Lines

(* A window that has just been made, asked for a credential or disposed of.  *)
LEMMA Fresh ==
    ASSUME NEW w \in PanelRecords, w.busy, w.view.busy, ~w.blurred, ~w.lost,
           w.toView = <<>>, w.fromView = <<>>, w.stdin = <<>>, w.stdout = <<>>,
           w.phase # "open" => ~Runs(w)
    PROVE  Orderly(w)
<1>1. Quiet(w.toView) /\ Quiet(w.stdout) /\ Single(w.toView) /\ Single(w.stdout)
      /\ Tells(w.toView, w.ask) /\ Tells(w.stdout, w.ask)
  BY NoMessage, QuietQueue
<1>2. OneBaton(w) BY <1>1 DEF OneBaton, Sent, Fed, Works
<1>3. BusyInTurn(w) BY <1>1 DEF BusyInTurn, Sent
<1>4. SameAsk(w) BY <1>1 DEF SameAsk, Sent, Fed
<1> QED BY <1>2, <1>3, <1>4 DEF Orderly

LEMMA NewTyped ==
    /\ NewPanel \in PanelRecords /\ NewPanel.phase = "none" /\ Orderly(NewPanel)
    /\ \A phase \in {"boxed", "closed"} :
          LET w == [NewPanel EXCEPT !.phase = phase]
          IN  w \in PanelRecords /\ w.phase = phase /\ Orderly(w)
    /\ \A phase \in {"open", "closed"}, proc \in Procs :
          LET w == [NewPanel EXCEPT !.phase = phase, !.proc = proc]
          IN  /\ w \in PanelRecords /\ w.phase = phase
              /\ phase = "open" \/ proc \in {"none", "ended", "killed", "gone"} => Orderly(w)
<1>1. [busy |-> TRUE, pending |-> FALSE, ask |-> 0] \in Views BY Typed DEF Views
<1>2. NewPanel \in PanelRecords BY <1>1, Typed, NoMessage DEF NewPanel, PanelRecords, Procs
<1>3. /\ NewPanel.phase = "none" /\ NewPanel.proc = "none" /\ NewPanel.busy /\ NewPanel.view.busy
      /\ ~NewPanel.blurred /\ ~NewPanel.lost
      /\ NewPanel.toView = <<>> /\ NewPanel.fromView = <<>>
      /\ NewPanel.stdin = <<>> /\ NewPanel.stdout = <<>>
  BY DEF NewPanel
<1>4. Orderly(NewPanel) BY <1>2, <1>3, Fresh DEF Runs
<1>5. ASSUME NEW phase \in {"boxed", "closed"}
      PROVE  LET w == [NewPanel EXCEPT !.phase = phase]
             IN  w \in PanelRecords /\ w.phase = phase /\ Orderly(w)
  <2> DEFINE w == [NewPanel EXCEPT !.phase = phase]
  <2>1. w \in PanelRecords BY <1>2 DEF PanelRecords
  <2>2. /\ w.phase = phase /\ w.proc = "none" /\ w.busy /\ w.view.busy /\ ~w.blurred /\ ~w.lost
        /\ w.toView = <<>> /\ w.fromView = <<>> /\ w.stdin = <<>> /\ w.stdout = <<>>
    BY DEF NewPanel
  <2> HIDE DEF w
  <2>3. Orderly(w) BY <2>1, <2>2, Fresh DEF Runs
  <2> QED BY <2>1, <2>2, <2>3 DEF w
<1>6. ASSUME NEW phase \in {"open", "closed"}, NEW proc \in Procs
      PROVE  LET w == [NewPanel EXCEPT !.phase = phase, !.proc = proc]
             IN  /\ w \in PanelRecords /\ w.phase = phase
                 /\ phase = "open" \/ proc \in {"none", "ended", "killed", "gone"} => Orderly(w)
  <2> DEFINE w == [NewPanel EXCEPT !.phase = phase, !.proc = proc]
  <2>1. w \in PanelRecords BY <1>2 DEF PanelRecords
  <2>2. /\ w.phase = phase /\ w.proc = proc /\ w.busy /\ w.view.busy /\ ~w.blurred /\ ~w.lost
        /\ w.toView = <<>> /\ w.fromView = <<>> /\ w.stdin = <<>> /\ w.stdout = <<>>
    BY DEF NewPanel
  <2> HIDE DEF w
  <2>3. phase = "open" \/ proc \in {"none", "ended", "killed", "gone"} => Orderly(w)
    BY <2>1, <2>2, Fresh DEF Runs
  <2> QED BY <2>1, <2>2, <2>3 DEF w
<1> QED BY <1>2, <1>3, <1>4, <1>5, <1>6

(* A step of one window that leaves its phase and the other windows alone.   *)
LEMMA Moved ==
    ASSUME ChatInv, NEW p \in Panels, NEW w \in PanelRecords, Orderly(w), w.phase = panel[p].phase,
           Becomes(p, w), UNCHANGED <<current, hasKey, overtaken, chatDown>>,
           session' \in Asks, askCount' \in Asks, noise' \in 0 .. MaxNoise
    PROVE  ChatInv'
<1> USE DEF ChatInv
<1>1. panel' = [panel EXCEPT ![p] = w] BY DEF Becomes
<1>2. panel' \in [Panels -> PanelRecords] BY <1>1
<1>3. \A q \in Panels : Orderly(panel'[q]) BY <1>1
<1>4. \A q \in Panels : panel'[q].phase = panel[q].phase BY <1>1
<1>5. Windows' BY <1>4 DEF Windows, Live
<1> QED BY <1>2, <1>3, <1>5

(* The webview is only written to while the window is open.                  *)
LEMMA Posted ==
    ASSUME NEW p \in Panels, NEW w \in PanelRecords, NEW m \in Messages
    PROVE  /\ Post(p, w, m) \in PanelRecords
           /\ Post(p, w, m).toView = IF w.phase = "open" THEN Append(w.toView, m) ELSE w.toView
           /\ Post(p, w, m).phase = w.phase /\ Post(p, w, m).busy = w.busy
           /\ Post(p, w, m).view = w.view /\ Post(p, w, m).fromView = w.fromView
           /\ Post(p, w, m).stdin = w.stdin /\ Post(p, w, m).stdout = w.stdout
           /\ Post(p, w, m).proc = w.proc /\ Post(p, w, m).ask = w.ask
           /\ Post(p, w, m).blurred = w.blurred /\ Post(p, w, m).lost = w.lost
<1>1. Append(w.toView, m) \in Seq(Messages) BY DEF PanelRecords
<1> DEFINE a == [w EXCEPT !.toView = Append(w.toView, m)]
<1>2. a \in PanelRecords BY <1>1 DEF PanelRecords
<1>3. a.toView = Append(w.toView, m) BY DEF PanelRecords
<1>4. /\ a.phase = w.phase /\ a.busy = w.busy /\ a.view = w.view /\ a.fromView = w.fromView
      /\ a.stdin = w.stdin /\ a.stdout = w.stdout /\ a.proc = w.proc /\ a.ask = w.ask
      /\ a.blurred = w.blurred /\ a.lost = w.lost
  BY DEF PanelRecords
<1>5. Post(p, w, m) = IF w.phase = "open" THEN a ELSE w BY DEF Post
<1> HIDE DEF a
<1> QED BY <1>2, <1>3, <1>4, <1>5

-----------------------------------------------------------------------------
(* Windows come and go.                                                      *)

LEMMA Opened ==
    ASSUME ChatInv, NEW p \in Panels, Created(p), panel[p].phase \in {"none", "boxed"},
           UNCHANGED <<hasKey, session, askCount, noise, chatDown>>,
           overtaken' \in BOOLEAN, overtaken => overtaken',
           ~overtaken' => \A q \in Panels : panel[q].phase = "boxed" => q = p,
           ~overtaken' => ~chatDown /\ current = 0
    PROVE  ChatInv'
<1> USE DEF ChatInv
<1> DEFINE w == [NewPanel EXCEPT !.phase = "open", !.proc = "starting"]
<1>1. w \in PanelRecords /\ w.phase = "open" /\ Orderly(w) BY NewTyped DEF Procs
<1>2. panel' = [panel EXCEPT ![p] = w] /\ current' = p BY DEF Created, Becomes
<1> HIDE DEF w
<1>3. panel' \in [Panels -> PanelRecords] BY <1>1, <1>2
<1>4. \A q \in Panels : Orderly(panel'[q]) BY <1>1, <1>2
<1>5. \A q \in Panels : panel'[q].phase = IF q = p THEN "open" ELSE panel[q].phase BY <1>1, <1>2
<1>6. Windows' BY <1>2, <1>5, Typed DEF Windows, Live
<1>7. current' \in 0 .. MaxPanels BY <1>2, Typed DEF Panels
<1> QED BY <1>3, <1>4, <1>6, <1>7

LEMMA OpenChatKeeps == ASSUME ChatInv, NEW p \in Panels, OpenChat(p) PROVE ChatInv'
<1> USE DEF ChatInv
<1>1. /\ ~chatDown /\ panel[p].phase = "none" /\ current = 0
      /\ overtaken' = (overtaken \/ Boxed)
      /\ UNCHANGED <<hasKey, session, askCount, chatDown, noise>>
  BY DEF OpenChat
<1>2. overtaken' \in BOOLEAN BY <1>1 DEF Boxed
<1>3. CASE hasKey
  <2>1. Created(p) BY <1>3 DEF OpenChat
  <2> QED BY <1>1, <1>2, <2>1, Opened DEF Boxed
<1>4. CASE ~hasKey
  <2> DEFINE w == [NewPanel EXCEPT !.phase = "boxed"]
  <2>2. w \in PanelRecords /\ w.phase = "boxed" /\ Orderly(w) BY NewTyped
  <2>3. panel' = [panel EXCEPT ![p] = w] /\ current' = current BY <1>4 DEF OpenChat, Becomes
  <2> HIDE DEF w
  <2>4. panel' \in [Panels -> PanelRecords] BY <2>2, <2>3
  <2>5. \A q \in Panels : Orderly(panel'[q]) BY <2>2, <2>3
  <2>6. \A q \in Panels : panel'[q].phase = IF q = p THEN "boxed" ELSE panel[q].phase
    BY <2>2, <2>3
  <2>7. ~overtaken' => \A q \in Panels : panel[q].phase # "boxed" BY <1>1 DEF Boxed
  <2>8. Windows' BY <1>1, <2>3, <2>6, <2>7, Typed DEF Windows, Live
  <2> QED BY <1>1, <1>2, <2>3, <2>4, <2>5, <2>8
<1> QED BY <1>3, <1>4

LEMMA CredentialGivenKeeps == ASSUME ChatInv, NEW p \in Panels, CredentialGiven(p) PROVE ChatInv'
<1>1. /\ panel[p].phase = "boxed" /\ Created(p)
      /\ UNCHANGED <<hasKey, session, askCount, overtaken, chatDown, noise>>
  BY DEF CredentialGiven
<1>2. ~overtaken => ~chatDown /\ current = 0 /\ \A q \in Panels : panel[q].phase = "boxed" => q = p
  BY <1>1 DEF ChatInv, Windows
<1> QED BY <1>1, <1>2, Opened DEF ChatInv

(* A window ends: nothing else comes of it than what the process does.       *)
LEMMA Gone ==
    ASSUME ChatInv, NEW p \in Panels, NEW w \in PanelRecords, Orderly(w), w.phase = "closed",
           Becomes(p, w), current' \in {0, current}, Live(p) => current' = 0,
           ~overtaken /\ current' = 0 => \A q \in Panels : Live(q) => q = p,
           UNCHANGED <<hasKey, session, askCount, noise>>,
           overtaken' \in BOOLEAN, overtaken => overtaken', chatDown' \in BOOLEAN,
           chatDown' /\ ~overtaken' =>
               chatDown \/ \A q \in Panels : q # p => panel[q].phase \notin {"boxed", "open"}
    PROVE  ChatInv'
<1> USE DEF ChatInv
<1>1. panel' = [panel EXCEPT ![p] = w] BY DEF Becomes
<1>2. panel' \in [Panels -> PanelRecords] BY <1>1
<1>3. \A q \in Panels : Orderly(panel'[q]) BY <1>1
<1>4. \A q \in Panels : panel'[q].phase = IF q = p THEN "closed" ELSE panel[q].phase BY <1>1
<1>5. Windows' BY <1>4, Typed DEF Windows, Live
<1>6. current' \in 0 .. MaxPanels BY Typed
<1> QED BY <1>2, <1>3, <1>5, <1>6

LEMMA DisposedTyped ==
    ASSUME NEW v \in PanelRecords
    PROVE  Disposed(v) \in PanelRecords /\ Disposed(v).phase = "closed" /\ Orderly(Disposed(v))
<1> DEFINE proc == IF v.proc \in {"ended", "gone"} THEN v.proc ELSE "killed"
<1>1. Disposed(v) = [NewPanel EXCEPT !.phase = "closed", !.proc = proc] BY DEF Disposed
<1>2. proc \in {"ended", "gone", "killed"} OBVIOUS
<1> HIDE DEF proc
<1>3. proc \in Procs BY <1>2 DEF Procs
<1>4. LET w == [NewPanel EXCEPT !.phase = "closed", !.proc = proc]
      IN  w \in PanelRecords /\ w.phase = "closed" /\ Orderly(w)
  BY <1>2, <1>3, NewTyped
<1> QED BY <1>1, <1>4

LEMMA CredentialRefusedKeeps ==
    ASSUME ChatInv, NEW p \in Panels, CredentialRefused(p) PROVE ChatInv'
<1> DEFINE w == [NewPanel EXCEPT !.phase = "closed"]
<1>2. w \in PanelRecords /\ w.phase = "closed" /\ Orderly(w) BY NewTyped
<1>3. /\ panel[p].phase = "boxed" /\ Becomes(p, w)
      /\ UNCHANGED <<current, hasKey, session, askCount, overtaken, chatDown, noise>>
  BY DEF CredentialRefused
<1> HIDE DEF w
<1>4. ~overtaken /\ current' = 0 => \A q \in Panels : ~Live(q)
  BY <1>3, Typed DEF ChatInv, Windows
<1> QED BY <1>2, <1>3, <1>4, Gone DEF ChatInv, Live

LEMMA ClosePanelKeeps == ASSUME ChatInv, NEW p \in Panels, ClosePanel(p) PROVE ChatInv'
<1> DEFINE w == Disposed(panel[p])
<1>1. w \in PanelRecords /\ w.phase = "closed" /\ Orderly(w) BY DisposedTyped DEF ChatInv
<1>2. /\ Live(p) /\ Becomes(p, w) /\ current' = 0
      /\ UNCHANGED <<hasKey, session, askCount, overtaken, chatDown, noise>>
  BY DEF ClosePanel
<1> HIDE DEF w
<1>3. ~overtaken => \A q \in Panels : Live(q) => q = p BY <1>2 DEF ChatInv, Windows
<1> QED BY <1>1, <1>2, <1>3, Gone DEF ChatInv

(* deactivate closes the only window there can be.                           *)
LEMMA CloseKeeps == ASSUME ChatInv, CloseCurrent PROVE ChatInv'
<1>1. /\ chatDown' = TRUE /\ overtaken' = (overtaken \/ Boxed)
      /\ UNCHANGED <<hasKey, session, askCount, noise>>
  BY DEF CloseCurrent
<1>2. overtaken' \in BOOLEAN BY <1>1 DEF Boxed, ChatInv
<1>3. ~overtaken' => \A q \in Panels : panel[q].phase # "boxed" /\ (Live(q) => q = current)
  BY <1>1 DEF Boxed, ChatInv, Windows
<1>4. CASE current = 0
  <2>1. UNCHANGED <<panel, current>> BY <1>4 DEF CloseCurrent
  <2>2. Windows' BY <1>1, <1>3, <1>4, <2>1, Typed DEF Windows, Live, ChatInv
  <2> QED BY <1>1, <1>2, <2>1, <2>2 DEF ChatInv
<1>5. CASE current # 0
  <2> DEFINE w == Disposed(panel[current])
  <2>1. current \in Panels BY <1>5, Typed DEF ChatInv, Panels
  <2>2. w \in PanelRecords /\ w.phase = "closed" /\ Orderly(w) BY <2>1, DisposedTyped DEF ChatInv
  <2>3. Becomes(current, w) /\ current' = 0 BY <1>5 DEF CloseCurrent
  <2> HIDE DEF w
  <2>4. ~overtaken => \A q \in Panels : Live(q) => q = current BY DEF ChatInv, Windows
  <2> QED BY <1>1, <1>2, <1>3, <2>1, <2>2, <2>3, <2>4, Gone DEF Live
<1> QED BY <1>4, <1>5
-----------------------------------------------------------------------------
(* The script, the panel and the process of one window.                      *)

(* A step that leaves the queues alone, and no process busier than it was.   *)
LEMMA Alike ==
    ASSUME NEW v \in PanelRecords, Orderly(v), NEW w \in PanelRecords,
           w.phase = v.phase, w.busy = v.busy, w.view = v.view, w.ask = v.ask,
           w.toView = v.toView, w.fromView = v.fromView, w.stdin = v.stdin, w.stdout = v.stdout,
           w.blurred = v.blurred, w.lost = v.lost,
           Runs(w) => Runs(v), Works(w) => Works(v)
    PROVE  Orderly(w)
<1>1. ~w.blurred => OneBaton(w)
  BY DEF Orderly, OneBaton, Sent, Fed
<1>2. ~w.blurred => BusyInTurn(w) BY DEF Orderly, BusyInTurn, Sent
<1>3. ~w.blurred => SameAsk(w) BY DEF Orderly, SameAsk, Sent, Fed
<1> QED BY <1>1, <1>2, <1>3 DEF Orderly

LEMMA SubmitKeeps ==
    ASSUME ChatInv, NEW p \in Panels, NEW text \in Texts, Submit(p, text) PROVE ChatInv'
<1> DEFINE v == panel[p]
           l == Line(text, v.view.ask)
           w == [v EXCEPT !.view.busy = TRUE, !.fromView = Append(@, l)]
<1>1. v \in PanelRecords /\ Orderly(v) BY DEF ChatInv
<1>2. v.phase = "open" /\ ~v.view.busy /\ Becomes(p, w)
      /\ UNCHANGED <<current, hasKey, session, askCount, overtaken, chatDown, noise>>
  BY DEF Submit, Live, Becomes
<1>3. v.view.ask \in Asks BY <1>1 DEF PanelRecords, Views
<1>4. l \in Lines /\ l.seen = v.view.ask BY <1>3, Typed
<1>5. v.fromView \in Seq(Lines) BY <1>1 DEF PanelRecords
<1>6. /\ Append(v.fromView, l) \in Seq(Lines)
      /\ v.fromView = <<>> => Len(Append(v.fromView, l)) = 1 /\ Append(v.fromView, l)[1] = l
  BY <1>4, <1>5, AppendLine
<1>7. w \in PanelRecords BY <1>1, <1>6 DEF PanelRecords, Views
<1>8. /\ w.phase = v.phase /\ w.busy = v.busy /\ w.ask = v.ask /\ w.view.busy
      /\ w.toView = v.toView /\ w.stdin = v.stdin /\ w.stdout = v.stdout
      /\ w.fromView = Append(v.fromView, l)
      /\ w.proc = v.proc /\ w.blurred = v.blurred /\ w.lost = v.lost
  BY <1>1 DEF PanelRecords, Views
<1> HIDE DEF v, l, w
<1>9. Orderly(w)
  <2>1. (Runs(w) <=> Runs(v)) /\ (Works(w) <=> Works(v)) /\ (Fed(w) <=> Fed(v))
    BY <1>8 DEF Runs, Works, Fed
  <2>2. ~w.blurred => OneBaton(w) BY <1>1, <1>2, <1>6, <1>8, <2>1 DEF Orderly, OneBaton, Sent
  <2>3. ~w.blurred => BusyInTurn(w) BY <1>1, <1>2, <1>8 DEF Orderly, BusyInTurn
  <2>4. ~w.blurred => SameAsk(w)
    BY <1>1, <1>2, <1>4, <1>6, <1>8, <2>1 DEF Orderly, OneBaton, SameAsk, Sent
  <2> QED BY <1>1, <1>2, <1>8, <2>2, <2>3, <2>4 DEF Orderly
<1> QED BY <1>2, <1>7, <1>8, <1>9, Moved DEF ChatInv, v

LEMMA ReceiveKeeps == ASSUME ChatInv, NEW p \in Panels, Receive(p) PROVE ChatInv'
<1> DEFINE v == panel[p]
           l == Head(v.fromView)
           u == [v EXCEPT !.fromView = Tail(@)]
           sent == [Post(p, u, Message("busy", 0)) EXCEPT !.busy = TRUE]
<1>1. v \in PanelRecords /\ Orderly(v) BY DEF ChatInv
<1>2. v.fromView # <<>> /\ UNCHANGED <<current, hasKey, session, askCount, overtaken, chatDown, noise>>
  BY DEF Receive
<1>3. v.phase = "open" BY <1>1, <1>2 DEF Orderly
<1>4. v.fromView \in Seq(Lines) /\ v.stdin \in Seq(Lines) /\ v.toView \in Seq(Messages)
  BY <1>1 DEF PanelRecords
<1>5. /\ l \in Lines /\ l = v.fromView[1] /\ Tail(v.fromView) \in Seq(Lines)
      /\ Len(v.fromView) <= 1 => Tail(v.fromView) = <<>>
  BY <1>2, <1>4, TailLine
<1>6. u \in PanelRecords BY <1>1, <1>5 DEF PanelRecords
<1>7. /\ u.phase = v.phase /\ u.busy = v.busy /\ u.view = v.view /\ u.ask = v.ask
      /\ u.toView = v.toView /\ u.stdin = v.stdin /\ u.stdout = v.stdout
      /\ u.fromView = Tail(v.fromView)
      /\ u.proc = v.proc /\ u.blurred = v.blurred /\ u.lost = v.lost
  BY <1>1 DEF PanelRecords
<1>8. CASE v.busy /\ Becomes(p, [u EXCEPT !.lost = TRUE])
  <2> DEFINE w == [u EXCEPT !.lost = TRUE]
  <2>1. w \in PanelRecords BY <1>6 DEF PanelRecords
  <2>2. w.phase = v.phase /\ w.blurred = v.blurred BY <1>6, <1>7 DEF PanelRecords
  <2> HIDE DEF w
  <2>3. w.blurred BY <1>1, <1>2, <1>8, <2>2 DEF Orderly, BusyInTurn, Sent
  <2>4. Orderly(w) BY <1>3, <2>2, <2>3 DEF Orderly
  <2> QED BY <1>2, <1>8, <2>1, <2>2, <2>4, Moved DEF ChatInv, v, w
<1> DEFINE b == Message("busy", 0)
           e == Message("error", 0)
<1>9. b \in Messages /\ e \in Messages /\ ~Frees(b) /\ Frees(e) BY Typed DEF Frees
<1>10. /\ sent \in PanelRecords /\ sent.busy
       /\ sent.phase = v.phase /\ sent.view = v.view /\ sent.ask = v.ask
       /\ sent.toView = Append(v.toView, b) /\ sent.stdin = v.stdin /\ sent.stdout = v.stdout
       /\ sent.fromView = Tail(v.fromView)
       /\ sent.proc = v.proc /\ sent.blurred = v.blurred /\ sent.lost = v.lost
  <2> DEFINE t == Post(p, u, b)
  <2> HIDE DEF u, v, b
  <2>1. /\ t \in PanelRecords /\ t.phase = v.phase /\ t.view = v.view /\ t.ask = v.ask
        /\ t.toView = Append(v.toView, b) /\ t.stdin = v.stdin /\ t.stdout = v.stdout
        /\ t.fromView = Tail(v.fromView)
        /\ t.proc = v.proc /\ t.blurred = v.blurred /\ t.lost = v.lost
    <3>1. u.phase = "open" BY <1>3, <1>7
    <3>2. t.toView = Append(u.toView, b) BY <1>6, <1>9, <3>1, Posted
    <3> QED BY <1>6, <1>7, <1>9, <3>2, Posted
  <2> HIDE DEF t
  <2>2. sent = [t EXCEPT !.busy = TRUE] BY DEF t, b
  <2> HIDE DEF sent
  <2> QED BY <2>1, <2>2 DEF PanelRecords
<1> HIDE DEF u, sent, l, v, b, e
<1>11. Quiet(v.toView) => Quiet(sent.toView) /\ Single(sent.toView) /\ Tells(sent.toView, v.ask)
  BY <1>4, <1>9, <1>10, AppendMessage, QuietQueue
<1>12. ~v.blurred => /\ ~Fed(v) /\ ~Works(v) /\ Quiet(v.toView) /\ Quiet(v.stdout) /\ v.view.busy
                     /\ Tail(v.fromView) = <<>>
                     /\ Single(v.stdout) /\ (Runs(v) => l.seen = v.ask)
  BY <1>1, <1>2, <1>5 DEF Orderly, OneBaton, Sent, SameAsk
<1>13. CASE ~v.busy /\ Running(p) /\ Becomes(p, [sent EXCEPT !.stdin = Append(@, l)])
  <2> DEFINE w == [sent EXCEPT !.stdin = Append(@, l)]
  <2>1. /\ Append(v.stdin, l) \in Seq(Lines)
        /\ v.stdin = <<>> => Len(Append(v.stdin, l)) = 1 /\ Append(v.stdin, l)[1] = l
    BY <1>4, <1>5, AppendLine
  <2>2. w \in PanelRecords BY <1>10, <2>1 DEF PanelRecords
  <2>3. /\ w.busy /\ w.stdin = Append(v.stdin, l)
        /\ w.phase = v.phase /\ w.view = v.view /\ w.ask = v.ask
        /\ w.toView = sent.toView /\ w.stdout = v.stdout /\ w.fromView = Tail(v.fromView)
        /\ w.proc = v.proc /\ w.blurred = v.blurred /\ w.lost = v.lost
    BY <1>10 DEF PanelRecords
  <2> HIDE DEF w
  <2>4. Runs(v) /\ Runs(w) /\ (Works(w) <=> Works(v)) BY <1>13, <2>3 DEF Running, Runs, Works, v
  <2>5. ~v.blurred => v.stdin = <<>> BY <1>12, <2>4 DEF Fed
  <2>6. ~w.blurred => OneBaton(w)
    <3> SUFFICES ASSUME ~v.blurred PROVE OneBaton(w) BY <2>3
    <3>1. w.fromView = <<>> /\ Len(w.stdin) = 1 BY <1>12, <2>1, <2>3, <2>5
    <3>2. ~Sent(w) /\ ~Works(w) BY <1>12, <2>3, <2>4 DEF Sent
    <3>3. Quiet(w.stdout) /\ Quiet(w.toView) /\ Single(w.stdout) /\ Single(w.toView)
      BY <1>11, <1>12, <2>3
    <3>4. w.view.busy BY <1>12, <2>3
    <3> QED BY <3>1, <3>2, <3>3, <3>4, NoMessage DEF OneBaton
  <2>7. ~w.blurred => BusyInTurn(w) BY <1>11, <1>12, <2>3 DEF BusyInTurn, Sent
  <2>8. ~w.blurred => Tells(w.stdout, w.ask)
    BY <1>1, <2>3, <2>4 DEF Orderly, SameAsk
  <2>9. ~w.blurred => SameAsk(w)
    BY <1>11, <1>12, <2>1, <2>3, <2>4, <2>5, <2>8 DEF SameAsk, Sent, Fed
  <2>10. Orderly(w) BY <1>1, <1>3, <2>3, <2>6, <2>7, <2>9 DEF Orderly
  <2> QED BY <1>2, <1>13, <2>2, <2>3, <2>10, Moved DEF ChatInv, v, w
<1>14. CASE ~v.busy /\ v.proc = "ended" /\ Becomes(p, sent)
  <2>1. ~Runs(sent) /\ ~Works(sent) BY <1>10, <1>14 DEF Runs, Works
  <2>2. ~sent.blurred => OneBaton(sent) BY <1>10, <1>11, <1>12, <2>1, NoMessage DEF OneBaton, Sent, Fed
  <2>3. ~sent.blurred => BusyInTurn(sent) BY <1>10, <1>11, <1>12 DEF BusyInTurn, Sent
  <2>4. Orderly(sent) BY <1>1, <1>3, <1>10, <2>1, <2>2, <2>3 DEF Orderly, SameAsk
  <2> QED BY <1>2, <1>10, <1>14, <2>4, Moved DEF ChatInv, v
<1>15. CASE ~v.busy /\ v.proc = "gone" /\ Becomes(p, [Post(p, sent, e) EXCEPT !.busy = FALSE])
  <2> DEFINE t == Post(p, sent, e)
             w == [t EXCEPT !.busy = FALSE]
  <2>1. /\ t \in PanelRecords /\ t.phase = v.phase /\ t.view = v.view /\ t.ask = v.ask
        /\ t.toView = Append(sent.toView, e) /\ t.stdin = v.stdin /\ t.stdout = v.stdout
        /\ t.fromView = Tail(v.fromView)
        /\ t.proc = v.proc /\ t.blurred = v.blurred /\ t.lost = v.lost
    <3>1. sent \in PanelRecords /\ sent.phase = "open" BY <1>3, <1>10
    <3>2. t.toView = Append(sent.toView, e) BY <1>9, <3>1, Posted
    <3> QED BY <1>9, <1>10, <3>2, Posted
  <2> HIDE DEF t
  <2>2. /\ w \in PanelRecords /\ ~w.busy /\ w.phase = v.phase /\ w.view = v.view
        /\ w.toView = Append(sent.toView, e) /\ w.stdin = v.stdin /\ w.stdout = v.stdout
        /\ w.fromView = Tail(v.fromView)
        /\ w.proc = v.proc /\ w.blurred = v.blurred /\ w.lost = v.lost
    BY <2>1 DEF PanelRecords
  <2> HIDE DEF w
  <2>3. sent.toView \in Seq(Messages) BY <1>10 DEF PanelRecords
  <2>4. ~w.blurred => Single(w.toView) BY <1>9, <1>11, <1>12, <2>2, <2>3, AppendMessage
  <2>5. ~Runs(w) /\ ~Works(w) BY <1>15, <2>2 DEF Runs, Works
  <2>6. ~w.blurred => OneBaton(w) BY <1>12, <2>2, <2>4, <2>5, NoMessage DEF OneBaton, Sent, Fed
  <2>7. Orderly(w) BY <1>1, <1>3, <2>2, <2>5, <2>6 DEF Orderly, BusyInTurn, SameAsk
  <2> QED BY <1>2, <1>15, <2>2, <2>7, Moved DEF ChatInv, v, w, t
<1> QED BY <1>8, <1>13, <1>14, <1>15 DEF Receive, v, u, sent, l, b, e

LEMMA ViewHandlesKeeps == ASSUME ChatInv, NEW p \in Panels, ViewHandles(p) PROVE ChatInv'
<1> DEFINE v == panel[p]
           m == Head(v.toView)
           seen == Seen(v.view, m)
           w == [v EXCEPT !.view = seen, !.toView = Tail(@)]
<1>1. v \in PanelRecords /\ Orderly(v) BY DEF ChatInv
<1>2. v.phase = "open" /\ v.toView # <<>> /\ Becomes(p, w)
      /\ UNCHANGED <<current, hasKey, session, askCount, overtaken, chatDown, noise>>
  BY DEF ViewHandles, Live, Becomes
<1>3. v.toView \in Seq(Messages) /\ v.view \in Views BY <1>1 DEF PanelRecords
<1>4. /\ m \in Messages /\ Tail(v.toView) \in Seq(Messages)
      /\ Quiet(v.toView) => Quiet(Tail(v.toView)) /\ ~Frees(m)
      /\ ~Frees(m) /\ Quiet(Tail(v.toView)) => Quiet(v.toView)
      /\ Single(v.toView) => Single(Tail(v.toView))
      /\ Single(v.toView) /\ Frees(m) => Quiet(Tail(v.toView))
      /\ Tells(v.toView, v.ask) => Tells(Tail(v.toView), v.ask)
      /\ Tells(v.toView, v.ask) /\ Frees(m) => m.type # "error" /\ m.ask = v.ask
  BY <1>2, <1>3, TailMessage
<1>5. /\ seen \in Views
      /\ ~Frees(m) => seen.busy /\ seen.ask = v.view.ask
      /\ Frees(m) => ~seen.busy
      /\ Frees(m) /\ m.type # "error" => seen.ask = m.ask
  <2>1. v.view = [busy |-> v.view.busy, pending |-> v.view.pending, ask |-> v.view.ask]
        /\ v.view.ask \in Asks /\ v.view.pending \in BOOLEAN /\ m.ask \in Asks
    BY <1>3, <1>4 DEF Views, Messages
  <2>2. m.type \in {"ready", "turn", "busy", "error", "closed"} BY <1>4 DEF Messages
  <2>3. CASE m.type \in {"ready", "turn"}
    <3>1. seen = [busy |-> FALSE, pending |-> m.ask # 0, ask |-> m.ask] BY <2>3 DEF Seen
    <3> HIDE DEF seen
    <3> QED BY <2>1, <2>3, <3>1 DEF Views, Frees
  <2>4. CASE m.type = "busy"
    <3>1. seen = [v.view EXCEPT !.busy = TRUE] BY <2>4 DEF Seen
    <3> HIDE DEF seen
    <3> QED BY <1>3, <2>4, <3>1 DEF Views, Frees
  <2>5. CASE m.type = "error"
    <3>1. seen = [v.view EXCEPT !.busy = FALSE] BY <2>5 DEF Seen
    <3> HIDE DEF seen
    <3> QED BY <1>3, <2>5, <3>1 DEF Views, Frees
  <2>6. CASE m.type = "closed"
    <3>1. seen = [v.view EXCEPT !.busy = TRUE, !.pending = FALSE] BY <2>6 DEF Seen
    <3> HIDE DEF seen
    <3> QED BY <1>3, <2>6, <3>1 DEF Views, Frees
  <2> QED BY <2>2, <2>3, <2>4, <2>5, <2>6
<1> HIDE DEF seen, m
<1>6. w \in PanelRecords BY <1>1, <1>4, <1>5 DEF PanelRecords
<1>7. /\ w.phase = v.phase /\ w.busy = v.busy /\ w.view = seen /\ w.ask = v.ask
      /\ w.toView = Tail(v.toView) /\ w.stdin = v.stdin /\ w.stdout = v.stdout
      /\ w.fromView = v.fromView
      /\ w.proc = v.proc /\ w.blurred = v.blurred /\ w.lost = v.lost
  BY <1>1 DEF PanelRecords
<1> HIDE DEF v, w
<1>8. (Runs(w) <=> Runs(v)) /\ (Works(w) <=> Works(v)) /\ (Fed(w) <=> Fed(v)) /\ (Sent(w) <=> Sent(v))
  BY <1>7 DEF Runs, Works, Fed, Sent
<1>9. ~w.blurred => OneBaton(w)
  BY <1>1, <1>4, <1>5, <1>7, <1>8 DEF Orderly, OneBaton
<1>10. ~w.blurred => BusyInTurn(w)
  BY <1>1, <1>4, <1>5, <1>7, <1>8 DEF Orderly, OneBaton, BusyInTurn
<1>11. ~w.blurred => SameAsk(w)
  BY <1>1, <1>4, <1>5, <1>7, <1>8 DEF Orderly, OneBaton, SameAsk
<1>12. Orderly(w) BY <1>1, <1>2, <1>7, <1>9, <1>10, <1>11 DEF Orderly
<1> QED BY <1>2, <1>6, <1>7, <1>12, Moved DEF ChatInv, v

(* A line of standard output comes to the panel, which shows it.             *)
LEMMA DeliverKeeps == ASSUME ChatInv, NEW p \in Panels, Deliver(p) PROVE ChatInv'
<1> DEFINE v == panel[p]
           m == Head(v.stdout)
           u == [v EXCEPT !.stdout = Tail(@)]
           t == Post(p, u, m)
           w == IF m.type = "closed" THEN t ELSE [t EXCEPT !.busy = FALSE]
<1>1. v \in PanelRecords /\ Orderly(v) BY DEF ChatInv
<1>2. v.stdout # <<>> /\ Becomes(p, w)
      /\ UNCHANGED <<current, hasKey, session, askCount, overtaken, chatDown, noise>>
  BY DEF Deliver, Becomes
<1>3. v.phase = "open" BY <1>1, <1>2 DEF Orderly
<1>4. v.stdout \in Seq(Messages) /\ v.toView \in Seq(Messages) BY <1>1 DEF PanelRecords
<1>5. /\ m \in Messages /\ Tail(v.stdout) \in Seq(Messages)
      /\ Quiet(v.stdout) => Quiet(Tail(v.stdout)) /\ ~Frees(m)
      /\ ~Frees(m) /\ Quiet(Tail(v.stdout)) => Quiet(v.stdout)
      /\ Single(v.stdout) => Single(Tail(v.stdout))
      /\ Single(v.stdout) /\ Frees(m) => Quiet(Tail(v.stdout))
      /\ Tells(v.stdout, v.ask) => Tells(Tail(v.stdout), v.ask)
      /\ Tells(v.stdout, v.ask) /\ Frees(m) => m.type # "error" /\ m.ask = v.ask
  BY <1>2, <1>4, TailMessage
<1> HIDE DEF m
<1>6. /\ u \in PanelRecords /\ u.phase = v.phase /\ u.busy = v.busy /\ u.view = v.view
      /\ u.ask = v.ask /\ u.toView = v.toView /\ u.stdin = v.stdin
      /\ u.stdout = Tail(v.stdout) /\ u.fromView = v.fromView
      /\ u.proc = v.proc /\ u.blurred = v.blurred /\ u.lost = v.lost
  BY <1>1, <1>5 DEF PanelRecords
<1> HIDE DEF u, v
<1>7. /\ t \in PanelRecords /\ t.phase = v.phase /\ t.busy = v.busy /\ t.view = v.view
      /\ t.ask = v.ask /\ t.toView = Append(v.toView, m) /\ t.stdin = v.stdin
      /\ t.stdout = Tail(v.stdout) /\ t.fromView = v.fromView
      /\ t.proc = v.proc /\ t.blurred = v.blurred /\ t.lost = v.lost
  <2>1. u \in PanelRecords /\ u.phase = "open" BY <1>3, <1>6
  <2>2. t.toView = Append(u.toView, m) BY <1>5, <2>1, Posted
  <2> QED BY <1>5, <1>6, <2>2, Posted
<1> HIDE DEF t
<1>8. /\ w \in PanelRecords /\ w.phase = v.phase /\ w.view = v.view
      /\ w.ask = v.ask /\ w.toView = Append(v.toView, m) /\ w.stdin = v.stdin
      /\ w.stdout = Tail(v.stdout) /\ w.fromView = v.fromView
      /\ w.proc = v.proc /\ w.blurred = v.blurred /\ w.lost = v.lost
  BY <1>7 DEF PanelRecords
<1>9. w.busy = (m.type = "closed" /\ v.busy)
  <2>1. [t EXCEPT !.busy = FALSE].busy = FALSE /\ t.busy \in BOOLEAN BY <1>7 DEF PanelRecords
  <2>2. CASE m.type = "closed" BY <1>7, <2>1, <2>2
  <2>3. CASE m.type # "closed"
    <3>1. w = [t EXCEPT !.busy = FALSE] BY <2>3
    <3> HIDE DEF w
    <3> QED BY <2>1, <2>3, <3>1
  <2> QED BY <2>2, <2>3
<1> HIDE DEF w
<1>10. (Runs(w) <=> Runs(v)) /\ (Works(w) <=> Works(v)) /\ (Fed(w) <=> Fed(v)) /\ (Sent(w) <=> Sent(v))
  BY <1>8 DEF Runs, Works, Fed, Sent
<1>11. /\ ~Frees(m) /\ Quiet(v.toView) => Quiet(w.toView)
       /\ ~Frees(m) /\ Single(v.toView) => Single(w.toView)
       /\ Quiet(w.toView) => Quiet(v.toView)
       /\ Quiet(v.toView) => Single(w.toView)
       /\ Tells(v.toView, v.ask) /\ (Frees(m) => m.type # "error" /\ m.ask = v.ask)
             => Tells(w.toView, v.ask)
  <2>1. w.toView = Append(v.toView, m) BY <1>8
  <2> QED BY <1>4, <1>5, <2>1, AppendMessage
<1>12. ~v.blurred /\ Frees(m) =>
           /\ v.view.busy /\ ~Sent(v) /\ ~Fed(v) /\ ~Works(v) /\ Quiet(v.toView)
           /\ Quiet(w.stdout)
  BY <1>1, <1>5, <1>8 DEF Orderly, OneBaton
<1>13. ~w.blurred => OneBaton(w)
  <2> SUFFICES ASSUME ~v.blurred PROVE OneBaton(w) BY <1>8
  <2>1. OneBaton(v) BY <1>1 DEF Orderly
  <2>2. Single(w.toView) /\ Single(w.stdout) BY <1>5, <1>8, <1>11, <1>12, <2>1 DEF OneBaton
  <2>3. CASE Frees(m) BY <1>8, <1>10, <1>12, <2>1, <2>2, <2>3 DEF OneBaton
  <2>4. CASE ~Frees(m)
    <3>1. /\ Quiet(v.stdout) => Quiet(w.stdout)
          /\ Quiet(v.toView) => Quiet(w.toView)
      BY <1>5, <1>8, <1>11, <2>4
    <3> QED BY <1>8, <1>10, <2>1, <2>2, <3>1 DEF OneBaton
  <2> QED BY <2>3, <2>4
<1>14. ~w.blurred => BusyInTurn(w)
  <2> SUFFICES ASSUME ~v.blurred PROVE BusyInTurn(w) BY <1>8
  <2>1. CASE Frees(m)
    <3>1. ~w.busy BY <1>9, <2>1 DEF Frees
    <3> QED BY <3>1 DEF BusyInTurn
  <2>2. CASE ~Frees(m)
    <3>1. Quiet(w.toView) <=> Quiet(v.toView) BY <1>11, <2>2
    <3> QED BY <1>1, <1>8, <1>9, <1>10, <3>1 DEF Orderly, BusyInTurn
  <2> QED BY <2>1, <2>2
<1>15. ~w.blurred => SameAsk(w)
  <2> SUFFICES ASSUME ~v.blurred, Runs(v) PROVE SameAsk(w) BY <1>8, <1>10 DEF SameAsk
  <2>1. SameAsk(v) BY <1>1 DEF Orderly
  <2>2. Tells(w.stdout, w.ask) /\ Tells(w.toView, w.ask) BY <1>5, <1>8, <1>11, <2>1 DEF SameAsk
  <2> QED BY <1>8, <1>10, <2>1, <2>2 DEF SameAsk
<1>16. Orderly(w) BY <1>1, <1>3, <1>8, <1>13, <1>14, <1>15 DEF Orderly
<1> QED BY <1>2, <1>8, <1>16, Moved DEF ChatInv, v

(* An error without a turn of its own, or 'exit'.                            *)
LEMMA ErrorTextKeeps == ASSUME ChatInv, NEW p \in Panels, ErrorText(p) PROVE ChatInv'
<1> DEFINE v == panel[p]
           m == Message("error", 0)
           t == Post(p, v, m)
           w == [t EXCEPT !.busy = FALSE, !.blurred = TRUE]
<1>1. v \in PanelRecords /\ Orderly(v) BY DEF ChatInv
<1>2. v.phase = "open" /\ Becomes(p, w) /\ noise < MaxNoise /\ noise' = noise + 1
      /\ UNCHANGED <<current, hasKey, session, askCount, overtaken, chatDown>>
  BY DEF ErrorText, Becomes, Live
<1>3. m \in Messages BY Typed
<1> HIDE DEF v, m
<1>4. t \in PanelRecords /\ t.phase = v.phase BY <1>1, <1>3, Posted
<1> HIDE DEF t
<1>5. w \in PanelRecords /\ w.phase = v.phase /\ w.blurred BY <1>4 DEF PanelRecords
<1> HIDE DEF w
<1>6. Orderly(w) BY <1>2, <1>5 DEF Orderly
<1>7. noise' \in 0 .. MaxNoise BY <1>2, Typed DEF ChatInv
<1> QED BY <1>2, <1>5, <1>6, <1>7, Moved DEF ChatInv, v

LEMMA ExitSeenKeeps == ASSUME ChatInv, NEW p \in Panels, ExitSeen(p) PROVE ChatInv'
<1> DEFINE v == panel[p]
           m == Message("closed", 0)
           t == Post(p, v, m)
           w == [t EXCEPT !.busy = FALSE, !.proc = "gone"]
<1>1. v \in PanelRecords /\ Orderly(v) BY DEF ChatInv
<1>2. v.proc \in {"ended", "killed"} /\ Becomes(p, w)
      /\ UNCHANGED <<current, hasKey, session, askCount, overtaken, chatDown, noise>>
  BY DEF ExitSeen, Becomes
<1>3. m \in Messages /\ ~Frees(m) BY Typed DEF Frees
<1>4. v.toView \in Seq(Messages) BY <1>1 DEF PanelRecords
<1> HIDE DEF v, m
<1>5. /\ t \in PanelRecords /\ t.phase = v.phase /\ t.view = v.view /\ t.ask = v.ask
      /\ t.stdin = v.stdin /\ t.stdout = v.stdout /\ t.fromView = v.fromView
      /\ t.blurred = v.blurred /\ t.lost = v.lost
      /\ t.toView = IF v.phase = "open" THEN Append(v.toView, m) ELSE v.toView
  BY <1>1, <1>3, Posted
<1> HIDE DEF t
<1>6. /\ w \in PanelRecords /\ w.phase = v.phase /\ w.view = v.view /\ w.ask = v.ask
      /\ w.stdin = v.stdin /\ w.stdout = v.stdout /\ w.fromView = v.fromView
      /\ w.blurred = v.blurred /\ w.lost = v.lost /\ w.toView = t.toView
      /\ ~w.busy /\ w.proc = "gone"
  <2>1. "gone" \in Procs BY DEF Procs
  <2> QED BY <1>5, <2>1 DEF PanelRecords
<1> HIDE DEF w
<1>7. ~Runs(w) /\ ~Works(w) /\ ~Fed(w) BY <1>6 DEF Runs, Works, Fed
<1>8. (Single(v.toView) => Single(w.toView)) /\ (Quiet(v.toView) => Quiet(w.toView))
  <2>1. w.toView = IF v.phase = "open" THEN Append(v.toView, m) ELSE v.toView BY <1>5, <1>6
  <2> QED BY <1>3, <1>4, <2>1, AppendMessage
<1>9. ~w.blurred => OneBaton(w) BY <1>1, <1>6, <1>7, <1>8 DEF Orderly, OneBaton, Sent
<1>10. w.phase # "open" => w.toView = v.toView BY <1>5, <1>6
<1>11. Orderly(w) BY <1>1, <1>6, <1>7, <1>9, <1>10 DEF Orderly, BusyInTurn, SameAsk
<1> QED BY <1>2, <1>6, <1>11, Moved DEF ChatInv, v

-----------------------------------------------------------------------------
(* The process.                                                              *)

LEMMA ChatReadyKeeps == ASSUME ChatInv, NEW p \in Panels, ChatReady(p) PROVE ChatInv'
<1> DEFINE v == panel[p]
           m == Message("ready", session)
           w == [v EXCEPT !.proc = "idle", !.ask = session, !.stdout = Append(@, m)]
<1>1. v \in PanelRecords /\ Orderly(v) /\ session \in Asks BY DEF ChatInv
<1>2. v.proc = "starting" /\ Becomes(p, w)
      /\ UNCHANGED <<current, hasKey, session, askCount, overtaken, chatDown, noise>>
  BY DEF ChatReady, Becomes
<1>3. m \in Messages /\ m.ask = session /\ m.type # "error" BY <1>1, Typed
<1>4. v.stdout \in Seq(Messages) BY <1>1 DEF PanelRecords
<1> HIDE DEF v, m
<1>5. /\ Append(v.stdout, m) \in Seq(Messages)
      /\ Quiet(v.stdout) => Single(Append(v.stdout, m))
      /\ Tells(v.stdout, session) => Tells(Append(v.stdout, m), session)
  BY <1>3, <1>4, AppendMessage
<1>6. /\ w \in PanelRecords /\ w.phase = v.phase /\ w.view = v.view /\ w.ask = session
      /\ w.stdin = v.stdin /\ w.stdout = Append(v.stdout, m) /\ w.fromView = v.fromView
      /\ w.blurred = v.blurred /\ w.lost = v.lost /\ w.toView = v.toView
      /\ w.busy = v.busy /\ w.proc = "idle"
  BY <1>1, <1>5 DEF PanelRecords, Procs
<1> HIDE DEF w
<1>7. v.phase = "open" /\ Works(v) /\ Runs(v) /\ ~Works(w) /\ Runs(w)
  BY <1>1, <1>2, <1>6 DEF Orderly, Works, Runs
<1>8. ~v.blurred => /\ v.view.busy /\ ~Sent(v) /\ ~Fed(v) /\ Quiet(v.stdout) /\ Quiet(v.toView)
                    /\ Single(v.toView)
  BY <1>1, <1>7 DEF Orderly, OneBaton
<1>9. ~v.blurred => Tells(v.stdout, session) /\ Tells(v.toView, session)
  BY <1>1, <1>4, <1>8, QuietQueue DEF PanelRecords
<1>10. ~w.blurred => OneBaton(w)
  BY <1>1, <1>5, <1>6, <1>7, <1>8 DEF Orderly, OneBaton, Sent, Fed
<1>11. ~w.blurred => BusyInTurn(w) BY <1>6, <1>8 DEF BusyInTurn, Sent
<1>12. ~w.blurred => SameAsk(w) BY <1>5, <1>6, <1>7, <1>8, <1>9 DEF SameAsk, Sent, Fed
<1>13. Orderly(w) BY <1>1, <1>6, <1>7, <1>10, <1>11, <1>12 DEF Orderly
<1> QED BY <1>2, <1>6, <1>13, Moved DEF ChatInv, v

LEMMA ChatDiesKeeps == ASSUME ChatInv, NEW p \in Panels, ChatDies(p) PROVE ChatInv'
<1> DEFINE v == panel[p]
           w == [v EXCEPT !.proc = "ended"]
<1>1. v \in PanelRecords /\ Orderly(v) BY DEF ChatInv
<1>2. Becomes(p, w) /\ noise < MaxNoise /\ noise' = noise + 1
      /\ UNCHANGED <<current, hasKey, session, askCount, overtaken, chatDown>>
  BY DEF ChatDies, Becomes
<1>3. /\ w \in PanelRecords /\ w.phase = v.phase /\ w.view = v.view /\ w.ask = v.ask
      /\ w.stdin = v.stdin /\ w.stdout = v.stdout /\ w.fromView = v.fromView
      /\ w.blurred = v.blurred /\ w.lost = v.lost /\ w.toView = v.toView
      /\ w.busy = v.busy /\ w.proc = "ended"
  BY <1>1 DEF PanelRecords, Procs
<1> HIDE DEF v, w
<1>4. Orderly(w) BY <1>1, <1>3, Alike DEF Runs, Works
<1>5. noise' \in 0 .. MaxNoise BY <1>2, Typed DEF ChatInv
<1> QED BY <1>2, <1>3, <1>4, <1>5, Moved DEF ChatInv, v

(* The line leaves standard input, and the baton with it: to the turn, or    *)
(* nowhere when the user quits.                                              *)
LEMMA TurnBeginsKeeps == ASSUME ChatInv, NEW p \in Panels, TurnBegins(p) PROVE ChatInv'
<1> DEFINE v == panel[p]
           l == Head(v.stdin)
           c == Message("closed", 0)
           u == [v EXCEPT !.stdin = Tail(@)]
           turn == [u EXCEPT !.text = l.text, !.ask = 0, !.heard = FALSE]
           quit == [u EXCEPT !.proc = "ended", !.stdout = Append(@, c)]
<1>1. v \in PanelRecords /\ Orderly(v) BY DEF ChatInv
<1>2. v.proc = "idle" /\ v.stdin # <<>>
      /\ UNCHANGED <<current, hasKey, session, askCount, overtaken, chatDown, noise>>
  BY DEF TurnBegins
<1>3. v.phase = "open" /\ Runs(v) /\ ~Works(v) /\ Fed(v)
  BY <1>1, <1>2 DEF Orderly, Runs, Works, Fed
<1>4. v.stdin \in Seq(Lines) /\ v.stdout \in Seq(Messages) /\ v.toView \in Seq(Messages)
  BY <1>1 DEF PanelRecords
<1>5. /\ l \in Lines /\ Tail(v.stdin) \in Seq(Lines)
      /\ Len(v.stdin) <= 1 => Tail(v.stdin) = <<>>
  BY <1>2, <1>4, TailLine
<1>6. l.text \in Texts BY <1>5 DEF Lines
<1> HIDE DEF l, c
<1>7. /\ u \in PanelRecords /\ u.phase = v.phase /\ u.view = v.view /\ u.ask = v.ask
      /\ u.stdin = Tail(v.stdin) /\ u.stdout = v.stdout /\ u.fromView = v.fromView
      /\ u.blurred = v.blurred /\ u.lost = v.lost /\ u.toView = v.toView /\ u.busy = v.busy
  BY <1>1, <1>5 DEF PanelRecords
<1> HIDE DEF u, v
<1>8. ~v.blurred => /\ v.view.busy /\ ~Sent(v) /\ Quiet(v.stdout) /\ Quiet(v.toView)
                    /\ Single(v.stdout) /\ Single(v.toView) /\ Tail(v.stdin) = <<>>
  BY <1>1, <1>3, <1>5 DEF Orderly, OneBaton
<1>9. ASSUME NEW proc \in {"consulting", "answering"}, Becomes(p, [turn EXCEPT !.proc = proc])
      PROVE  ChatInv'
  <2> DEFINE w == [turn EXCEPT !.proc = proc]
  <2>1. turn \in PanelRecords BY <1>6, <1>7, Typed DEF PanelRecords
  <2>2. /\ turn.phase = v.phase /\ turn.view = v.view /\ turn.ask = 0
        /\ turn.stdin = Tail(v.stdin) /\ turn.stdout = v.stdout /\ turn.fromView = v.fromView
        /\ turn.blurred = v.blurred /\ turn.lost = v.lost /\ turn.toView = v.toView
        /\ turn.busy = v.busy
    BY <1>7 DEF PanelRecords
  <2> HIDE DEF turn
  <2>3. /\ w \in PanelRecords /\ w.phase = v.phase /\ w.view = v.view /\ w.ask = 0
        /\ w.stdin = Tail(v.stdin) /\ w.stdout = v.stdout /\ w.fromView = v.fromView
        /\ w.blurred = v.blurred /\ w.lost = v.lost /\ w.toView = v.toView /\ w.busy = v.busy
        /\ w.proc = proc
    BY <2>1, <2>2 DEF PanelRecords, Procs
  <2> HIDE DEF w
  <2>4. Runs(w) /\ Works(w) BY <2>3 DEF Runs, Works
  <2>5. ~v.blurred => Tells(v.stdout, 0) /\ Tells(v.toView, 0) BY <1>4, <1>8, QuietQueue
  <2>6. ~w.blurred => OneBaton(w)
    <3>1. ~w.blurred => w.stdin = <<>> BY <1>8, <2>3
    <3>2. ~v.blurred => Len(v.fromView) <= 1 BY <1>1 DEF Orderly, OneBaton
    <3> QED BY <1>8, <2>3, <2>4, <3>1, <3>2, NoMessage DEF OneBaton, Sent, Fed
  <2>7. ~w.blurred => BusyInTurn(w) BY <1>8, <2>3 DEF BusyInTurn, Sent
  <2>8. ~w.blurred => SameAsk(w) BY <1>8, <2>3, <2>5 DEF SameAsk, Sent, Fed
  <2>9. Orderly(w) BY <1>1, <1>3, <2>3, <2>6, <2>7, <2>8 DEF Orderly
  <2> QED BY <1>2, <1>9, <2>3, <2>9, Moved DEF ChatInv, v, w
<1>10. CASE Becomes(p, quit)
  <2>1. c \in Messages /\ ~Frees(c) BY Typed DEF Frees, c
  <2>2. /\ Append(v.stdout, c) \in Seq(Messages)
        /\ Quiet(v.stdout) => Quiet(Append(v.stdout, c))
        /\ Single(v.stdout) => Single(Append(v.stdout, c))
    BY <1>4, <2>1, AppendMessage
  <2>3. /\ quit \in PanelRecords /\ quit.phase = v.phase /\ quit.view = v.view
        /\ quit.stdin = Tail(v.stdin) /\ quit.stdout = Append(v.stdout, c)
        /\ quit.fromView = v.fromView
        /\ quit.blurred = v.blurred /\ quit.lost = v.lost /\ quit.toView = v.toView
        /\ quit.busy = v.busy /\ quit.proc = "ended"
    BY <1>7, <2>2 DEF PanelRecords, Procs
  <2> HIDE DEF quit
  <2>4. ~Runs(quit) /\ ~Works(quit) /\ ~Fed(quit) BY <2>3 DEF Runs, Works, Fed
  <2>5. ~quit.blurred => OneBaton(quit) BY <1>1, <1>8, <2>2, <2>3, <2>4 DEF Orderly, OneBaton, Sent
  <2>6. ~quit.blurred => BusyInTurn(quit) BY <1>8, <2>3 DEF BusyInTurn, Sent
  <2>7. Orderly(quit) BY <1>1, <1>3, <2>3, <2>4, <2>5, <2>6 DEF Orderly, SameAsk
  <2> QED BY <1>2, <1>10, <2>3, <2>7, Moved DEF ChatInv, v
<1>11. \/ Becomes(p, quit)
       \/ Becomes(p, [turn EXCEPT !.proc = "consulting"])
       \/ Becomes(p, [turn EXCEPT !.proc = "answering"])
  BY DEF TurnBegins, v, l, c, u
<1> QED BY <1>9, <1>10, <1>11

(* What happens to a consultation is not seen from outside the process.      *)
LEMMA ConsultationKeeps ==
    ASSUME ChatInv, NEW p \in Panels,
           RequestRefused(p) \/ WorkerPuts(p) \/ DeadlinePasses(p) \/ Poll(p)
    PROVE  ChatInv'
<1> DEFINE v == panel[p]
<1>1. v \in PanelRecords /\ Orderly(v) BY DEF ChatInv
<1>2. v.proc = "consulting"
      /\ UNCHANGED <<current, hasKey, session, askCount, overtaken, chatDown, noise>>
  BY DEF RequestRefused, WorkerPuts, DeadlinePasses, Poll
<1> HIDE DEF v
<1>3. ASSUME NEW w \in PanelRecords, Becomes(p, w), w.proc \in {"consulting", "answering"},
             w.phase = v.phase, w.busy = v.busy, w.view = v.view, w.ask = v.ask,
             w.toView = v.toView, w.fromView = v.fromView, w.stdin = v.stdin,
             w.stdout = v.stdout, w.blurred = v.blurred, w.lost = v.lost
      PROVE  ChatInv'
  <2>1. Orderly(w) BY <1>1, <1>2, <1>3, Alike DEF Runs, Works
  <2> QED BY <1>2, <1>3, <2>1, Moved DEF ChatInv, v
<1>4. CASE RequestRefused(p)
  <2> DEFINE w == [v EXCEPT !.proc = "answering"]
  <2>1. Becomes(p, w) BY <1>4 DEF RequestRefused, v
  <2>2. w \in PanelRecords BY <1>1 DEF PanelRecords, Procs
  <2> QED BY <1>1, <1>3, <2>1, <2>2 DEF PanelRecords
<1>5. CASE WorkerPuts(p)
  <2>1. PICK result \in SendOutcomes : Becomes(p, [v EXCEPT !.queue = result])
    BY <1>5 DEF WorkerPuts, v
  <2> DEFINE w == [v EXCEPT !.queue = result]
  <2>2. w \in PanelRecords BY <1>1 DEF PanelRecords
  <2> QED BY <1>1, <1>2, <1>3, <2>1, <2>2 DEF PanelRecords
<1>6. CASE DeadlinePasses(p)
  <2> DEFINE w == [v EXCEPT !.late = TRUE]
  <2>1. Becomes(p, w) BY <1>6 DEF DeadlinePasses, v
  <2>2. w \in PanelRecords BY <1>1 DEF PanelRecords
  <2> QED BY <1>1, <1>2, <1>3, <2>1, <2>2 DEF PanelRecords
<1>7. CASE Poll(p)
  <2> DEFINE heard == ~v.late /\ v.queue = "value"
             w == [v EXCEPT !.proc = "answering", !.queue = "empty", !.late = FALSE, !.heard = heard]
  <2>1. Becomes(p, w) BY <1>7 DEF Poll, v
  <2>2. heard \in BOOLEAN OBVIOUS
  <2> HIDE DEF heard
  <2>3. w \in PanelRecords BY <1>1, <2>2 DEF PanelRecords, Procs
  <2> QED BY <1>1, <1>3, <2>1, <2>3 DEF PanelRecords
<1> QED BY <1>4, <1>5, <1>6, <1>7

LEMMA TurnEndsKeeps == ASSUME ChatInv, NEW p \in Panels, TurnEnds(p) PROVE ChatInv'
<1> DEFINE v == panel[p]
<1>1. v \in PanelRecords /\ Orderly(v) BY DEF ChatInv
<1>2. PICK asking \in BOOLEAN :
          LET new == IF asking THEN askCount + 1 ELSE 0
              w == [v EXCEPT !.proc = "idle", !.text = "none", !.heard = FALSE, !.ask = new]
          IN
          /\ v.proc = "answering"
          /\ asking => v.heard /\ askCount < MaxAsks
          /\ askCount' = IF asking THEN askCount + 1 ELSE askCount
          /\ \/ /\ session' = new
                /\ Becomes(p, [w EXCEPT !.stdout = Append(@, Message("turn", new))])
                /\ UNCHANGED noise
             \/ /\ noise < MaxNoise /\ noise' = noise + 1
                /\ Becomes(p, [w EXCEPT !.stdout = Append(@, Message("error", 0)), !.blurred = TRUE])
                /\ UNCHANGED session
          /\ UNCHANGED <<current, hasKey, overtaken, chatDown>>
  BY DEF TurnEnds
<1> DEFINE new == IF asking THEN askCount + 1 ELSE 0
           u == [v EXCEPT !.proc = "idle", !.text = "none", !.heard = FALSE, !.ask = new]
<1>3. new \in Asks /\ askCount' \in Asks BY <1>2, Typed DEF Asks, ChatInv
<1>4. /\ v.proc = "answering" /\ UNCHANGED <<current, hasKey, overtaken, chatDown>>
      /\ \/ /\ session' = new
            /\ Becomes(p, [u EXCEPT !.stdout = Append(@, Message("turn", new))])
            /\ UNCHANGED noise
         \/ /\ noise < MaxNoise /\ noise' = noise + 1
            /\ Becomes(p, [u EXCEPT !.stdout = Append(@, Message("error", 0)), !.blurred = TRUE])
            /\ UNCHANGED session
  BY <1>2
<1> HIDE DEF new
<1>5. /\ u \in PanelRecords /\ u.phase = v.phase /\ u.view = v.view /\ u.ask = new
      /\ u.stdin = v.stdin /\ u.stdout = v.stdout /\ u.fromView = v.fromView
      /\ u.blurred = v.blurred /\ u.lost = v.lost /\ u.toView = v.toView /\ u.busy = v.busy
      /\ u.proc = "idle"
  BY <1>1, <1>3 DEF PanelRecords, Procs
<1>6. v.stdout \in Seq(Messages) /\ v.toView \in Seq(Messages) BY <1>1 DEF PanelRecords
<1>7. v.phase = "open" /\ Runs(v) /\ Works(v) BY <1>1, <1>4 DEF Orderly, Runs, Works
<1> HIDE DEF u, v
<1>8. CASE /\ session' = new
           /\ Becomes(p, [u EXCEPT !.stdout = Append(@, Message("turn", new))])
           /\ UNCHANGED noise
  <2> DEFINE m == Message("turn", new)
             w == [u EXCEPT !.stdout = Append(@, m)]
  <2>1. m \in Messages /\ m.type # "error" /\ m.ask = new BY <1>3, Typed
  <2>2. Becomes(p, w) BY <1>8
  <2> HIDE DEF m
  <2>3. /\ Append(v.stdout, m) \in Seq(Messages)
        /\ Quiet(v.stdout) => Single(Append(v.stdout, m))
        /\ Tells(v.stdout, new) => Tells(Append(v.stdout, m), new)
    BY <1>6, <2>1, AppendMessage
  <2>4. /\ w \in PanelRecords /\ w.phase = v.phase /\ w.view = v.view /\ w.ask = new
        /\ w.stdin = v.stdin /\ w.stdout = Append(v.stdout, m) /\ w.fromView = v.fromView
        /\ w.blurred = v.blurred /\ w.lost = v.lost /\ w.toView = v.toView /\ w.busy = v.busy
        /\ w.proc = "idle"
    BY <1>5, <2>3 DEF PanelRecords
  <2> HIDE DEF w
  <2>5. Runs(w) /\ ~Works(w) BY <2>4 DEF Runs, Works
  <2>6. ~v.blurred => /\ v.view.busy /\ ~Sent(v) /\ ~Fed(v) /\ Quiet(v.stdout) /\ Quiet(v.toView)
                      /\ Single(v.toView)
    BY <1>1, <1>7 DEF Orderly, OneBaton
  <2>7. ~v.blurred => Tells(v.stdout, new) /\ Tells(v.toView, new) BY <1>6, <2>6, QuietQueue
  <2>8. ~w.blurred => OneBaton(w)
    BY <1>1, <1>7, <2>3, <2>4, <2>5, <2>6 DEF Orderly, OneBaton, Sent, Fed
  <2>9. ~w.blurred => BusyInTurn(w) BY <2>4, <2>6 DEF BusyInTurn, Sent
  <2>10. ~w.blurred => SameAsk(w)
    BY <1>7, <2>3, <2>4, <2>5, <2>6, <2>7 DEF SameAsk, Sent, Fed
  <2>11. Orderly(w) BY <1>1, <1>7, <2>4, <2>8, <2>9, <2>10 DEF Orderly
  <2> QED BY <1>3, <1>4, <1>8, <2>2, <2>4, <2>11, Moved DEF ChatInv, v
<1>9. CASE /\ noise < MaxNoise /\ noise' = noise + 1
           /\ Becomes(p, [u EXCEPT !.stdout = Append(@, Message("error", 0)), !.blurred = TRUE])
           /\ UNCHANGED session
  <2> DEFINE m == Message("error", 0)
             w == [u EXCEPT !.stdout = Append(@, m), !.blurred = TRUE]
  <2>1. m \in Messages BY Typed
  <2>2. Becomes(p, w) BY <1>9
  <2> HIDE DEF m
  <2>3. Append(u.stdout, m) \in Seq(Messages) BY <1>5, <1>6, <2>1, AppendMessage
  <2>4. w \in PanelRecords /\ w.phase = v.phase /\ w.blurred BY <1>5, <2>3 DEF PanelRecords
  <2> HIDE DEF w
  <2>5. Orderly(w) BY <1>7, <2>4 DEF Orderly
  <2>6. noise' \in 0 .. MaxNoise BY <1>9, Typed DEF ChatInv
  <2> QED BY <1>3, <1>4, <1>9, <2>2, <2>4, <2>5, <2>6, Moved DEF ChatInv, v
<1> QED BY <1>4, <1>8, <1>9

-----------------------------------------------------------------------------
LEMMA ChatCommandKeeps == ASSUME ChatInv, NEW p \in Panels, ChatCommand(p) PROVE ChatInv'
BY OpenChatKeeps, ClosePanelKeeps, SubmitKeeps DEF ChatCommand

LEMMA ChatStepKeeps == ASSUME ChatInv, ChatSteps PROVE ChatInv'
BY CredentialGivenKeeps, CredentialRefusedKeeps, ReceiveKeeps, ViewHandlesKeeps, DeliverKeeps,
   ErrorTextKeeps, ExitSeenKeeps, ChatReadyKeeps, ChatDiesKeeps, TurnBeginsKeeps, ConsultationKeeps,
   TurnEndsKeeps
   DEF ChatSteps, PanelStep

LEMMA ChatInvUnchanged == ASSUME ChatInv, UNCHANGED chatVars PROVE ChatInv'
<1>1. UNCHANGED <<panel, current, hasKey, session, askCount, overtaken, chatDown, noise>>
  BY DEF chatVars
<1> QED BY <1>1 DEF ChatInv, Windows, Live

LEMMA ChatInvInit == ChatInit => ChatInv
<1> SUFFICES ASSUME ChatInit PROVE ChatInv OBVIOUS
<1>1. /\ panel = [p \in Panels |-> NewPanel] /\ current = 0 /\ hasKey \in BOOLEAN
      /\ session \in {0, 1} /\ askCount = session /\ overtaken = FALSE /\ chatDown = FALSE
      /\ noise \in 0 .. MaxNoise
  BY DEF ChatInit
<1>2. \A p \in Panels : panel[p] = NewPanel BY <1>1
<1>3. panel \in [Panels -> PanelRecords] BY <1>1, NewTyped
<1>4. \A p \in Panels : Orderly(panel[p]) BY <1>2, NewTyped
<1>5. {0, 1} \subseteq Asks BY Typed DEF Asks
<1>6. \A p \in Panels : panel[p].phase = "none" BY <1>2, NewTyped
<1>7. Windows BY <1>1, <1>6 DEF Windows, Live
<1>8. current \in 0 .. MaxPanels /\ session \in Asks /\ askCount \in Asks BY <1>1, <1>5, Typed
<1> QED BY <1>1, <1>3, <1>4, <1>7, <1>8 DEF ChatInv

(* What the runs check of the chat client.                                   *)
LEMMA ChatPromises ==
    ChatInv => ChatTypeOK /\ OneWindow /\ ConfirmSeen /\ SentIsNotDropped /\ ChatEndsWithWindow
<1> SUFFICES ASSUME ChatInv
             PROVE  ChatTypeOK /\ OneWindow /\ ConfirmSeen /\ SentIsNotDropped /\ ChatEndsWithWindow
  OBVIOUS
<1>1. \A p \in Panels : panel[p] \in PanelRecords /\ Orderly(panel[p]) BY DEF ChatInv
<1>2. ChatTypeOK
  <2>1. ASSUME NEW p \in Panels
        PROVE  /\ panel[p].phase \in {"none", "boxed", "open", "closed"} /\ panel[p].proc \in Procs
               /\ panel[p].view \in Views /\ panel[p].ask \in Asks
               /\ panel[p].text \in Texts \cup {"none"}
               /\ {panel[p].busy, panel[p].heard, panel[p].late, panel[p].blurred, panel[p].lost}
                     \subseteq BOOLEAN
               /\ panel[p].queue \in {"empty"} \cup SendOutcomes
    BY <1>1 DEF PanelRecords
  <2>2. ASSUME NEW p \in Panels
        PROVE  \A m \in {panel[p].toView[i] : i \in DOMAIN panel[p].toView}
                         \cup {panel[p].stdout[i] : i \in DOMAIN panel[p].stdout} : m \in Messages
    <3>1. panel[p].toView \in Seq(Messages) /\ panel[p].stdout \in Seq(Messages)
      BY <1>1 DEF PanelRecords
    <3> QED BY <3>1
  <2>3. ASSUME NEW p \in Panels
        PROVE  \A l \in {panel[p].fromView[i] : i \in DOMAIN panel[p].fromView}
                         \cup {panel[p].stdin[i] : i \in DOMAIN panel[p].stdin} : l \in Lines
    <3>1. panel[p].fromView \in Seq(Lines) /\ panel[p].stdin \in Seq(Lines)
      BY <1>1 DEF PanelRecords
    <3> QED BY <3>1
  <2>4. DOMAIN panel = Panels BY DEF ChatInv
  <2>5. {hasKey, overtaken, chatDown} \subseteq BOOLEAN BY DEF ChatInv
  <2> QED BY <2>1, <2>2, <2>3, <2>4, <2>5 DEF ChatTypeOK, ChatInv
<1>3. OneWindow BY DEF OneWindow, ChatInv, Windows
<1>4. ConfirmSeen
  <2> SUFFICES ASSUME NEW p \in Panels, panel[p].proc = "idle", panel[p].stdin # <<>>,
                      ~panel[p].blurred
               PROVE  Head(panel[p].stdin).seen = panel[p].ask
    BY DEF ConfirmSeen
  <2>1. Runs(panel[p]) /\ Fed(panel[p]) BY DEF Runs, Fed
  <2>2. panel[p].stdin[1].seen = panel[p].ask BY <1>1, <2>1 DEF Orderly, SameAsk
  <2>3. panel[p].stdin \in Seq(Lines) BY <1>1 DEF PanelRecords
  <2> QED BY <2>2, <2>3, TailLine
<1>5. SentIsNotDropped BY <1>1 DEF SentIsNotDropped, Orderly
<1>6. ChatEndsWithWindow
  <2> SUFFICES ASSUME chatDown, ~overtaken, NEW p \in Panels
               PROVE  panel[p].phase # "boxed" /\ ~Running(p)
    BY DEF ChatEndsWithWindow
  <2>1. panel[p].phase \notin {"boxed", "open"} BY DEF ChatInv, Windows
  <2>2. ~Runs(panel[p]) BY <1>1, <2>1 DEF Orderly
  <2> QED BY <2>1, <2>2 DEF Runs, Running
<1> QED BY <1>2, <1>3, <1>4, <1>5, <1>6

-----------------------------------------------------------------------------
(* The extension. *)

Todo == todo \in [server : Nat, chat : Nat]

IInv == ServerInv /\ ChatInv /\ Todo

LEMMA InitIInv == Init => IInv
<1> SUFFICES ASSUME Init PROVE IInv OBVIOUS
<1>1. PICK mix \in Mixes : todo = [server |-> mix.server, chat |-> mix.chat] BY DEF Init
<1>2. mix.server \in Nat /\ mix.chat \in Nat BY EditorAssumption
<1>3. Todo BY <1>1, <1>2 DEF Todo
<1> QED BY <1>3, ServerInvInit, ChatInvInit DEF Init, IInv

LEMMA NextIInv == IInv /\ [Next]_vars => IInv'
<1> SUFFICES ASSUME IInv, [Next]_vars PROVE IInv' OBVIOUS
<1> USE DEF IInv
<1>1. CASE GiveServerCommand
  <2>1. ServerInv' BY <1>1, ServerCommandKeeps DEF GiveServerCommand
  <2>2. ChatInv' BY <1>1, ChatInvUnchanged DEF GiveServerCommand
  <2>3. todo.server \in Nat /\ todo.server > 0 /\ todo' = [todo EXCEPT !.server = todo.server - 1]
    BY <1>1 DEF GiveServerCommand, Todo
  <2>4. todo.server - 1 \in Nat BY <2>3
  <2>5. Todo' BY <2>3, <2>4 DEF Todo
  <2> QED BY <2>1, <2>2, <2>5
<1>2. CASE GiveChatCommand
  <2>1. ServerInv' BY <1>2, ServerInvUnchanged DEF GiveChatCommand
  <2>2. ChatInv' BY <1>2, ChatCommandKeeps DEF GiveChatCommand
  <2>3. todo.chat \in Nat /\ todo.chat > 0 /\ todo' = [todo EXCEPT !.chat = todo.chat - 1]
    BY <1>2 DEF GiveChatCommand, Todo
  <2>4. todo.chat - 1 \in Nat BY <2>3
  <2>5. Todo' BY <2>3, <2>4 DEF Todo
  <2> QED BY <2>1, <2>2, <2>5
<1>3. CASE Deactivate
  <2>1. ServerInv' BY <1>3, DisposeKeeps DEF Deactivate
  <2>2. ChatInv' BY <1>3, CloseKeeps DEF Deactivate
  <2>3. Todo' BY <1>3 DEF Deactivate, Todo
  <2> QED BY <2>1, <2>2, <2>3
<1>4. CASE ServerSteps /\ UNCHANGED <<chatVars, todo>>
  <2>1. ServerInv' BY <1>4, ServerStepKeeps
  <2>2. ChatInv' BY <1>4, ChatInvUnchanged
  <2>3. Todo' BY <1>4 DEF Todo
  <2> QED BY <2>1, <2>2, <2>3
<1>5. CASE ChatSteps /\ UNCHANGED <<serverVars, todo>>
  <2>1. ServerInv' BY <1>5, ServerInvUnchanged
  <2>2. ChatInv' BY <1>5, ChatStepKeeps
  <2>3. Todo' BY <1>5 DEF Todo
  <2> QED BY <2>1, <2>2, <2>3
<1>6. CASE UNCHANGED vars
  <2>1. UNCHANGED serverVars /\ UNCHANGED chatVars /\ UNCHANGED todo BY <1>6 DEF vars
  <2> QED BY <2>1, ServerInvUnchanged, ChatInvUnchanged DEF Todo
<1> QED BY <1>1, <1>2, <1>3, <1>4, <1>5, <1>6 DEF Next

LEMMA Invariant == Spec => []IInv
BY InitIInv, NextIInv, PTL DEF Spec

(* Every variable has a value of its type.                                   *)
THEOREM TypeCorrect == Spec => []TypeOK
<1>1. IInv => TypeOK BY ChatPromises DEF IInv, ServerInv, Todo, TypeOK
<1> QED BY <1>1, Invariant, PTL

(* A service that runs is the one the manager knows and can stop: starts in  *)
(* parallel, exits and stops never leave one behind.                         *)
THEOREM NoServiceIsLost == Spec => []KnownService
<1>1. IInv => KnownService BY ServerPromises DEF IInv
<1> QED BY <1>1, Invariant, PTL

(* deactivate leaves nothing running untold, but for a start or an open that *)
(* was under way.                                                            *)
THEOREM WindowEndsAll == Spec => []EndsWithWindow
<1>1. IInv => EndsWithWindow BY ServerPromises, ChatPromises DEF IInv, EndsWithWindow
<1> QED BY <1>1, Invariant, PTL

(* There is one chat window at a time, and it is the one the command finds,  *)
(* unless an open was overtaken at its credential box.                       *)
THEOREM WindowIsFound == Spec => []OneWindow
<1>1. IInv => OneWindow BY ChatPromises DEF IInv
<1> QED BY <1>1, Invariant, PTL

(* A confirmation that reaches the process was given to the action that is   *)
(* pending there: nothing came in between, but for an error without a turn.  *)
THEOREM ConfirmedAsShown == Spec => []ConfirmSeen
<1>1. IInv => ConfirmSeen BY ChatPromises DEF IInv
<1> QED BY <1>1, Invariant, PTL

(* The panel is never busy when the script sends, so it drops no text, but   *)
(* for an error without a turn.                                              *)
THEOREM SentArrives == Spec => []SentIsNotDropped
<1>1. IInv => SentIsNotDropped BY ChatPromises DEF IInv
<1> QED BY <1>1, Invariant, PTL
=============================================================================
