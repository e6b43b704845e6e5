----------------------------- MODULE ChatPanels -----------------------------
(***************************************************************************)
(* The chat windows of clients/vscode/src/chatPanel.ts, each with the      *)
(* script in its webview, the bridge of chatBridge.ts and the process of   *)
(* run_jsonl_chat in src/bsam_agent/chat.py. Panel, script and process     *)
(* run on their own and talk by queues: messages to and from the webview,  *)
(* lines on standard input and output, text on standard error.             *)
(*                                                                         *)
(* A turn is abstracted to what it does to the pending action and to the   *)
(* consultation of the provider in it (complete in local_provider.py and   *)
(* openai_provider.py). Confirmations asked for are numbered; what they    *)
(* are about is the matter of AgentLoop.                                   *)
(***************************************************************************)
EXTENDS Naturals, Sequences, FiniteSets

CONSTANTS
    MaxPanels, \* bound: windows opened
    MaxAsks,   \* bound: confirmations asked for
    MaxNoise   \* bound: texts on standard error, failed saves, processes that die

ASSUME ChatAssumption == {MaxPanels, MaxAsks} \subseteq Nat \ {0} /\ MaxNoise \in Nat

VARIABLES
    panel,    \* the panels
    current,  \* ChatPanel.current; 0 is undefined
    hasKey,   \* the credential is in the environment
    session,  \* the session file: the pending ask, 0 for none
    askCount, \* history: confirmations asked for
    overtaken, \* history: an open waited for its credential when another began or deactivate ran
    chatDown, \* deactivate has run
    noise     \* bound counter

chatVars == <<panel, current, hasKey, session, askCount, overtaken, chatDown, noise>>

Panels == 1 .. MaxPanels
Asks == 0 .. MaxAsks
Texts == {"plain", "confirm", "cancel", "quit"}

(* phase: "boxed" while the credential is asked for. view: the script's busy   *)
(* and pending; view.ask, the ask it last showed, is history. proc: where the  *)
(* process is; "ended" when its 'exit' has not been emitted. blurred: history, *)
(* set when an error is shown that no turn ended with, or a turn ended in one. *)
Procs == {"none", "starting", "idle", "consulting", "answering", "ended", "killed", "gone"}
NewPanel ==
    [phase |-> "none", busy |-> TRUE, view |-> [busy |-> TRUE, pending |-> FALSE, ask |-> 0],
     toView |-> <<>>, fromView |-> <<>>, stdin |-> <<>>, stdout |-> <<>>,
     proc |-> "none", ask |-> 0, text |-> "none", heard |-> FALSE, queue |-> "empty",
     late |-> FALSE, blurred |-> FALSE, lost |-> FALSE]

Message(type, ask) == [type |-> type, ask |-> ask]
Line(text, seen) == [text |-> text, seen |-> seen]

Live(p) == panel[p].phase = "open"
Running(p) == panel[p].proc \in {"starting", "idle", "consulting", "answering"}
Post(p, w, message) == IF w.phase = "open" THEN [w EXCEPT !.toView = Append(@, message)] ELSE w
Becomes(p, w) == panel' = [panel EXCEPT ![p] = w]

-----------------------------------------------------------------------------
(* ChatPanel.open, before and after its await, and the constructor.            *)
Created(p) == Becomes(p, [NewPanel EXCEPT !.phase = "open", !.proc = "starting"]) /\ current' = p

(* slip: an open window is not looked for. *)
OpenChatAgain(p) ==
    /\ ~chatDown /\ panel[p].phase = "none" /\ \A q \in 1 .. p - 1 : panel[q].phase # "none"
    /\ hasKey /\ Created(p)
    /\ UNCHANGED <<hasKey, session, askCount, overtaken, chatDown, noise>>

Boxed == \E p \in Panels : panel[p].phase = "boxed"
OpenChat(p) ==
    /\ ~chatDown /\ panel[p].phase = "none" /\ \A q \in 1 .. p - 1 : panel[q].phase # "none"
    /\ current = 0
    /\ IF hasKey THEN Created(p)
       ELSE Becomes(p, [NewPanel EXCEPT !.phase = "boxed"]) /\ UNCHANGED current
    /\ overtaken' = (overtaken \/ Boxed)
    /\ UNCHANGED <<hasKey, session, askCount, chatDown, noise>>

CredentialGiven(p) ==
    /\ panel[p].phase = "boxed" /\ Created(p)
    /\ UNCHANGED <<hasKey, session, askCount, overtaken, chatDown, noise>>

CredentialRefused(p) ==
    /\ panel[p].phase = "boxed" /\ Becomes(p, [NewPanel EXCEPT !.phase = "closed"])
    /\ UNCHANGED <<current, hasKey, session, askCount, overtaken, chatDown, noise>>

(* dispose: forgets the current panel, whichever it is, and kills the process. *)
(* slip: a process in the middle of a turn is left to finish it. *)
DisposedWhenIdle(w) ==
    [NewPanel EXCEPT !.phase = "closed",
        !.proc = IF w.proc \in {"starting", "idle"} THEN "killed" ELSE w.proc]

Disposed(w) ==
    [NewPanel EXCEPT !.phase = "closed",
        !.proc = IF w.proc \in {"ended", "gone"} THEN w.proc ELSE "killed"]

ClosePanel(p) ==
    /\ Live(p) /\ Becomes(p, Disposed(panel[p])) /\ current' = 0
    /\ UNCHANGED <<hasKey, session, askCount, overtaken, chatDown, noise>>

(* close, from deactivate. *)
CloseCurrent ==
    /\ ~chatDown /\ chatDown' = TRUE
    /\ IF current = 0 THEN UNCHANGED <<panel, current>>
       ELSE Becomes(current, Disposed(panel[current])) /\ current' = 0
    /\ overtaken' = (overtaken \/ Boxed)
    /\ UNCHANGED <<hasKey, session, askCount, noise>>

-----------------------------------------------------------------------------
(* submit in the script: the buttons are there while pending. *)
(* slip: the script does not mark itself busy. *)
SubmitUnmarked(p, text) ==
    /\ Live(p) /\ ~panel[p].view.busy
    /\ text \in {"confirm", "cancel"} => panel[p].view.pending
    /\ panel' = [panel EXCEPT ![p].fromView = Append(@, Line(text, panel[p].view.ask))]
    /\ UNCHANGED <<current, hasKey, session, askCount, overtaken, chatDown, noise>>

Submit(p, text) ==
    /\ Live(p) /\ ~panel[p].view.busy
    /\ text \in {"confirm", "cancel"} => panel[p].view.pending
    /\ panel' = [panel EXCEPT ![p].view.busy = TRUE,
                              ![p].fromView = Append(@, Line(text, panel[p].view.ask))]
    /\ UNCHANGED <<current, hasKey, session, askCount, overtaken, chatDown, noise>>

(* receive, and send in the bridge. A text that comes while busy is dropped;   *)
(* one for a process whose end is not yet known goes nowhere.                  *)
Receive(p) ==
    LET w == [panel[p] EXCEPT !.fromView = Tail(@)]
        line == Head(panel[p].fromView)
        sent == [Post(p, w, Message("busy", 0)) EXCEPT !.busy = TRUE]
    IN
    /\ panel[p].fromView # <<>>
    /\ \/ w.busy /\ Becomes(p, [w EXCEPT !.lost = TRUE])
       \/ ~w.busy /\ Running(p) /\ Becomes(p, [sent EXCEPT !.stdin = Append(@, line)])
       \/ ~w.busy /\ w.proc = "ended" /\ Becomes(p, sent)
       \/ ~w.busy /\ w.proc = "gone"
          /\ Becomes(p, [Post(p, sent, Message("error", 0)) EXCEPT !.busy = FALSE])
    /\ UNCHANGED <<current, hasKey, session, askCount, overtaken, chatDown, noise>>

(* The script's message handler. *)
(* slip: pending outlives a turn. *)
SeenPendingKept(v, m) ==
    CASE m.type = "ready" -> [busy |-> FALSE, pending |-> m.ask # 0, ask |-> m.ask]
      [] m.type = "closed" -> [v EXCEPT !.busy = TRUE, !.pending = FALSE]
      [] OTHER -> [v EXCEPT !.busy = m.type = "busy"]

Seen(v, m) ==
    CASE m.type = "ready" -> [busy |-> FALSE, pending |-> m.ask # 0, ask |-> m.ask]
      [] m.type = "turn" -> [busy |-> FALSE, pending |-> m.ask # 0, ask |-> m.ask]
      [] m.type = "busy" -> [v EXCEPT !.busy = TRUE]
      [] m.type = "error" -> [v EXCEPT !.busy = FALSE]
      [] m.type = "closed" -> [v EXCEPT !.busy = TRUE, !.pending = FALSE]

ViewHandles(p) ==
    /\ Live(p) /\ panel[p].toView # <<>>
    /\ panel' = [panel EXCEPT ![p].view = Seen(@, Head(panel[p].toView)), ![p].toView = Tail(@)]
    /\ UNCHANGED <<current, hasKey, session, askCount, overtaken, chatDown, noise>>

(* A line of standard output: protocolMessage. *)
Deliver(p) ==
    LET m == Head(panel[p].stdout)
        w == Post(p, [panel[p] EXCEPT !.stdout = Tail(@)], m)
    IN
    /\ panel[p].stdout # <<>>
    /\ Becomes(p, IF m.type = "closed" THEN w ELSE [w EXCEPT !.busy = FALSE])
    /\ UNCHANGED <<current, hasKey, session, askCount, overtaken, chatDown, noise>>

(* Text on standard error, whoever wrote it: bridgeError. *)
ErrorText(p) ==
    /\ Live(p) /\ (Running(p) \/ panel[p].proc = "ended") /\ noise < MaxNoise /\ noise' = noise + 1
    /\ Becomes(p, [Post(p, panel[p], Message("error", 0)) EXCEPT !.busy = FALSE, !.blurred = TRUE])
    /\ UNCHANGED <<current, hasKey, session, askCount, overtaken, chatDown>>

(* The 'exit' event. Lines of standard output may still be on their way.       *)
ExitSeen(p) ==
    /\ panel[p].proc \in {"ended", "killed"}
    /\ Becomes(p, [Post(p, panel[p], Message("closed", 0)) EXCEPT !.busy = FALSE, !.proc = "gone"])
    /\ UNCHANGED <<current, hasKey, session, askCount, overtaken, chatDown, noise>>

-----------------------------------------------------------------------------
(* run_jsonl_chat up to its loop: the session is loaded, ready is emitted.     *)
ChatReady(p) ==
    /\ panel[p].proc = "starting"
    /\ Becomes(p, [panel[p] EXCEPT !.proc = "idle", !.ask = session,
                                   !.stdout = Append(@, Message("ready", session))])
    /\ UNCHANGED <<current, hasKey, session, askCount, overtaken, chatDown, noise>>

(* The process dies or refuses to start. *)
ChatDies(p) ==
    /\ Running(p) /\ noise < MaxNoise /\ noise' = noise + 1
    /\ Becomes(p, [panel[p] EXCEPT !.proc = "ended"])
    /\ UNCHANGED <<current, hasKey, session, askCount, overtaken, chatDown>>

(* A line is read and turn takes it: the pending action is executed, or        *)
(* dropped. A turn may consult the provider, whose answer comes by a queue     *)
(* of its own, or end without.                                                 *)
TurnBegins(p) ==
    LET line == Head(panel[p].stdin)
        w == [panel[p] EXCEPT !.stdin = Tail(@)]
        turn == [w EXCEPT !.text = line.text, !.ask = 0, !.heard = FALSE]
    IN
    /\ panel[p].proc = "idle" /\ panel[p].stdin # <<>>
    /\ IF line.text = "quit"
       THEN Becomes(p, [w EXCEPT !.proc = "ended", !.stdout = Append(@, Message("closed", 0))])
       ELSE \/ line.text # "cancel" /\ Becomes(p, [turn EXCEPT !.proc = "consulting"])
            \/ line.text # "plain" /\ Becomes(p, [turn EXCEPT !.proc = "answering"])
    /\ UNCHANGED <<current, hasKey, session, askCount, overtaken, chatDown, noise>>

(* complete: a request that is too large, or private data for the hosted       *)
(* provider, is refused before a worker is started.                            *)
RequestRefused(p) ==
    /\ panel[p].proc = "consulting" /\ panel[p].queue = "empty" /\ ~panel[p].late
    /\ Becomes(p, [panel[p] EXCEPT !.proc = "answering"])
    /\ UNCHANGED <<current, hasKey, session, askCount, overtaken, chatDown, noise>>

(* _send: a reply with choices is a value; an HTTP or transport error and a    *)
(* reply of another form are errors.                                           *)
SendOutcomes == {"value", "error"}

(* complete: a worker thread puts a value or an error; the deadline passes. A  *)
(* result that comes after the deadline is not looked at and is left out.      *)
WorkerPuts(p) ==
    /\ panel[p].proc = "consulting" /\ panel[p].queue = "empty" /\ ~panel[p].late
    /\ \E result \in SendOutcomes : Becomes(p, [panel[p] EXCEPT !.queue = result])
    /\ UNCHANGED <<current, hasKey, session, askCount, overtaken, chatDown, noise>>

DeadlinePasses(p) ==
    /\ panel[p].proc = "consulting" /\ ~panel[p].late
    /\ Becomes(p, [panel[p] EXCEPT !.late = TRUE])
    /\ UNCHANGED <<current, hasKey, session, askCount, overtaken, chatDown, noise>>

(* The poll loop: past the deadline the queue is not looked at. An abandoned   *)
(* worker's result stays in a queue nobody reads.                              *)
(* slip: only the queue is waited for. *)
PollQueue(p) ==
    /\ panel[p].proc = "consulting" /\ panel[p].queue # "empty"
    /\ Becomes(p, [panel[p] EXCEPT !.proc = "answering", !.queue = "empty", !.late = FALSE,
                                   !.heard = panel[p].queue = "value"])
    /\ UNCHANGED <<current, hasKey, session, askCount, overtaken, chatDown, noise>>

Poll(p) ==
    /\ panel[p].proc = "consulting" /\ (panel[p].late \/ panel[p].queue # "empty")
    /\ Becomes(p, [panel[p] EXCEPT !.proc = "answering", !.queue = "empty", !.late = FALSE,
                                   !.heard = ~panel[p].late /\ panel[p].queue = "value"])
    /\ UNCHANGED <<current, hasKey, session, askCount, overtaken, chatDown, noise>>

(* The turn ends, with a question if the model was heard; the session is saved *)
(* and the reply written. If the save fails the reply is an error, and the     *)
(* question stays in memory without having been shown.                         *)
TurnEnds(p) ==
    \E asking \in BOOLEAN :
        LET new == IF asking THEN askCount + 1 ELSE 0
            w == [panel[p] EXCEPT !.proc = "idle", !.text = "none", !.heard = FALSE, !.ask = new]
        IN
        /\ panel[p].proc = "answering"
        /\ asking => panel[p].heard /\ askCount < MaxAsks
        /\ askCount' = IF asking THEN askCount + 1 ELSE askCount
        /\ \/ /\ session' = new
              /\ Becomes(p, [w EXCEPT !.stdout = Append(@, Message("turn", new))])
              /\ UNCHANGED noise
           \/ /\ noise < MaxNoise /\ noise' = noise + 1
              /\ Becomes(p, [w EXCEPT !.stdout = Append(@, Message("error", 0)), !.blurred = TRUE])
              /\ UNCHANGED session
        /\ UNCHANGED <<current, hasKey, overtaken, chatDown>>

-----------------------------------------------------------------------------
(* An earlier session may have left an action pending. *)
ChatInit ==
    /\ panel = [p \in Panels |-> NewPanel] /\ current = 0 /\ hasKey \in BOOLEAN
    /\ session \in {0, 1} /\ askCount = session /\ overtaken = FALSE /\ chatDown = FALSE /\ noise \in 0 .. MaxNoise

PanelStep(p) ==
    \/ CredentialGiven(p) \/ CredentialRefused(p)
    \/ Receive(p) \/ ViewHandles(p) \/ Deliver(p) \/ ErrorText(p) \/ ExitSeen(p)
    \/ ChatReady(p) \/ ChatDies(p) \/ TurnBegins(p) \/ RequestRefused(p) \/ WorkerPuts(p) \/ DeadlinePasses(p)
    \/ Poll(p) \/ TurnEnds(p)
ChatSteps == \E p \in Panels : PanelStep(p)
ChatCommand(p) == OpenChat(p) \/ ClosePanel(p) \/ \E text \in Texts : Submit(p, text)

(* Event loops and queues move, the process runs, and time passes: nothing is  *)
(* assumed of the provider.                                                    *)
ChatFairness ==
    \A p \in Panels :
        /\ WF_chatVars(Receive(p)) /\ WF_chatVars(ViewHandles(p)) /\ WF_chatVars(Deliver(p))
        /\ WF_chatVars(ExitSeen(p)) /\ WF_chatVars(ChatReady(p)) /\ WF_chatVars(TurnBegins(p))
        /\ WF_chatVars(DeadlinePasses(p)) /\ WF_chatVars(Poll(p)) /\ WF_chatVars(TurnEnds(p))

-----------------------------------------------------------------------------
Views == [busy : BOOLEAN, pending : BOOLEAN, ask : Asks]
Messages == [type : {"ready", "busy", "turn", "error", "closed"}, ask : Asks]
Lines == [text : Texts, seen : Asks]
ChatTypeOK ==
    /\ DOMAIN panel = Panels
    /\ \A p \in Panels :
        LET w == panel[p] IN
        /\ w.phase \in {"none", "boxed", "open", "closed"} /\ w.proc \in Procs
        /\ w.view \in Views /\ w.ask \in Asks /\ w.text \in Texts \cup {"none"}
        /\ {w.busy, w.heard, w.late, w.blurred, w.lost} \subseteq BOOLEAN
        /\ w.queue \in {"empty"} \cup SendOutcomes
        /\ \A m \in {w.toView[i] : i \in DOMAIN w.toView} \cup {w.stdout[i] : i \in DOMAIN w.stdout} :
              m \in Messages
        /\ \A l \in {w.fromView[i] : i \in DOMAIN w.fromView} \cup {w.stdin[i] : i \in DOMAIN w.stdin} :
              l \in Lines
    /\ current \in 0 .. MaxPanels /\ session \in Asks /\ askCount \in Asks
    /\ {hasKey, overtaken, chatDown} \subseteq BOOLEAN /\ noise \in 0 .. MaxNoise

(* One chat window: running the command again focuses the existing panel, as   *)
(* long as no open was overtaken at its credential box.                        *)
OneWindow == ~overtaken => \A p \in Panels : Live(p) => current = p

(* A confirmation that reaches the orchestrator confirms the action the user   *)
(* was shown last, across the three queues in between, unless an error without *)
(* a turn of its own has freed the buttons or a turn's question was lost.      *)
ConfirmSeen ==
    \A p \in Panels :
        LET w == panel[p] IN
        /\ w.proc = "idle" /\ w.stdin # <<>> /\ Head(w.stdin).text = "confirm"
        /\ ~w.blurred
        => Head(w.stdin).seen = w.ask

(* A text the window shows as sent is not dropped on its way to the process:   *)
(* the script is never free while the panel is busy.                           *)
SentIsNotDropped == \A p \in Panels : panel[p].lost => panel[p].blurred

(* No chat process outlives deactivate untold, unless an open was overtaken.   *)
ChatEndsWithWindow ==
    chatDown /\ ~overtaken => \A p \in Panels : panel[p].phase # "boxed" /\ ~Running(p)

(* A window that waits is answered, or its process has ended: whatever the     *)
(* provider does, complete ends by its deadline, and a dropped text does not   *)
(* leave the window waiting.                                                   *)
WindowAnswered ==
    \A p \in Panels :
        Live(p) /\ panel[p].view.busy
            ~> ~panel[p].view.busy \/ ~Live(p) \/ ~Running(p)
=============================================================================
