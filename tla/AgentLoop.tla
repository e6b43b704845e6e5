------------------------------ MODULE AgentLoop -----------------------------
(***************************************************************************)
(* One chat process of src/bsam_agent/chat.py with the orchestrator of     *)
(* src/bsam_agent/orchestrator.py: a user's message becomes a turn, the    *)
(* turn takes tool calls in a bounded loop, asks before a guarded call,    *)
(* and ends with the session saved and a reply written. The process may    *)
(* die anywhere and is started again on the saved session.                 *)
(*                                                                         *)
(* What the model answers is any decision its schema admits. Texts are     *)
(* abstracted to what _task_from_request takes from them: a source deck    *)
(* and the outcomes it asks for. Tools that only read and have no part in  *)
(* any criterion behave like "query".                                      *)
(***************************************************************************)
EXTENDS Naturals, FiniteSets

CONSTANTS
    Objectives,   \* the sets of outcomes a text may ask for
    Offered,      \* the tools a decision may name
    MaxSteps,     \* TaskState.max_steps
    MaxChain,     \* bound: reads chained to one query
    MaxMessages,  \* bound: user messages
    MaxDecks,     \* bound: deck paths, numbered in the order they are taken
    MaxRuns,      \* bound: run directories, the same
    MaxFaults     \* bound: crashes, failed saves and failed tools

AllTools == {"inspect", "query", "validate", "preview", "apply", "run", "stop", "status", "log"}
Outcomes == {"inspect", "query", "modify", "validate", "run"}

ASSUME AgentAssumption ==
    /\ Objectives \subseteq SUBSET Outcomes
    /\ Offered \subseteq AllTools
    /\ MaxSteps \in Nat \ {0, 1} /\ {MaxDecks, MaxRuns} \subseteq Nat \ {0}
    /\ {MaxChain, MaxMessages, MaxFaults} \subseteq Nat

VARIABLES
    conv,      \* ConversationState, in memory
    session,   \* the session file
    pc,        \* where the process is
    call,      \* the tool call under way
    decks,     \* deck files that exist
    clean,     \* those of them that validate without errors
    plans,     \* plan files that exist, named after the turn that made them
    runs,      \* the state of each run directory
    asks,      \* history: how often a confirmation was asked for
    settled,   \* history: asks the user has been told are over
    confirmed, \* history: the ask this turn confirms, until its call is made
    took,      \* history: asks whose deck or run has come into being
    messages,  \* bound counter
    faults     \* bound counter

world == <<decks, clean, plans, runs>>
history == <<asks, settled, confirmed, took>>
budget == <<messages, faults>>
vars == <<conv, session, pc, call, world, history, budget>>

Decks == 1 .. MaxDecks
Runs == 1 .. MaxRuns
Plans == 1 .. MaxMessages
GuardedTools == {"apply", "run", "stop"}
DeckReads == {"inspect", "query", "validate"}
RunReads == {"status", "log"}
SourceTools == DeckReads \cup {"preview", "run"}

(* An action: its tool, what it works on, and what it makes or looks for. *)
Act(tool, on, to) == [tool |-> tool, on |-> on, to |-> to]
Actions ==
    [tool : DeckReads, on : Decks, to : 0 .. MaxChain]
        \cup [tool : {"preview"}, on : Decks, to : Plans]
        \cup [tool : {"apply"}, on : Plans, to : Decks]
        \cup [tool : {"run"}, on : Decks, to : Runs]
        \cup [tool : RunReads \cup {"stop"}, on : Runs, to : {0}]

Nothing == Act("nothing", 0, 0)
NoPending == [act |-> Nothing, ask |-> 0]

Statuses == {"none", "understand", "inspect", "clarify", "propose", "confirm", "execute",
             "verify", "complete", "failed", "blocked", "refused"}

(* The statuses at which the loop of _advance_task stops. *)
Boundaries == {"clarify", "confirm", "failed", "blocked", "refused"}

(* Status "none" stands for no task. "done" holds the fingerprints of the     *)
(* completed steps and "failed" the failed fingerprints.                      *)
NoTask == [status |-> "none", wants |-> {}, source |-> 0, active |-> 0, count |-> 0,
           done |-> {}, failed |-> {}, badRun |-> FALSE, checked |-> "unknown"]

(* _task_from_request *)
NewTask(wants, source) ==
    [NoTask EXCEPT !.status = "understand", !.wants = wants, !.source = source, !.active = source]

task == conv.task
HasTask == task.status # "none"
Tools(t) == {a.tool : a \in t.done}

NoRun == [dir |-> 0, over |-> FALSE]
FreshConversation ==
    [turn |-> 0, pending |-> NoPending, task |-> NoTask,
     active |-> 0, lastOutput |-> 0, lastRun |-> NoRun]

(* A call: "main" is the tool that was decided on; the reads that go with it  *)
(* have a role of their own. "first" says it is the turn's first decision,    *)
(* "left" how many chained reads follow.                                      *)
NoCall == [act |-> Nothing, main |-> Nothing, role |-> "none", ask |-> 0,
           left |-> 0, first |-> FALSE]
MainCall(a, ask, isFirst) ==
    [act |-> a, main |-> a, role |-> "main", ask |-> ask, left |-> 0, first |-> isFirst]
ReadCall(a, main, role, left) ==
    [call EXCEPT !.act = a, !.main = main, !.role = role, !.left = left]

(* _available_destination and _available_run_directory *)
FreeDeck == CHOOSE d \in Decks \ decks : \A e \in Decks \ decks : d <= e
FreeRun == CHOOSE r \in Runs : runs[r] = "none" /\ \A s \in 1 .. r - 1 : runs[s] # "none"
DeckLeft == Decks \ decks # {}
RunLeft == \E r \in Runs : runs[r] = "none"

(* One deck, and a run of an earlier session that has ended. *)
Init ==
    /\ conv = FreshConversation /\ session = FreshConversation
    /\ pc = "ready" /\ call = NoCall
    /\ decks = {1} /\ clean \in SUBSET {1}
    /\ plans = {}
    /\ runs = [r \in Runs |-> IF r = 1 THEN "good" ELSE "none"]
    /\ asks = 0 /\ settled = {} /\ confirmed = 0 /\ took = {}
    /\ messages = 0 /\ faults = 0

-----------------------------------------------------------------------------
(* Task bookkeeping. *)

(* _task_completion: the criteria of an outcome that lack evidence.           *)
Evidence(t, outcome) ==
    CASE outcome = "inspect" -> Tools(t) \cap {"inspect", "validate"} # {}
      [] outcome = "query" -> Tools(t) \cap {"query", "log"} # {}
      [] outcome = "modify" -> {"preview", "apply"} \subseteq Tools(t) /\ conv.lastOutput # 0
      [] outcome = "validate" -> "validate" \in Tools(t) /\ t.checked = "clean"
      [] outcome = "run" -> conv.lastRun.over

Missing(t) == {o \in t.wants : ~Evidence(t, o)}

(* The refusals before a call: the step bound, and a call that failed before. *)
Refused(t, a) == t.status # "none" /\ (t.count >= MaxSteps \/ a \in t.failed)

(* _next_deterministic_task_action: the continuations that need no model.     *)
SureActions(t) ==
    IF "inspect" \in Missing(t) /\ "inspect" \notin Tools(t)
    THEN {Act("inspect", t.active, 0)}
    ELSE IF "validate" \in Missing(t) /\ ("modify" \in t.wants => "apply" \in Tools(t))
    THEN {Act("validate", IF conv.lastOutput # 0 THEN conv.lastOutput ELSE t.active, 0)}
    ELSE {}

(* What the model, or the rules in front of it, may ask for.                  *)
Choices ==
    {a \in [tool : DeckReads, on : decks, to : {0}]
         \cup [tool : RunReads \cup {"stop"}, on : {r \in Runs : runs[r] # "none"}, to : {0}]
         \cup [tool : {"preview"}, on : IF DeckLeft THEN decks ELSE {}, to : {conv.turn}]
         \cup [tool : {"apply"}, on : plans, to : IF DeckLeft THEN {FreeDeck} ELSE {}]
         \cup [tool : {"run"}, on : decks, to : IF RunLeft THEN {FreeRun} ELSE {}] :
     a.tool \in Offered}

Over(r) == runs[r] \in {"good", "bad"}

(* _record_task_step, the part that depends on the result: the status, and    *)
(* what is known of the deck and of the run. "errors": the deck has some.     *)
Observed(t, a, errors) ==
    LET badRun == a.tool = "status" /\ runs[a.on] = "bad"
    IN  [t EXCEPT !.failed = IF badRun /\ ~t.badRun THEN @ \cup {a} ELSE @,
                  !.badRun = @ \/ badRun,
                  !.status = CASE a.tool = "inspect" -> "inspect"
                               [] a.tool = "preview" -> "propose"
                               [] a.tool \in {"apply", "run"} -> "execute"
                               [] a.tool \in {"validate", "log"} -> "verify"
                               [] badRun -> "failed"
                               [] a.tool = "status" -> IF Over(a.on) THEN "complete" ELSE "execute"
                               [] OTHER -> @,
                  !.active = IF a.tool = "apply" THEN a.to
                             ELSE IF a.tool \in SourceTools THEN a.on ELSE @,
                  !.checked = IF a.tool # "validate" THEN @
                              ELSE IF errors THEN "errors" ELSE "clean"]

(* slip: reading the status of a run is not counted as a step *)
StepTakenUncounted(t, a, errors) ==
    [Observed(t, a, errors) EXCEPT !.count = IF a.tool = "status" THEN @ ELSE @ + 1,
                                   !.done = @ \cup {a}]

(* _record_task_step *)
StepTaken(t, a, errors) ==
    [Observed(t, a, errors) EXCEPT !.count = @ + 1, !.done = @ \cup {a}]

Recorded(c, a, errors) ==
    IF c.task.status = "none" THEN c ELSE [c EXCEPT !.task = StepTaken(@, a, errors)]

(* _update_model_context. A run log carries no state of its own, so the       *)
(* state of the run looked at before stays (orchestrator.py 1376).            *)
Updated(c, a) ==
    LET active == IF a.tool = "apply" THEN a.to
                  ELSE IF a.tool \in SourceTools THEN a.on ELSE c.active
    IN  [c EXCEPT
            !.active = active,
            !.task = IF @.status = "none" \/ active = 0 THEN @ ELSE [@ EXCEPT !.active = active],
            !.lastOutput = IF a.tool = "apply" THEN a.to ELSE @,
            !.lastRun = CASE a.tool = "run" -> [dir |-> a.to, over |-> FALSE]
                          [] a.tool = "status" -> [dir |-> a.on, over |-> Over(a.on)]
                          [] a.tool = "log" -> [dir |-> a.on, over |-> @.over]
                          [] OTHER -> @]

(* _record_task_failure *)
Failed(c, a) ==
    IF c.task.status = "none" THEN c
    ELSE [c EXCEPT !.task.failed = @ \cup {a}, !.task.status = "failed"]

WithStatus(c, status) ==
    IF c.task.status = "none" THEN c ELSE [c EXCEPT !.task.status = status]

(* A pending action, and the question that goes with it. *)
Asking(c, a) == [WithStatus(c, "confirm") EXCEPT !.pending = [act |-> a, ask |-> asks + 1]]

-----------------------------------------------------------------------------
(* How a turn goes on. *)

(* The turn is over; the session is saved next. *)
Finish(c) == conv' = c /\ pc' = "saving" /\ call' = NoCall

(* Back to the loop of _advance_task. A turn whose first call left a run in   *)
(* progress is over, and so is one without a task.                            *)
Continue(c) ==
    LET inProgress == \/ call.main.tool = "run"
                      \/ call.main.tool = "status" /\ ~Over(call.main.on)
    IN  IF c.task.status = "none" THEN Finish(c)
        ELSE IF call.first /\ inProgress THEN Finish(WithStatus(c, "execute"))
        ELSE conv' = c /\ pc' = "looping" /\ call' = NoCall

(* slip: a nested read does not look at the step bound *)
LookUnchecked(c, a, main, role, left) ==
    conv' = c /\ pc' = "calling" /\ call' = ReadCall(a, main, role, left)

(* _task_read_only_step, up to its call *)
Look(c, a, main, role, left) ==
    IF Refused(c.task, a) THEN Finish(WithStatus(c, "failed"))
    ELSE conv' = c /\ pc' = "calling" /\ call' = ReadCall(a, main, role, left)

(* _execute, up to its first call: a preview for a task that is to validate   *)
(* looks at the source model first.                                           *)
Execute(c, a, ask, isFirst) ==
    LET looksFirst == a.tool = "preview" /\ "validate" \in c.task.wants /\ c.task.count = 0
        inspection == Act("inspect", c.task.source, 0)
    IN  IF Refused(c.task, a) \/ (looksFirst /\ Refused(c.task, inspection))
        THEN Finish(WithStatus(c, "failed"))
        ELSE /\ conv' = c /\ pc' = "calling"
             /\ call' = IF looksFirst
                        THEN [MainCall(a, ask, isFirst) EXCEPT !.act = inspection, !.role = "before"]
                        ELSE MainCall(a, ask, isFirst)

(* slip: "confirm" is taken as the model wrote it *)
ActOnAtOnce(a, isFirst) == Execute(conv, a, 0, isFirst) /\ UNCHANGED asks

(* _act_on_decision for a dispatch: a guarded tool only becomes a question.   *)
ActOn(a, isFirst) ==
    IF a.tool \in GuardedTools
    THEN Finish(Asking(conv, a)) /\ asks' = asks + 1
    ELSE Execute(conv, a, 0, isFirst) /\ UNCHANGED asks

-----------------------------------------------------------------------------
(* The user. *)

CanSay == pc = "ready" /\ messages < MaxMessages /\ messages' = messages + 1

(* slip: the pending action outlives the next text *)
SayTextOver(newTask) ==
    /\ CanSay
    /\ conv' = [conv EXCEPT !.turn = @ + 1, !.task = newTask]
    /\ pc' = "deciding"
    /\ UNCHANGED <<session, call, world, history, faults>>

(* turn: a text, with or without an objective of its own. A pending action is *)
(* dropped.                                                                   *)
SayText(newTask) ==
    /\ CanSay
    /\ conv' = [conv EXCEPT !.turn = @ + 1, !.pending = NoPending, !.task = newTask]
    /\ pc' = "deciding"
    /\ UNCHANGED <<session, call, world, history, faults>>

SayObjective ==
    \E wants \in Objectives : \E source \in decks : SayText(NewTask(wants, source))
SayMore == SayText(task)

(* _confirm *)
Confirm ==
    /\ CanSay
    /\ IF conv.pending = NoPending THEN Finish(conv)
       ELSE Execute([conv EXCEPT !.pending = NoPending], conv.pending.act, conv.pending.ask, TRUE)
    /\ confirmed' = conv.pending.ask
    /\ UNCHANGED <<session, world, asks, settled, took, faults>>

(* _cancel *)
Cancel ==
    /\ CanSay
    /\ Finish(IF conv.pending = NoPending THEN conv
              ELSE [WithStatus(conv, "blocked") EXCEPT !.pending = NoPending])
    /\ UNCHANGED <<session, world, history, faults>>

-----------------------------------------------------------------------------
(* Deciding. *)

(* The first decision of a text turn, when it is not a tool: a refusal, a     *)
(* question, or no usable decision (the provider failed, the payload policy   *)
(* refused, the arguments are invalid).                                       *)
FirstDecisionStops ==
    /\ pc = "deciding"
    /\ \E c \in {WithStatus(conv, "refused"), WithStatus(conv, "clarify"), conv} : Finish(c)
    /\ UNCHANGED <<session, world, history, budget>>

(* An answer without a tool leaves the task to the loop. *)
FirstDecisionAnswers ==
    /\ pc = "deciding"
    /\ IF HasTask THEN pc' = "looping" /\ UNCHANGED <<conv, call>> ELSE Finish(conv)
    /\ UNCHANGED <<session, world, history, budget>>

FirstDecisionActs ==
    /\ pc = "deciding"
    /\ \E a \in Choices : ActOn(a, TRUE)
    /\ UNCHANGED <<session, world, settled, confirmed, took, budget>>

GoesOn == task.status \notin Boundaries /\ Missing(task) # {} /\ task.count < MaxSteps

(* The loop ends at a boundary, when every criterion has its evidence, or at  *)
(* the step bound.                                                            *)
LoopEnds ==
    /\ pc = "looping"
    /\ ~GoesOn
    /\ Finish(CASE task.status \in Boundaries -> conv
                [] Missing(task) = {} -> WithStatus(conv, "complete")
                [] OTHER -> WithStatus(conv, "blocked"))
    /\ UNCHANGED <<session, world, history, budget>>

(* A continuation the criteria dictate, unless it was tried before. *)
LoopContinues ==
    /\ pc = "looping" /\ GoesOn
    /\ \E a \in SureActions(task) :
           IF a \in task.done \cup task.failed
           THEN Finish(WithStatus(conv, "blocked")) /\ UNCHANGED asks
           ELSE ActOn(a, FALSE)
    /\ UNCHANGED <<session, world, settled, confirmed, took, budget>>

ModelDecides == pc = "looping" /\ GoesOn /\ SureActions(task) = {}

(* A call tried before is recognised when the model wrote its arguments as    *)
(* they were recorded; a status read is never counted as a repetition.        *)
LoopActs ==
    /\ ModelDecides
    /\ \E a \in Choices :
           \/ ActOn(a, FALSE)
           \/ /\ a \in task.done \cup task.failed
              /\ a.tool \notin GuardedTools \cup {"status"}
              /\ Finish(WithStatus(conv, "blocked")) /\ UNCHANGED asks
    /\ UNCHANGED <<session, world, settled, confirmed, took, budget>>

(* A refusal, a question, a claim to be done or a failing provider, and       *)
(* arguments that do not validate.                                            *)
LoopStops ==
    /\ ModelDecides
    /\ \E c \in {WithStatus(conv, s) : s \in {"refused", "clarify", "blocked"}} \cup {conv} :
           Finish(c)
    /\ UNCHANGED <<session, world, history, budget>>

-----------------------------------------------------------------------------
(* Calling: the tool works and its result is recorded in one step, since all  *)
(* that a crash in between would lose is in memory.                           *)

(* slip: destinations that exist are written over *)
PossibleOver(a) ==
    CASE a.tool \in SourceTools -> a.on \in decks
      [] a.tool = "apply" -> a.on \in plans
      [] OTHER -> TRUE

(* What each tool asks of the disk. *)
Possible(a) ==
    CASE a.tool \in DeckReads -> a.on \in decks
      [] a.tool = "preview" -> a.on \in decks /\ a.to \notin plans
      [] a.tool = "apply" -> a.on \in plans /\ a.to \notin decks
      [] a.tool = "run" -> a.on \in decks /\ runs[a.to] = "none"
      [] a.tool \in RunReads -> runs[a.on] # "none"
      [] a.tool = "stop" -> runs[a.on] = "running"

TakesEffect(a) ==
    /\ plans' = IF a.tool = "preview" THEN plans \cup {a.to} ELSE plans
    /\ decks' = IF a.tool = "apply" THEN decks \cup {a.to} ELSE decks
    /\ clean' \in IF a.tool = "apply" THEN {clean, clean \cup {a.to}} ELSE {clean}
    /\ runs' = IF a.tool = "run" THEN [runs EXCEPT ![a.to] = "running"] ELSE runs
    /\ took' = IF a.tool \in {"apply", "run"} THEN took \cup {call.ask} ELSE took

(* After the change is written: a task that asked for a run, and whose        *)
(* validation state is clean, is offered one.                                 *)
Offer(c, deck) ==
    IF "run" \in c.task.wants /\ c.task.checked = "clean"
    THEN RunLeft /\ Finish(Asking(c, Act("run", deck, FreeRun))) /\ asks' = asks + 1
    ELSE Continue(c) /\ UNCHANGED asks

Errors == call.act.tool \in {"inspect", "validate"} /\ call.act.on \notin clean
Before == Recorded(conv, call.act, Errors)
After == Updated(Before, call.act)
Works == pc = "calling" /\ Possible(call.act)
CallMade == confirmed' = IF call.ask # 0 THEN 0 ELSE confirmed

(* _execute after a preview: the plan is armed. *)
PreviewDone ==
    /\ Works /\ call.act.tool = "preview"
    /\ TakesEffect(call.act)
    /\ Finish(Asking(After, Act("apply", call.act.to, FreeDeck)))
    /\ asks' = asks + 1
    /\ UNCHANGED <<session, settled, confirmed, budget>>

(* _execute after apply_change: the new deck is validated or a run offered. *)
ApplyDone ==
    /\ Works /\ call.act.tool = "apply"
    /\ TakesEffect(call.act)
    /\ CallMade
    /\ IF "validate" \in task.wants
       THEN /\ Look(After, Act("validate", call.act.to, 0), call.act, "after", 0)
            /\ UNCHANGED asks
       ELSE Offer(After, call.act.to)
    /\ UNCHANGED <<session, settled, budget>>

(* The validation after apply_change. *)
NewDeckValidated ==
    /\ Works /\ call.role = "after"
    /\ IF Errors THEN Continue(WithStatus(After, "failed")) /\ UNCHANGED asks
       ELSE Offer(WithStatus(After, IF "run" \in task.wants THEN "verify" ELSE "complete"),
                  call.main.to)
    /\ UNCHANGED <<session, world, settled, confirmed, took, budget>>

(* The inspection before a preview; the preview itself is not checked again.  *)
SourceInspected ==
    /\ Works /\ call.role = "before"
    /\ IF Errors
       THEN Finish([WithStatus(After, "failed") EXCEPT !.task.checked = "errors"])
       ELSE /\ conv' = After /\ pc' = "calling"
            /\ call' = MainCall(call.main, call.ask, call.first)
    /\ UNCHANGED <<session, world, history, budget>>

(* A query may be followed by a read for each entity it found; the context is *)
(* brought up to date after them.                                             *)
QueryDone ==
    /\ Works /\ call.act.tool = "query"
    /\ \/ call.role = "main" /\ Continue(After)
       \/ /\ call.role = "main"
          /\ \E n \in 1 .. MaxChain :
                 Look(Before, [call.act EXCEPT !.to = 1], call.act, "chain", n - 1)
       \/ /\ call.role = "chain"
          /\ IF call.left = 0 THEN Continue(After)
             ELSE Look(After, [call.act EXCEPT !.to = @ + 1], call.main, "chain", call.left - 1)
    /\ UNCHANGED <<session, world, history, budget>>

(* Every other tool. *)
PlainDone ==
    /\ Works /\ call.role = "main" /\ call.act.tool \notin {"preview", "apply", "query"}
    /\ TakesEffect(call.act)
    /\ CallMade
    /\ Continue(After)
    /\ UNCHANGED <<session, asks, settled, budget>>

(* The tool refuses, or fails for a reason of its own. *)
CallFails ==
    /\ pc = "calling"
    /\ IF Possible(call.act) THEN faults < MaxFaults /\ faults' = faults + 1 ELSE UNCHANGED faults
    /\ Finish(Failed(conv, call.act))
    /\ CallMade
    /\ UNCHANGED <<session, world, asks, settled, took, messages>>

-----------------------------------------------------------------------------
(* The end of a turn in run_jsonl_chat: saved first, replied then. *)

SaveSession ==
    /\ pc = "saving"
    /\ session' = conv
    /\ pc' = "replying"
    /\ confirmed' = 0
    /\ UNCHANGED <<conv, call, world, asks, settled, took, budget>>

(* Only an error is written; the conversation in memory stays as it is. *)
SaveFails ==
    /\ pc = "saving" /\ faults < MaxFaults
    /\ faults' = faults + 1
    /\ pc' = "ready"
    /\ confirmed' = 0
    /\ UNCHANGED <<conv, session, call, world, asks, settled, took, messages>>

(* The user learns what is still waiting for a confirmation; every earlier    *)
(* question is over for him.                                                  *)
Reply ==
    /\ pc = "replying"
    /\ pc' = "ready"
    /\ settled' = (1 .. asks) \ {conv.pending.ask}
    /\ UNCHANGED <<conv, session, call, world, asks, confirmed, took, budget>>

(* slip: the reply goes out before the session is saved *)
ReplyThenSave ==
    \/ /\ pc = "saving"
       /\ pc' = "replying"
       /\ settled' = (1 .. asks) \ {conv.pending.ask}
       /\ confirmed' = 0
       /\ UNCHANGED <<conv, session, call, world, asks, took, budget>>
    \/ /\ pc = "replying"
       /\ session' = conv
       /\ pc' = "ready"
       /\ UNCHANGED <<conv, call, world, history, budget>>

EndOfTurn == SaveSession \/ SaveFails \/ Reply

(* A run the process supervises comes to its end. *)
RunEnds ==
    /\ \E r \in Runs : \E verdict \in {"good", "bad"} :
           runs[r] = "running" /\ runs' = [runs EXCEPT ![r] = verdict]
    /\ UNCHANGED <<conv, session, pc, call, decks, clean, plans, history, budget>>

(* The process ends, and with it the supervision of its runs. *)
Crash ==
    /\ pc # "down" /\ faults < MaxFaults
    /\ faults' = faults + 1
    /\ pc' = "down" /\ conv' = FreshConversation /\ call' = NoCall /\ confirmed' = 0
    /\ runs' = [r \in Runs |-> IF runs[r] = "running" THEN "lost" ELSE runs[r]]
    /\ UNCHANGED <<session, decks, clean, plans, asks, settled, took, messages>>

(* ConversationState.from_dict accepts what it finds. *)
Loads(c) == c.task.count <= MaxSteps /\ c.pending.act.tool \in GuardedTools \cup {"nothing"}

Resume ==
    /\ pc = "down" /\ Loads(session)
    /\ conv' = session /\ pc' = "ready"
    /\ UNCHANGED <<session, call, world, history, budget>>

User == SayObjective \/ SayMore \/ Confirm \/ Cancel
Decide == \/ FirstDecisionStops \/ FirstDecisionAnswers \/ FirstDecisionActs
          \/ LoopEnds \/ LoopContinues \/ LoopActs \/ LoopStops
Complete == \/ PreviewDone \/ ApplyDone \/ NewDeckValidated \/ SourceInspected
            \/ QueryDone \/ PlainDone
Agent == Decide \/ Complete \/ CallFails \/ EndOfTurn

Next == User \/ Agent \/ RunEnds \/ Crash \/ Resume

Spec == Init /\ [][Next]_vars

(* The process keeps running: decisions arrive (the provider has a deadline), *)
(* tools return, and a turn is not left half-way.                             *)
FairSpec == Spec /\ WF_vars(Agent)

-----------------------------------------------------------------------------
Pendings == [act : Actions \cup {Nothing}, ask : 0 .. MaxMessages]
Tasks == [status : Statuses, wants : SUBSET Outcomes, source : 0 .. MaxDecks,
          active : 0 .. MaxDecks, count : Nat, done : SUBSET Actions, failed : SUBSET Actions,
          badRun : BOOLEAN, checked : {"unknown", "clean", "errors"}]
Conversations == [turn : 0 .. MaxMessages, pending : Pendings, task : Tasks,
                  active : 0 .. MaxDecks, lastOutput : 0 .. MaxDecks,
                  lastRun : [dir : 0 .. MaxRuns, over : BOOLEAN]]

(* Every variable is in its set, and a question and its number come and go    *)
(* together.                                                                  *)
TypeOK ==
    /\ conv \in Conversations /\ session \in Conversations
    /\ pc \in {"ready", "deciding", "looping", "calling", "saving", "replying", "down"}
    /\ call \in [act : Actions \cup {Nothing}, main : Actions \cup {Nothing},
                 role : {"none", "main", "before", "chain", "after"}, ask : 0 .. MaxMessages,
                 left : 0 .. MaxChain, first : BOOLEAN]
    /\ pc = "calling" <=> call.role # "none"
    /\ \A c \in {conv, session} : c.pending.ask = 0 <=> c.pending.act = Nothing
    /\ 1 \in decks /\ decks \subseteq Decks /\ clean \subseteq decks
    /\ plans \subseteq Plans
    /\ runs \in [Runs -> {"none", "running", "good", "bad", "lost"}]
    /\ asks \in 0 .. MaxMessages /\ settled \subseteq 1 .. asks /\ confirmed \in 0 .. asks
    /\ took \subseteq 1 .. asks
    /\ messages \in 0 .. MaxMessages /\ faults \in 0 .. MaxFaults

(* Whatever a turn did, the session it leaves can be loaded again: the reads  *)
(* nested in a call (before a preview, after an application, chained to a     *)
(* query) never take a task past its step bound (orchestrator.py 232, 1400).  *)
SessionLoads == Loads(session) /\ (pc = "ready" => Loads(conv))

(* A guarded tool is called only in the turn whose user confirmed that very   *)
(* question, and at most once in it, whatever the model decides afterwards.   *)
GuardedOnlyConfirmed ==
    pc = "calling" /\ call.act.tool \in GuardedTools => call.ask # 0 /\ call.ask = confirmed

(* A question the user was told is over (executed, cancelled or replaced) is  *)
(* never armed or carried out again, not even after a crash and a resume.     *)
SettledStaysSettled == conv.pending.ask \notin settled /\ call.ask \notin settled

(* A task that has come to another status than waiting for a confirmation has *)
(* no action left that a stray "yes" would carry out.                         *)
ArmedMeansAsked == conv.pending # NoPending /\ HasTask => task.status = "confirm"

(* One confirmation question never makes two decks or starts two runs: when   *)
(* the process died after the call and before the save, the question is armed *)
(* again and the second call finds its destination taken.                     *)
EffectOnce ==
    pc = "calling" /\ call.ask \in took /\ call.act.tool \in {"apply", "run"}
        => ~Possible(call.act)

(* A turn always comes to its reply or to its error: every way round the loop *)
(* takes a step of the task, or ends it.                                      *)
TurnEnds == pc \in {"deciding", "looping", "calling", "saving", "replying"}
                ~> pc \in {"ready", "down"}

(* AGENT_LOOP.md 20: a change-and-run objective pauses before the file and    *)
(* again before the execution. A task that made its deck and is complete has  *)
(* therefore called the run tool.                                             *)
ChangeAndRunRuns ==
    /\ pc = "ready" /\ task.status = "complete"
    /\ {"modify", "run"} \subseteq task.wants /\ "apply" \in Tools(task)
    => "run" \in Tools(task)
=============================================================================
