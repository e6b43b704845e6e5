--------------------------- MODULE AgentLoopProofs --------------------------
(***************************************************************************)
(* What one chat process promises its user, for every objective, every     *)
(* decision the model may take, any number of messages, decks, runs and    *)
(* chained reads, and crashes and failing saves anywhere.                  *)
(*                                                                         *)
(* The invariant: the conversation in memory and the one on disk are each  *)
(* sound by themselves (what they ask for is guarded, asked for, and what  *)
(* the task's status says); a question that both hold is the same          *)
(* question; while a turn works, nothing is armed; and the call under way  *)
(* has a step of the task left, and, if it is guarded, the question that   *)
(* the user has just answered.                                             *)
(***************************************************************************)
EXTENDS AgentLoop, WellFoundedInduction, TLAPS

-----------------------------------------------------------------------------
(* The invariant *)

(* A conversation by itself. *)
Consistent(t) == IF t.status = "none" THEN t = NoTask ELSE t.source \in Decks /\ t.active \in Decks

Sound(c) ==
    /\ c \in Conversations
    /\ Consistent(c.task)
    /\ Loads(c)
    /\ c.pending.ask = 0 <=> c.pending.act = Nothing
    /\ c.pending # NoPending => c.turn # 0
    /\ c.pending # NoPending /\ c.task.status # "none" => c.task.status = "confirm"

(* A conversation at work: its turn has begun and nothing waits in it.       *)
Going(c) == Sound(c) /\ c.pending = NoPending /\ c.turn # 0

(* What a question asked for has come into being.                            *)
Taken(a) ==
    /\ a.tool = "apply" => a.to \in decks
    /\ a.tool = "run" => runs[a.to] # "none"

(* A conversation against the history of questions.                          *)
Asked(c) ==
    /\ c.turn <= messages
    /\ c.pending.ask <= asks /\ c.pending.ask \notin settled
    /\ c.pending.ask \in took => Taken(c.pending.act)

SameQuestion(p, q) == p.ask = q.ask /\ p.ask # 0 => p.act = q.act

World ==
    /\ 1 \in decks /\ decks \subseteq Decks /\ clean \subseteq decks /\ plans \subseteq Plans
    /\ runs \in [Runs -> {"none", "running", "good", "bad", "lost"}]
    /\ messages \in 0 .. MaxMessages /\ faults \in 0 .. MaxFaults
    /\ asks \in 0 .. messages /\ confirmed \in 0 .. asks
    /\ settled \subseteq 1 .. asks /\ took \subseteq 1 .. asks

Memory ==
    /\ Sound(conv) /\ Asked(conv)
    /\ Sound(session) /\ Asked(session)
    /\ SameQuestion(conv.pending, session.pending)
    /\ pc = "replying" => session = conv

Working == {"deciding", "looping", "calling"}

Place ==
    /\ pc \in Working \cup {"ready", "saving", "replying", "down"}
    /\ pc \in Working => Going(conv) /\ asks < messages

Calls == [act : Actions, main : Actions, role : {"main", "before", "chain", "after"},
          ask : 0 .. MaxMessages, left : 0 .. MaxChain, first : BOOLEAN]

(* A call k of conversation c: there is a step left for it, and its role     *)
(* says what it and the tool that was decided on are.                        *)
Fits(k, c) ==
    /\ k \in Calls
    /\ c.task.status # "none" => c.task.count < MaxSteps
    /\ k.role = "main" => k.main = k.act
    /\ k.role # "main" => k.act.tool \in DeckReads
    /\ k.role = "before" => k.main.tool = "preview" /\ c.task.status # "none" /\ c.task.count = 0
    /\ k.role = "chain" => k.act.tool = "query" /\ k.main.tool = "query" /\ k.act.to + k.left <= MaxChain
    /\ k.role = "after" => k.main.tool = "apply"

(* A guarded call is the answer to a question that may also be on disk.      *)
Authorised ==
    /\ call.ask # 0 /\ call.ask = confirmed
    /\ call.ask \in took => Taken(call.act)
    /\ SameQuestion(session.pending, call)

Calling ==
    /\ pc # "calling" => call = NoCall
    /\ pc = "calling" =>
        /\ Fits(call, conv)
        /\ call.ask <= asks /\ call.ask \notin settled
        /\ call.main.tool = "preview" => DeckLeft
        /\ call.act.tool \in GuardedTools => Authorised

IInv == World /\ Memory /\ Place /\ Calling

-----------------------------------------------------------------------------
(* Actions, destinations *)

LEMMA ActShape ==
    ASSUME NEW a \in Actions
    PROVE  /\ a.tool \in AllTools /\ a.on \in Nat /\ a.to \in Nat /\ a # Nothing
           /\ a.tool \in SourceTools => a.on \in Decks
           /\ a.tool \in DeckReads => a.to <= MaxChain
           /\ a.tool = "preview" => a.to \in Plans
           /\ a.tool = "apply" => a.on \in Plans /\ a.to \in Decks
           /\ a.tool = "run" => a.to \in Runs
           /\ a.tool \in RunReads \cup {"stop"} => a.on \in Runs /\ a.to = 0
BY AgentAssumption
   DEF Actions, AllTools, DeckReads, RunReads, SourceTools, Decks, Runs, Plans, Nothing, Act

LEMMA ActMade ==
    ASSUME NEW on, NEW to
    PROVE  /\ \A tool \in DeckReads : on \in Decks /\ to \in 0 .. MaxChain => Act(tool, on, to) \in Actions
           /\ on \in Plans /\ to \in Decks => Act("apply", on, to) \in Actions
           /\ on \in Decks /\ to \in Runs => Act("run", on, to) \in Actions
           /\ \A tool : Act(tool, on, to).tool = tool /\ Act(tool, on, to).on = on
                        /\ Act(tool, on, to).to = to
BY DEF Actions, Act

LEMMA DecksAreNaturals == Decks \subseteq Nat /\ Runs \subseteq Nat /\ Plans \subseteq Nat
BY AgentAssumption DEF Decks, Runs, Plans

LEMMA LeastNatural ==
    ASSUME NEW S, S \subseteq Nat, S # {}
    PROVE  \E d \in S : \A e \in S : d <= e
<1>1. PICK d \in S : \A e \in S : ~(<<e, d>> \in OpToRel(<, Nat))
  BY NatLessThanWellFounded, WFMin
<1>2. \A e \in S : ~(e < d) BY <1>1 DEF OpToRel
<1> QED BY <1>2

(* The destinations the orchestrator finds are free, as long as one is.      *)
LEMMA FreeDeckIsFree == DeckLeft => FreeDeck \in Decks \ decks
<1> SUFFICES ASSUME DeckLeft PROVE FreeDeck \in Decks \ decks OBVIOUS
<1>1. \E d \in Decks \ decks : \A e \in Decks \ decks : d <= e
  BY LeastNatural, DecksAreNaturals DEF DeckLeft
<1> QED BY <1>1 DEF FreeDeck

LEMMA FreeRunIsFree == RunLeft => FreeRun \in Runs /\ runs[FreeRun] = "none"
<1> SUFFICES ASSUME RunLeft PROVE FreeRun \in Runs /\ runs[FreeRun] = "none" OBVIOUS
<1> DEFINE S == {r \in Runs : runs[r] = "none"}
<1>1. PICK r \in S : \A e \in S : r <= e
  <2>1. S \subseteq Nat /\ S # {} BY DecksAreNaturals DEF RunLeft
  <2> HIDE DEF S
  <2> QED BY <2>1, LeastNatural
<1>2. \A s \in 1 .. r - 1 : runs[s] # "none"
  <2> SUFFICES ASSUME NEW s \in 1 .. r - 1, runs[s] = "none" PROVE FALSE OBVIOUS
  <2>1. r \in 1 .. MaxRuns /\ MaxRuns \in Nat BY AgentAssumption DEF Runs
  <2>2. s \in S BY <2>1 DEF Runs
  <2> QED BY <1>1, <2>1, <2>2
<1> QED BY <1>1, <1>2 DEF FreeRun

-----------------------------------------------------------------------------
(* What the bookkeeping of a task keeps of a conversation at work *)

LEMMA GoingStatus ==
    ASSUME NEW c, Going(c), NEW s \in Statuses \ {"none"}
    PROVE  /\ Going(WithStatus(c, s))
           /\ WithStatus(c, s).turn = c.turn
           /\ WithStatus(c, s).task.wants = c.task.wants
           /\ WithStatus(c, s).task.count = c.task.count
           /\ WithStatus(c, s).task.status = IF c.task.status = "none" THEN "none" ELSE s
BY DEF Going, Sound, WithStatus, Conversations, Tasks, Consistent, Loads

LEMMA GoingFailed ==
    ASSUME NEW c, Going(c), NEW a \in Actions
    PROVE  Going(Failed(c, a)) /\ Failed(c, a).turn = c.turn
BY DEF Going, Sound, Failed, Conversations, Tasks, Consistent, Loads, Statuses

LEMMA ObservedTyped ==
    ASSUME NEW t \in Tasks, NEW a \in Actions, NEW errors
    PROVE  LET o == Observed(t, a, errors) IN
           /\ o \in Tasks
           /\ o.count = t.count /\ o.source = t.source /\ o.wants = t.wants /\ o.done = t.done
           /\ t.status # "none" => o.status # "none"
           /\ o.active \in {t.active} \cup Decks
<1> DEFINE badRun == a.tool = "status" /\ runs[a.on] = "bad"
           failed == IF badRun /\ ~t.badRun THEN t.failed \cup {a} ELSE t.failed
           status == CASE a.tool = "inspect" -> "inspect"
                       [] a.tool = "preview" -> "propose"
                       [] a.tool \in {"apply", "run"} -> "execute"
                       [] a.tool \in {"validate", "log"} -> "verify"
                       [] badRun -> "failed"
                       [] a.tool = "status" -> IF Over(a.on) THEN "complete" ELSE "execute"
                       [] OTHER -> t.status
           active == IF a.tool = "apply" THEN a.to
                     ELSE IF a.tool \in SourceTools THEN a.on ELSE t.active
           checked == IF a.tool # "validate" THEN t.checked ELSE IF errors THEN "errors" ELSE "clean"
<1>1. failed \in SUBSET Actions BY DEF Tasks
<1>2. status \in Statuses /\ (t.status # "none" => status # "none") BY DEF Tasks, Statuses
<1>3. active \in {t.active} \cup Decks BY ActShape
<1>4. active \in 0 .. MaxDecks BY <1>3, AgentAssumption DEF Tasks, Decks
<1>5. checked \in {"unknown", "clean", "errors"} BY DEF Tasks
<1>6. (t.badRun \/ badRun) \in BOOLEAN OBVIOUS
<1>7. Observed(t, a, errors) = [t EXCEPT !.failed = failed, !.badRun = t.badRun \/ badRun,
                                         !.status = status, !.active = active, !.checked = checked]
  BY DEF Observed
<1> HIDE DEF badRun, failed, status, active, checked
<1>8. Observed(t, a, errors) \in Tasks BY <1>1, <1>2, <1>4, <1>5, <1>6, <1>7 DEF Tasks
<1>9. /\ Observed(t, a, errors).status = status /\ Observed(t, a, errors).active = active
      /\ Observed(t, a, errors).count = t.count /\ Observed(t, a, errors).done = t.done
      /\ Observed(t, a, errors).source = t.source /\ Observed(t, a, errors).wants = t.wants
  BY <1>7 DEF Tasks
<1> QED BY <1>2, <1>3, <1>8, <1>9

LEMMA StepTakenTyped ==
    ASSUME NEW t \in Tasks, NEW a \in Actions, NEW errors
    PROVE  LET u == StepTaken(t, a, errors) IN
           /\ u \in Tasks
           /\ u.count = t.count + 1 /\ u.source = t.source /\ u.wants = t.wants
           /\ t.status # "none" => u.status # "none"
           /\ u.active \in {t.active} \cup Decks
<1> DEFINE o == Observed(t, a, errors)
<1>1. /\ o \in Tasks
      /\ o.count = t.count /\ o.source = t.source /\ o.wants = t.wants /\ o.done = t.done
      /\ t.status # "none" => o.status # "none"
      /\ o.active \in {t.active} \cup Decks
  BY ObservedTyped
<1>2. StepTaken(t, a, errors) = [o EXCEPT !.count = o.count + 1, !.done = o.done \cup {a}]
  BY DEF StepTaken
<1> HIDE DEF o
<1>3. o.count + 1 \in Nat /\ o.done \cup {a} \in SUBSET Actions BY <1>1 DEF Tasks
<1>4. StepTaken(t, a, errors) \in Tasks BY <1>1, <1>2, <1>3 DEF Tasks
<1> QED BY <1>1, <1>2, <1>4 DEF Tasks

(* A recorded step leaves the conversation at work, and uses up one step.    *)
LEMMA GoingRecorded ==
    ASSUME NEW c, Going(c), NEW a \in Actions, NEW errors,
           c.task.status # "none" => c.task.count < MaxSteps
    PROVE  LET d == Recorded(c, a, errors) IN
           /\ Going(d) /\ d.turn = c.turn /\ d.task.wants = c.task.wants
           /\ d.lastOutput = c.lastOutput
           /\ d.task.status = "none" <=> c.task.status = "none"
           /\ c.task.status # "none" => d.task.count = c.task.count + 1
<1> USE DEF Recorded
<1>1. CASE c.task.status = "none" BY <1>1
<1>2. CASE c.task.status # "none"
  <2> DEFINE u == StepTaken(c.task, a, errors)
  <2>1. c \in Conversations /\ c.task \in Tasks BY DEF Going, Sound, Conversations
  <2>2. /\ u \in Tasks
        /\ u.count = c.task.count + 1 /\ u.source = c.task.source /\ u.wants = c.task.wants
        /\ u.status # "none"
        /\ u.active \in {c.task.active} \cup Decks
    BY <1>2, <2>1, StepTakenTyped
  <2>3. Recorded(c, a, errors) = [c EXCEPT !.task = u] BY <1>2
  <2>4. u.count <= MaxSteps BY <1>2, <2>1, <2>2, AgentAssumption DEF Tasks
  <2> HIDE DEF u, Recorded
  <2> QED BY <1>2, <2>1, <2>2, <2>3, <2>4 DEF Going, Sound, Conversations, Consistent, Loads
<1> QED BY <1>1, <1>2

LEMMA GoingUpdated ==
    ASSUME NEW c, Going(c), NEW a \in Actions
    PROVE  LET d == Updated(c, a) IN
           /\ Going(d) /\ d.turn = c.turn /\ d.task.wants = c.task.wants
           /\ d.task.status = c.task.status /\ d.task.count = c.task.count
<1> DEFINE active == IF a.tool = "apply" THEN a.to
                     ELSE IF a.tool \in SourceTools THEN a.on ELSE c.active
           t == IF c.task.status = "none" \/ active = 0 THEN c.task
                ELSE [c.task EXCEPT !.active = active]
           lastOutput == IF a.tool = "apply" THEN a.to ELSE c.lastOutput
           lastRun == CASE a.tool = "run" -> [dir |-> a.to, over |-> FALSE]
                        [] a.tool = "status" -> [dir |-> a.on, over |-> Over(a.on)]
                        [] a.tool = "log" -> [dir |-> a.on, over |-> c.lastRun.over]
                        [] OTHER -> c.lastRun
<1>1. c \in Conversations /\ c.task \in Tasks BY DEF Going, Sound, Conversations
<1>2. active \in 0 .. MaxDecks BY <1>1, ActShape, AgentAssumption DEF Conversations, Decks
<1>3. /\ t \in Tasks /\ t.wants = c.task.wants /\ t.status = c.task.status
      /\ t.count = c.task.count /\ Consistent(t)
  BY <1>1, <1>2, AgentAssumption DEF Tasks, Going, Sound, Consistent, Decks
<1>4. lastOutput \in 0 .. MaxDecks BY <1>1, ActShape, AgentAssumption DEF Conversations, Decks
<1>5. lastRun \in [dir : 0 .. MaxRuns, over : BOOLEAN]
  <2>1. Over(a.on) \in BOOLEAN BY DEF Over
  <2>2. a.tool = "run" => a.to \in 0 .. MaxRuns BY ActShape, AgentAssumption DEF Runs
  <2>3. a.tool \in RunReads => a.on \in 0 .. MaxRuns BY ActShape, AgentAssumption DEF Runs
  <2>4. c.lastRun \in [dir : 0 .. MaxRuns, over : BOOLEAN] BY <1>1 DEF Conversations
  <2> QED BY <2>1, <2>2, <2>3, <2>4 DEF RunReads
<1>6. Updated(c, a) = [c EXCEPT !.active = active, !.task = t, !.lastOutput = lastOutput,
                                !.lastRun = lastRun]
  BY DEF Updated
<1> HIDE DEF active, t, lastOutput, lastRun
<1> QED BY <1>1, <1>2, <1>3, <1>4, <1>5, <1>6 DEF Going, Sound, Conversations, Loads

(* A question about a guarded action leaves the conversation sound.          *)
LEMMA AskingSound ==
    ASSUME NEW c, Going(c), NEW a \in Actions, a.tool \in GuardedTools,
           asks \in Nat, asks < MaxMessages
    PROVE  /\ Sound(Asking(c, a))
           /\ Asking(c, a).turn = c.turn
           /\ Asking(c, a).pending = [act |-> a, ask |-> asks + 1]
<1> DEFINE w == WithStatus(c, "confirm")
           p == [act |-> a, ask |-> asks + 1]
<1>1. /\ Going(w) /\ w.turn = c.turn /\ w.task.count = c.task.count
      /\ w.task.status = IF c.task.status = "none" THEN "none" ELSE "confirm"
  BY GoingStatus DEF Statuses
<1>2. p \in Pendings BY AgentAssumption DEF Pendings
<1>3. a # Nothing BY ActShape
<1>4. Asking(c, a) = [w EXCEPT !.pending = p] BY DEF Asking
<1>5. p.ask = asks + 1 /\ p.ask # 0 /\ p.act = a OBVIOUS
<1> HIDE DEF w, p
<1>6. w \in Conversations BY <1>1 DEF Going, Sound
<1>7. Asking(c, a) \in Conversations BY <1>2, <1>4, <1>6 DEF Conversations
<1>8. /\ Asking(c, a).pending = p /\ Asking(c, a).task = w.task /\ Asking(c, a).turn = w.turn
  BY <1>4, <1>6 DEF Conversations
<1> QED BY <1>1, <1>3, <1>5, <1>7, <1>8 DEF Going, Sound, Loads, p

-----------------------------------------------------------------------------
(* How a turn goes on *)

(* The turn comes to its end, with or without a question; it goes back to    *)
(* the loop; or it makes a call that needs no confirmation.                  *)
Went ==
    /\ conv'.turn = conv.turn
    /\ \/ /\ pc' = "saving" /\ call' = NoCall /\ Sound(conv')
          /\ \/ conv'.pending = NoPending /\ asks' = asks
             \/ conv'.pending.ask = asks + 1 /\ asks' = asks + 1
       \/ pc' = "looping" /\ call' = NoCall /\ Going(conv') /\ asks' = asks
       \/ /\ pc' = "calling" /\ Going(conv') /\ asks' = asks
          /\ Fits(call', conv') /\ call'.ask \in {0, call.ask}
          /\ call'.act.tool \notin GuardedTools
          /\ call'.main.tool = "preview" => DeckLeft

LEMMA FinishWent ==
    ASSUME NEW c, Going(c), c.turn = conv.turn, Finish(c), asks' = asks
    PROVE  Went
BY DEF Finish, Went, Going

LEMMA QuestionWent ==
    ASSUME NEW c, Going(c), c.turn = conv.turn, asks \in Nat, asks < MaxMessages,
           NEW a \in Actions, a.tool \in GuardedTools, Finish(Asking(c, a)), asks' = asks + 1
    PROVE  Went
<1>1. /\ Sound(Asking(c, a)) /\ Asking(c, a).turn = c.turn
      /\ Asking(c, a).pending = [act |-> a, ask |-> asks + 1]
  BY AskingSound
<1>2. Asking(c, a).pending.ask = asks + 1 BY <1>1
<1>3. conv' = Asking(c, a) /\ pc' = "saving" /\ call' = NoCall BY DEF Finish
<1> QED BY <1>1, <1>2, <1>3 DEF Went

LEMMA ContinueWent ==
    ASSUME NEW c, Going(c), c.turn = conv.turn, Continue(c), asks' = asks
    PROVE  Went
<1>1. Going(WithStatus(c, "execute")) /\ WithStatus(c, "execute").turn = conv.turn
  BY GoingStatus DEF Statuses
<1> QED BY <1>1, FinishWent DEF Continue, Went

LEMMA LookWent ==
    ASSUME NEW c, Going(c), c.turn = conv.turn,
           NEW a \in Actions, a.tool \in DeckReads, NEW main \in Actions,
           NEW role \in {"chain", "after"}, NEW left \in 0 .. MaxChain,
           role = "chain" => a.tool = "query" /\ main.tool = "query" /\ a.to + left <= MaxChain,
           role = "after" => main.tool = "apply",
           call \in Calls, Look(c, a, main, role, left), asks' = asks
    PROVE  Went
<1>1. CASE Refused(c.task, a)
  <2>1. Going(WithStatus(c, "failed")) /\ WithStatus(c, "failed").turn = conv.turn
    BY GoingStatus DEF Statuses
  <2> QED BY <1>1, <2>1, FinishWent DEF Look
<1>2. CASE ~Refused(c.task, a)
  <2>1. conv' = c /\ pc' = "calling" /\ call' = ReadCall(a, main, role, left)
    BY <1>2 DEF Look
  <2>2. c.task.status # "none" => c.task.count < MaxSteps
    <3>1. c.task.count \in Nat BY DEF Going, Sound, Conversations, Tasks
    <3> QED BY <1>2, <3>1, AgentAssumption DEF Refused
  <2>3. call' \in Calls BY <2>1 DEF ReadCall, Calls
  <2>4. /\ call'.act = a /\ call'.main = main /\ call'.role = role /\ call'.left = left
        /\ call'.ask = call.ask
    BY <2>1 DEF ReadCall, Calls
  <2>5. Fits(call', conv') BY <2>1, <2>2, <2>3, <2>4 DEF Fits
  <2>6. a.tool \notin GuardedTools /\ main.tool # "preview" BY DEF GuardedTools, DeckReads
  <2> QED BY <2>1, <2>4, <2>5, <2>6 DEF Went
<1> QED BY <1>1, <1>2

LEMMA ExecuteWent ==
    ASSUME NEW c, Going(c), c.turn = conv.turn,
           NEW a \in Actions, a.tool \notin GuardedTools, a.tool = "preview" => DeckLeft,
           NEW first \in BOOLEAN, Execute(c, a, 0, first), asks' = asks
    PROVE  Went
<1> DEFINE looksFirst == a.tool = "preview" /\ "validate" \in c.task.wants /\ c.task.count = 0
           inspection == Act("inspect", c.task.source, 0)
           stops == Refused(c.task, a) \/ (looksFirst /\ Refused(c.task, inspection))
<1>1. CASE stops
  <2>1. Going(WithStatus(c, "failed")) /\ WithStatus(c, "failed").turn = conv.turn
    BY GoingStatus DEF Statuses
  <2> QED BY <1>1, <2>1, FinishWent DEF Execute
<1>2. CASE ~stops
  <2>1. /\ conv' = c /\ pc' = "calling"
        /\ call' = IF looksFirst
                   THEN [MainCall(a, 0, first) EXCEPT !.act = inspection, !.role = "before"]
                   ELSE MainCall(a, 0, first)
    BY <1>2 DEF Execute
  <2>2. c.task.status # "none" => c.task.count < MaxSteps
    <3>1. c.task.count \in Nat BY DEF Going, Sound, Conversations, Tasks
    <3> QED BY <1>2, <3>1, AgentAssumption DEF Refused
  <2>3. CASE looksFirst
    <3>1. c.task.status # "none" BY <2>3 DEF Going, Sound, Consistent, NoTask
    <3>2. c.task.source \in Decks BY <3>1 DEF Going, Sound, Consistent
    <3>3. inspection \in Actions /\ inspection.tool = "inspect"
      BY <3>2, ActMade, AgentAssumption DEF DeckReads
    <3> HIDE DEF inspection
    <3>4. call' = [act |-> inspection, main |-> a, role |-> "before", ask |-> 0, left |-> 0,
                   first |-> first]
      BY <2>1, <2>3 DEF MainCall
    <3>5. call' \in Calls BY <3>3, <3>4, AgentAssumption DEF Calls
    <3>6. /\ call'.act = inspection /\ call'.main = a /\ call'.role = "before" /\ call'.ask = 0
      BY <3>4
    <3>7. Fits(call', conv') BY <2>1, <2>2, <2>3, <3>1, <3>3, <3>5, <3>6 DEF Fits, DeckReads
    <3>8. "inspect" \notin GuardedTools BY DEF GuardedTools
    <3> QED BY <2>1, <2>3, <3>3, <3>6, <3>7, <3>8 DEF Went
  <2>4. CASE ~looksFirst
    <3>1. call' = [act |-> a, main |-> a, role |-> "main", ask |-> 0, left |-> 0, first |-> first]
      BY <2>1, <2>4 DEF MainCall
    <3>2. call' \in Calls BY <3>1, AgentAssumption DEF Calls
    <3>3. call'.act = a /\ call'.main = a /\ call'.role = "main" /\ call'.ask = 0 BY <3>1
    <3>4. Fits(call', conv') BY <2>1, <2>2, <3>2, <3>3 DEF Fits
    <3> QED BY <2>1, <3>3, <3>4 DEF Went
  <2> QED BY <2>3, <2>4
<1> QED BY <1>1, <1>2

LEMMA ActOnWent ==
    ASSUME Going(conv), asks \in Nat, asks < MaxMessages,
           NEW a \in Actions, a.tool = "preview" => DeckLeft,
           NEW first \in BOOLEAN, ActOn(a, first)
    PROVE  Went
<1>1. CASE a.tool \in GuardedTools BY <1>1, QuestionWent DEF ActOn
<1>2. CASE a.tool \notin GuardedTools BY <1>2, ExecuteWent DEF ActOn
<1> QED BY <1>1, <1>2

LEMMA OfferWent ==
    ASSUME NEW c, Going(c), c.turn = conv.turn, asks \in Nat, asks < MaxMessages,
           NEW deck \in Decks, Offer(c, deck)
    PROVE  Went
<1>1. CASE "run" \in c.task.wants /\ c.task.checked = "clean"
  <2>1. RunLeft /\ Finish(Asking(c, Act("run", deck, FreeRun))) /\ asks' = asks + 1
    BY <1>1 DEF Offer
  <2>2. Act("run", deck, FreeRun) \in Actions /\ Act("run", deck, FreeRun).tool \in GuardedTools
    BY <2>1, FreeRunIsFree, ActMade DEF GuardedTools
  <2> QED BY <2>1, <2>2, QuestionWent
<1>2. CASE ~("run" \in c.task.wants /\ c.task.checked = "clean")
  BY <1>2, ContinueWent DEF Offer
<1> QED BY <1>1, <1>2

(* Whatever the model or the criteria ask for is an action of this instance. *)
LEMMA ChoicesTyped ==
    ASSUME World, conv.turn \in Plans, NEW a \in Choices
    PROVE  a \in Actions /\ (a.tool = "preview" => DeckLeft)
<1>1. decks \subseteq Decks /\ plans \subseteq Plans BY DEF World
<1>2. 0 \in 0 .. MaxChain BY AgentAssumption
<1>3. CASE a \in [tool : DeckReads, on : decks, to : {0}] BY <1>1, <1>2, <1>3 DEF Actions, DeckReads
<1>4. CASE a \in [tool : RunReads \cup {"stop"}, on : {r \in Runs : runs[r] # "none"}, to : {0}]
  BY <1>4 DEF Actions, RunReads
<1>5. CASE a \in [tool : {"preview"}, on : IF DeckLeft THEN decks ELSE {}, to : {conv.turn}]
  BY <1>1, <1>5 DEF Actions
<1>6. CASE a \in [tool : {"apply"}, on : plans, to : IF DeckLeft THEN {FreeDeck} ELSE {}]
  BY <1>1, <1>6, FreeDeckIsFree DEF Actions
<1>7. CASE a \in [tool : {"run"}, on : decks, to : IF RunLeft THEN {FreeRun} ELSE {}]
  BY <1>1, <1>7, FreeRunIsFree DEF Actions
<1> QED BY <1>3, <1>4, <1>5, <1>6, <1>7 DEF Choices

LEMMA SureTyped ==
    ASSUME Going(conv), NEW a \in SureActions(task)
    PROVE  a \in Actions /\ a.tool \in {"inspect", "validate"}
<1>1. task.wants # {} BY DEF SureActions, Missing
<1>2. task.status # "none" BY <1>1 DEF Going, Sound, Consistent, NoTask, task
<1>3. task.active \in Decks BY <1>2 DEF Going, Sound, Consistent, task
<1>4. conv.lastOutput # 0 => conv.lastOutput \in Decks
  BY AgentAssumption DEF Going, Sound, Conversations, Decks
<1>5. \E on \in Decks : a \in {Act("inspect", on, 0), Act("validate", on, 0)}
  BY <1>3, <1>4 DEF SureActions
<1> QED BY <1>5, ActMade, AgentAssumption DEF DeckReads

-----------------------------------------------------------------------------
(* A step of a turn keeps the invariant *)

(* What a step in the middle of a turn may do to the disk: what was taken    *)
(* stays taken, and what a saved question asked for is there when its effect *)
(* is.                                                                       *)
Grows ==
    /\ UNCHANGED <<session, settled, messages>>
    /\ decks \subseteq decks'
    /\ \A r \in Runs : runs[r] # "none" => runs'[r] # "none"
    /\ took' \subseteq 1 .. asks
    /\ \A k \in took' : k \in took \/ (k = session.pending.ask => Taken(session.pending.act)')

LEMMA TakenKept ==
    ASSUME Grows, NEW a \in Actions \cup {Nothing}, Taken(a)
    PROVE  /\ a.tool = "apply" => a.to \in decks'
           /\ a.tool = "run" => runs'[a.to] # "none"
<1>1. CASE a = Nothing BY <1>1 DEF Nothing, Act
<1>2. CASE a \in Actions BY <1>2, ActShape DEF Taken, Grows
<1> QED BY <1>1, <1>2

LEMMA WentKeeps ==
    ASSUME IInv, pc \in Working, Went, World', Grows,
           decks' = decks \/ (pc' = "calling" => call'.main.tool # "preview")
    PROVE  IInv'
<1> USE DEF IInv
<1>1. asks \in Nat /\ messages \in Nat /\ asks < messages /\ Going(conv)
  BY AgentAssumption DEF World, Place
<1>2. settled \subseteq 1 .. asks /\ UNCHANGED <<session, settled, messages>> /\ took' \subseteq 1 .. asks
  BY DEF World, Grows
<1>3. /\ conv'.turn <= messages /\ Sound(conv') /\ pc' \in {"saving", "looping", "calling"}
      /\ \/ conv'.pending = NoPending /\ asks' \in {asks, asks + 1}
         \/ conv'.pending.ask = asks + 1 /\ asks' = asks + 1
  BY DEF Went, Memory, Asked, Going
<1>4. NoPending.ask = 0 BY DEF NoPending
<1>5. Asked(conv)'
  <2>1. conv'.pending.ask <= asks' BY <1>1, <1>3, <1>4
  <2>2. conv'.pending.ask \notin 1 .. asks BY <1>1, <1>3, <1>4
  <2> QED BY <1>2, <1>3, <2>1, <2>2 DEF Asked
<1>6. session.pending \in Pendings /\ session.pending.act \in Actions \cup {Nothing}
  BY DEF Memory, Sound, Conversations, Pendings
<1>7. Asked(session)'
  <2>1. session.turn <= messages' /\ session.pending.ask <= asks'
    BY <1>1, <1>2, <1>3, <1>6 DEF Memory, Asked, Pendings
  <2>2. session.pending.ask \in took => Taken(session.pending.act)'
    BY <1>2, <1>6, TakenKept DEF Memory, Asked, Taken
  <2>3. session.pending.ask \in took' => Taken(session.pending.act)' BY <2>2 DEF Grows
  <2> QED BY <1>2, <2>1, <2>3 DEF Memory, Asked, Taken
<1>8. SameQuestion(conv.pending, session.pending)'
  BY <1>1, <1>2, <1>3, <1>4, <1>6 DEF Memory, Asked, SameQuestion, Pendings
<1>9. Memory' BY <1>2, <1>3, <1>5, <1>7, <1>8 DEF Memory
<1>10. Place' BY <1>1, <1>2 DEF Went, Place, Working
<1>11. Calling'
  <2>1. CASE pc' # "calling" BY <2>1 DEF Went, Calling
  <2>2. CASE pc' = "calling"
    <3>1. /\ Fits(call', conv') /\ call'.ask \in {0, call.ask} /\ asks' = asks
          /\ call'.act.tool \notin GuardedTools
          /\ call'.main.tool = "preview" => DeckLeft
      BY <2>2 DEF Went
    <3>2. call.ask <= asks /\ call.ask \notin settled
      <4>1. CASE pc = "calling" BY <4>1 DEF Calling
      <4>2. CASE pc # "calling" BY <1>1, <1>2, <4>2 DEF Calling, NoCall
      <4> QED BY <4>1, <4>2
    <3>3. call'.ask <= asks' /\ call'.ask \notin settled' BY <1>1, <1>2, <3>1, <3>2
    <3>4. call'.main.tool = "preview" => DeckLeft' BY <2>2, <3>1 DEF DeckLeft
    <3> QED BY <2>2, <3>1, <3>3, <3>4 DEF Calling
  <2> QED BY <2>1, <2>2
<1> QED BY <1>9, <1>10, <1>11

(* The same for a step that touches neither disk nor history but for a       *)
(* question.                                                                 *)
LEMMA QuietWentKeeps ==
    ASSUME IInv, pc \in Working, Went,
           UNCHANGED <<session, world, settled, took, messages>>,
           faults' \in 0 .. MaxFaults, confirmed' \in {0, confirmed}
    PROVE  IInv'
<1> USE DEF IInv
<1>1. UNCHANGED <<decks, clean, plans, runs>> BY DEF world
<1>2. asks' \in {asks, asks + 1} BY DEF Went
<1>3. asks \in Nat /\ messages \in Nat /\ asks < messages BY AgentAssumption DEF World, Place
<1>4. World'
  <2>1. asks' \in 0 .. messages' /\ confirmed' \in 0 .. asks' BY <1>2, <1>3 DEF World
  <2>2. settled' \subseteq 1 .. asks' /\ took' \subseteq 1 .. asks' BY <1>2, <1>3 DEF World
  <2> QED BY <1>1, <2>1, <2>2 DEF World
<1>5. Grows BY <1>1 DEF Grows, World
<1> QED BY <1>1, <1>4, <1>5, WentKeeps

LEMMA FreshSound ==
    Sound(FreshConversation) /\ FreshConversation.pending = NoPending /\ FreshConversation.turn = 0
<1>1. NoTask \in Tasks BY AgentAssumption DEF NoTask, Tasks, Statuses
<1>2. NoPending \in Pendings BY AgentAssumption DEF NoPending, Pendings
<1>3. NoRun \in [dir : 0 .. MaxRuns, over : BOOLEAN] BY AgentAssumption DEF NoRun
<1>4. FreshConversation \in Conversations
  BY <1>1, <1>2, <1>3, AgentAssumption DEF FreshConversation, Conversations
<1>5. FreshConversation.task = NoTask /\ FreshConversation.pending = NoPending
      /\ FreshConversation.turn = 0
  BY DEF FreshConversation
<1>6. /\ NoTask.status = "none" /\ NoTask.count = 0
      /\ NoPending.ask = 0 /\ NoPending.act = Nothing /\ Nothing.tool = "nothing"
  BY DEF NoTask, NoPending, Nothing, Act
<1> QED BY <1>4, <1>5, <1>6, AgentAssumption DEF Sound, Consistent, Loads

LEMMA InvInit == Init => IInv
<1> SUFFICES ASSUME Init PROVE IInv OBVIOUS
<1>1. World
  <2>1. 1 \in Decks /\ MaxMessages \in Nat /\ MaxFaults \in Nat BY AgentAssumption DEF Decks
  <2>2. clean \subseteq {1} BY DEF Init
  <2> QED BY <2>1, <2>2 DEF Init, World
<1>2. Sound(FreshConversation) /\ FreshConversation.pending = NoPending /\ FreshConversation.turn = 0
  BY FreshSound
<1>3. conv = FreshConversation /\ session = FreshConversation /\ pc = "ready" /\ call = NoCall
      /\ took = {} /\ settled = {} /\ asks = 0 /\ messages = 0
  BY DEF Init
<1>4. NoPending.ask = 0 BY DEF NoPending
<1>5. Memory BY <1>2, <1>3, <1>4 DEF Memory, Asked, SameQuestion
<1>6. Place /\ Calling BY <1>3 DEF Place, Working, Calling
<1> QED BY <1>1, <1>5, <1>6 DEF IInv

-----------------------------------------------------------------------------
(* Deciding *)

LEMMA DecideKeeps == ASSUME IInv, Decide PROVE IInv'
<1>1. /\ UNCHANGED <<session, settled, took, messages, world, faults>> /\ confirmed' = confirmed
  BY DEF Decide, FirstDecisionStops, FirstDecisionAnswers, FirstDecisionActs, LoopEnds,
     LoopContinues, LoopActs, LoopStops, history, budget
<1>2. pc \in {"deciding", "looping"}
  BY DEF Decide, FirstDecisionStops, FirstDecisionAnswers, FirstDecisionActs, LoopEnds,
     LoopContinues, LoopActs, LoopStops, ModelDecides
<1>3. Going(conv) /\ asks \in Nat /\ asks < MaxMessages /\ call = NoCall /\ World
  BY <1>2, AgentAssumption DEF IInv, Place, World, Working, Calling
<1>4. conv.turn \in Plans BY <1>3, AgentAssumption DEF Going, Sound, Conversations, Plans
<1>5. \A s \in Statuses \ {"none"} : Going(WithStatus(conv, s)) /\ WithStatus(conv, s).turn = conv.turn
  BY <1>3, GoingStatus
<1>6. {"refused", "clarify", "blocked", "complete"} \subseteq Statuses \ {"none"} BY DEF Statuses
<1>7. Went
  <2>1. CASE FirstDecisionStops
    <3>1. asks' = asks BY <2>1 DEF FirstDecisionStops, history
    <3> QED BY <2>1, <1>3, <1>5, <1>6, <3>1, FinishWent DEF FirstDecisionStops
  <2>2. CASE FirstDecisionAnswers
    <3>1. asks' = asks BY <2>2 DEF FirstDecisionAnswers, history
    <3> QED BY <2>2, <1>3, <3>1, FinishWent DEF FirstDecisionAnswers, Went
  <2>3. CASE FirstDecisionActs
    BY <2>3, <1>3, <1>4, ChoicesTyped, ActOnWent DEF FirstDecisionActs
  <2>4. CASE LoopEnds
    <3>1. asks' = asks BY <2>4 DEF LoopEnds, history
    <3> QED BY <2>4, <1>3, <1>5, <1>6, <3>1, FinishWent DEF LoopEnds
  <2>5. CASE LoopContinues
    BY <2>5, <1>3, <1>5, <1>6, SureTyped, ActOnWent, FinishWent DEF LoopContinues
  <2>6. CASE LoopActs
    BY <2>6, <1>3, <1>4, <1>5, <1>6, ChoicesTyped, ActOnWent, FinishWent DEF LoopActs
  <2>7. CASE LoopStops
    <3>1. asks' = asks BY <2>7 DEF LoopStops, history
    <3> QED BY <2>7, <1>3, <1>5, <1>6, <3>1, FinishWent DEF LoopStops
  <2> QED BY <2>1, <2>2, <2>3, <2>4, <2>5, <2>6, <2>7 DEF Decide
<1>8. faults' \in 0 .. MaxFaults BY <1>1, <1>3 DEF World
<1>9. pc \in Working BY <1>2 DEF Working
<1> QED BY <1>1, <1>7, <1>8, <1>9, QuietWentKeeps

-----------------------------------------------------------------------------
(* Calling *)

(* What a successful call leaves in memory.                                  *)
LEMMA AfterGoing ==
    ASSUME IInv, pc = "calling"
    PROVE  /\ \A d \in {Before, After} : Going(d) /\ d.turn = conv.turn /\ d.task.wants = task.wants
           /\ task.status # "none" =>
                 After.task.status # "none" /\ After.task.count = task.count + 1
<1>1. Going(conv) /\ Fits(call, conv) BY DEF IInv, Place, Working, Calling
<1>2. call.act \in Actions BY <1>1 DEF Fits, Calls
<1>3. /\ Going(Before) /\ Before.turn = conv.turn /\ Before.task.wants = task.wants
      /\ Before.task.status = "none" <=> task.status = "none"
      /\ task.status # "none" => Before.task.count = task.count + 1
  BY <1>1, <1>2, GoingRecorded DEF Fits, Before, task
<1>4. /\ Going(After) /\ After.turn = Before.turn /\ After.task.wants = Before.task.wants
      /\ After.task.status = Before.task.status /\ After.task.count = Before.task.count
  BY <1>2, <1>3, GoingUpdated DEF After
<1> QED BY <1>3, <1>4

(* The calls that only read and write memory.                                *)
LEMMA ReadsKeep == ASSUME IInv, NewDeckValidated \/ SourceInspected \/ QueryDone PROVE IInv'
<1>1. /\ UNCHANGED <<session, settled, took, messages, world, faults>> /\ confirmed' = confirmed
      /\ pc = "calling" /\ Works
  BY DEF NewDeckValidated, SourceInspected, QueryDone, Works, history, budget
<1>2. /\ Going(conv) /\ asks \in Nat /\ asks < MaxMessages /\ Fits(call, conv) /\ call \in Calls
      /\ call.main.tool = "preview" => DeckLeft
  BY <1>1, AgentAssumption DEF IInv, Place, World, Working, Calling, Fits
<1>3. call.act \in Actions /\ call.main \in Actions BY <1>2 DEF Calls
<1>4. /\ Going(After) /\ After.turn = conv.turn /\ Going(Before) /\ Before.turn = conv.turn
      /\ task.status # "none" => After.task.status # "none" /\ After.task.count = task.count + 1
  BY <1>1, AfterGoing
<1>5. \A s \in Statuses \ {"none"} : Going(WithStatus(After, s)) /\ WithStatus(After, s).turn = conv.turn
  BY <1>4, GoingStatus
<1>6. {"failed", "verify", "complete"} \subseteq Statuses \ {"none"} BY DEF Statuses
<1>7. CASE NewDeckValidated
  <2>1. call.main.to \in Decks BY <1>2, <1>3, <1>7, ActShape DEF NewDeckValidated, Fits
  <2>2. Went
    <3>1. CASE Errors BY <1>5, <1>6, <1>7, <3>1, ContinueWent DEF NewDeckValidated
    <3>2. CASE ~Errors BY <1>2, <1>5, <1>6, <1>7, <2>1, <3>2, OfferWent DEF NewDeckValidated
    <3> QED BY <3>1, <3>2
  <2> QED BY <1>1, <2>2, QuietWentKeeps DEF Working, IInv, World
<1>8. CASE SourceInspected
  <2>1. asks' = asks BY <1>8 DEF SourceInspected, history
  <2>2. Went
    <3>1. CASE Errors
      <4> DEFINE w == WithStatus(After, "failed")
                 c == [w EXCEPT !.task.checked = "errors"]
      <4>1. Going(w) /\ w.turn = conv.turn BY <1>5, <1>6
      <4>2. w.task.status # "none"
        BY <1>2, <1>4, <1>6, <1>8, GoingStatus DEF SourceInspected, Fits, task
      <4>3. Finish(c) BY <1>8, <3>1 DEF SourceInspected
      <4> HIDE DEF w
      <4>4. Going(c) /\ c.turn = conv.turn
        BY <4>1, <4>2 DEF Going, Sound, Conversations, Tasks, Consistent, Loads
      <4> HIDE DEF c
      <4> QED BY <2>1, <4>3, <4>4, FinishWent
    <3>2. CASE ~Errors
      <4>1. /\ conv' = After /\ pc' = "calling"
            /\ call' = MainCall(call.main, call.ask, call.first)
        BY <1>8, <3>2 DEF SourceInspected
      <4>2. call' = [act |-> call.main, main |-> call.main, role |-> "main", ask |-> call.ask,
                     left |-> 0, first |-> call.first]
        BY <4>1 DEF MainCall
      <4>3. /\ call'.act = call.main /\ call'.main = call.main /\ call'.role = "main"
            /\ call'.ask = call.ask
        BY <4>2
      <4>4. call' \in Calls BY <1>2, <1>3, <4>2, AgentAssumption DEF Calls
      <4>5. call.main.tool = "preview" /\ task.status # "none" /\ task.count = 0
        BY <1>2, <1>8 DEF SourceInspected, Fits, task
      <4>6. After.task.count < MaxSteps BY <1>4, <4>5, AgentAssumption
      <4>7. Fits(call', conv') BY <4>1, <4>3, <4>4, <4>6 DEF Fits
      <4>8. "preview" \notin GuardedTools BY DEF GuardedTools
      <4> QED BY <1>2, <1>4, <2>1, <4>1, <4>3, <4>5, <4>7, <4>8 DEF Went
    <3> QED BY <3>1, <3>2
  <2> QED BY <1>1, <2>2, QuietWentKeeps DEF Working, IInv, World
<1>9. CASE QueryDone
  <2>1. asks' = asks BY <1>9 DEF QueryDone, history
  <2>2. call.act.tool = "query" /\ call.act.on \in Decks
    BY <1>3, <1>9, ActShape DEF QueryDone, SourceTools, DeckReads
  <2>3. Went
    <3>1. CASE Continue(After) BY <1>4, <2>1, <3>1, ContinueWent
    <3>2. ASSUME NEW n \in 1 .. MaxChain,
                 Look(Before, [call.act EXCEPT !.to = 1], call.act, "chain", n - 1)
          PROVE  Went
      <4> DEFINE a == [call.act EXCEPT !.to = 1]
      <4>1. MaxChain \in Nat /\ n \in Nat /\ n - 1 \in 0 .. MaxChain BY AgentAssumption
      <4>2. a \in Actions /\ a.tool = "query" /\ a.to = 1
        <5>1. call.act = Act("query", call.act.on, call.act.to) BY <1>3, <2>2 DEF Actions, Act
        <5>2. a = Act("query", call.act.on, 1) BY <5>1 DEF Act
        <5> QED BY <2>2, <4>1, <5>2, ActMade DEF DeckReads
      <4>3. a.to + (n - 1) <= MaxChain BY <4>1, <4>2
      <4>4. Look(Before, a, call.act, "chain", n - 1) BY <3>2
      <4>5. a.tool \in DeckReads BY <4>2 DEF DeckReads
      <4> HIDE DEF a
      <4> QED BY <1>2, <1>3, <1>4, <2>1, <2>2, <4>1, <4>2, <4>3, <4>4, <4>5, LookWent
    <3>3. ASSUME call.role = "chain", call.left # 0,
                 Look(After, [call.act EXCEPT !.to = @ + 1], call.main, "chain", call.left - 1)
          PROVE  Went
      <4> DEFINE a == [call.act EXCEPT !.to = @ + 1]
      <4>1. /\ MaxChain \in Nat /\ call.left \in Nat /\ call.act.to \in Nat
            /\ call.left - 1 \in 0 .. MaxChain /\ call.act.to + call.left <= MaxChain
        BY <1>2, <1>3, <3>3, ActShape, AgentAssumption DEF Calls, Fits
      <4>2. a \in Actions /\ a.tool = "query" /\ a.to = call.act.to + 1
        <5>1. call.act = Act("query", call.act.on, call.act.to) BY <1>3, <2>2 DEF Actions, Act
        <5>2. a = Act("query", call.act.on, call.act.to + 1) BY <5>1 DEF Act
        <5>3. call.act.to + 1 \in 0 .. MaxChain BY <3>3, <4>1
        <5> QED BY <2>2, <5>2, <5>3, ActMade DEF DeckReads
      <4>3. a.to + (call.left - 1) <= MaxChain BY <4>1, <4>2
      <4>4. call.main.tool = "query" BY <1>2, <3>3 DEF Fits
      <4> HIDE DEF a
      <4> QED BY <1>2, <1>3, <1>4, <2>1, <3>3, <4>1, <4>2, <4>3, <4>4, LookWent DEF DeckReads, a
    <3> QED BY <1>9, <3>1, <3>2, <3>3 DEF QueryDone
  <2> QED BY <1>1, <2>3, QuietWentKeeps DEF Working, IInv, World
<1> QED BY <1>7, <1>8, <1>9

(* The calls that write to the disk. A guarded one answers the question on   *)
(* disk, if that is the same, so its effect is what that question asked for. *)
LEMMA EffectGrows ==
    ASSUME IInv, Works, TakesEffect(call.act), UNCHANGED <<session, settled, messages>>
    PROVE  /\ Grows
           /\ 1 \in decks' /\ decks' \subseteq Decks /\ clean' \subseteq decks' /\ plans' \subseteq Plans
           /\ runs' \in [Runs -> {"none", "running", "good", "bad", "lost"}]
           /\ call.act.tool # "apply" => decks' = decks
<1> DEFINE a == call.act
<1>1. /\ Fits(call, conv) /\ call \in Calls /\ a \in Actions /\ World
      /\ a.tool \in GuardedTools => Authorised
      /\ call.ask <= asks /\ call.ask \in Nat /\ asks \in Nat
  BY AgentAssumption DEF IInv, Works, Calling, Fits, Calls, World
<1>2. /\ plans' = IF a.tool = "preview" THEN plans \cup {a.to} ELSE plans
      /\ decks' = IF a.tool = "apply" THEN decks \cup {a.to} ELSE decks
      /\ clean' \in IF a.tool = "apply" THEN {clean, clean \cup {a.to}} ELSE {clean}
      /\ runs' = IF a.tool = "run" THEN [runs EXCEPT ![a.to] = "running"] ELSE runs
      /\ took' = IF a.tool \in {"apply", "run"} THEN took \cup {call.ask} ELSE took
  BY DEF TakesEffect
<1>3. a.tool = "preview" => a.to \in Plans BY <1>1, ActShape
<1>4. a.tool = "apply" => a.to \in Decks BY <1>1, ActShape
<1>5. a.tool = "run" => a.to \in Runs BY <1>1, ActShape
<1> HIDE DEF a
<1>6. 1 \in decks' /\ decks' \subseteq Decks /\ decks \subseteq decks' BY <1>1, <1>2, <1>4 DEF World
<1>7. clean' \subseteq decks' BY <1>1, <1>2 DEF World
<1>8. plans' \subseteq Plans BY <1>1, <1>2, <1>3 DEF World
<1>9. /\ runs' \in [Runs -> {"none", "running", "good", "bad", "lost"}]
      /\ \A r \in Runs : runs[r] # "none" => runs'[r] # "none"
  BY <1>1, <1>2, <1>5 DEF World
<1>10. took' \subseteq 1 .. asks
  <2>1. a.tool \in {"apply", "run"} => call.ask \in 1 .. asks
    BY <1>1 DEF GuardedTools, Authorised
  <2>2. took \subseteq 1 .. asks BY <1>1 DEF World
  <2> QED BY <1>2, <2>1, <2>2
<1>11. ASSUME NEW k \in took', k \notin took, k = session.pending.ask
       PROVE  Taken(session.pending.act)'
  <2>1. a.tool \in {"apply", "run"} /\ k = call.ask BY <1>2, <1>11
  <2>2. session.pending.act = a
    BY <1>1, <1>11, <2>1 DEF GuardedTools, Authorised, SameQuestion, a
  <2>3. session.pending.act' = a BY <2>2
  <2>4. CASE a.tool = "apply" BY <1>2, <2>3, <2>4 DEF Taken
  <2>5. CASE a.tool = "run"
    <3>1. runs'[a.to] = "running" BY <1>1, <1>2, <1>5, <2>5 DEF World
    <3> QED BY <2>3, <2>5, <3>1 DEF Taken
  <2> QED BY <2>1, <2>4, <2>5
<1>12. Grows BY <1>6, <1>9, <1>10, <1>11 DEF Grows
<1> QED BY <1>2, <1>6, <1>7, <1>8, <1>9, <1>12 DEF a

LEMMA EffectEnds ==
    ASSUME IInv, pc = "calling", Went, Grows, faults' = faults, confirmed' \in {0, confirmed},
           1 \in decks', decks' \subseteq Decks, clean' \subseteq decks', plans' \subseteq Plans,
           runs' \in [Runs -> {"none", "running", "good", "bad", "lost"}],
           decks' = decks \/ (pc' = "calling" => call'.main.tool # "preview")
    PROVE  IInv'
<1> USE DEF IInv
<1>1. asks' \in {asks, asks + 1} BY DEF Went
<1>2. asks \in Nat /\ messages \in Nat /\ asks < messages /\ pc \in Working
  BY AgentAssumption DEF World, Place, Working
<1>3. asks' \in 0 .. messages' /\ confirmed' \in 0 .. asks' BY <1>1, <1>2 DEF World, Grows
<1>4. settled' \subseteq 1 .. asks' /\ took' \subseteq 1 .. asks' BY <1>1, <1>2 DEF World, Grows
<1>5. World' BY <1>3, <1>4 DEF World, Grows
<1> QED BY <1>2, <1>5, WentKeeps

LEMMA EffectKeeps == ASSUME IInv, PreviewDone \/ ApplyDone \/ PlainDone PROVE IInv'
<1>1. /\ UNCHANGED <<session, settled, messages, faults>> /\ Works /\ TakesEffect(call.act)
      /\ pc = "calling" /\ confirmed' \in {0, confirmed}
  BY DEF PreviewDone, ApplyDone, PlainDone, CallMade, Works, budget
<1>2. /\ Going(conv) /\ asks \in Nat /\ asks < MaxMessages /\ asks < messages /\ messages \in Nat
      /\ Fits(call, conv) /\ call \in Calls /\ World
      /\ call.main.tool = "preview" => DeckLeft
  BY <1>1, AgentAssumption DEF IInv, Place, World, Working, Calling, Fits
<1>3. call.act \in Actions /\ call.main \in Actions BY <1>2 DEF Calls
<1>4. Going(After) /\ After.turn = conv.turn BY <1>1, AfterGoing
<1>5. /\ Grows
      /\ 1 \in decks' /\ decks' \subseteq Decks /\ clean' \subseteq decks' /\ plans' \subseteq Plans
      /\ runs' \in [Runs -> {"none", "running", "good", "bad", "lost"}]
      /\ call.act.tool # "apply" => decks' = decks
  BY <1>1, EffectGrows
<1>6. CASE PreviewDone
  <2>1. DeckLeft /\ call.act.to \in Plans
    BY <1>2, <1>3, <1>6, ActShape DEF PreviewDone, Fits, DeckReads
  <2>2. /\ Act("apply", call.act.to, FreeDeck) \in Actions
        /\ Act("apply", call.act.to, FreeDeck).tool \in GuardedTools
    BY <2>1, FreeDeckIsFree, ActMade DEF GuardedTools
  <2>3. Went BY <1>2, <1>4, <1>6, <2>2, QuestionWent DEF PreviewDone
  <2>4. decks' = decks BY <1>5, <1>6 DEF PreviewDone
  <2> QED BY <1>1, <1>2, <1>5, <2>3, <2>4, EffectEnds
<1>7. CASE ApplyDone
  <2>1. call.act.tool = "apply" /\ call.act.to \in Decks BY <1>3, <1>7, ActShape DEF ApplyDone
  <2>2. Act("validate", call.act.to, 0) \in Actions /\ Act("validate", call.act.to, 0).tool = "validate"
    BY <2>1, ActMade, AgentAssumption DEF DeckReads
  <2>3. CASE "validate" \in task.wants
    <3>1. Look(After, Act("validate", call.act.to, 0), call.act, "after", 0) /\ asks' = asks
      BY <1>7, <2>3 DEF ApplyDone
    <3>2. 0 \in 0 .. MaxChain BY AgentAssumption
    <3>3. Went BY <1>2, <1>3, <1>4, <2>1, <2>2, <3>1, <3>2, LookWent DEF DeckReads
    <3>4. pc' = "calling" => call'.main.tool # "preview"
      BY <1>2, <2>1, <3>1 DEF Look, Finish, ReadCall, Calls
    <3> QED BY <1>1, <1>2, <1>5, <3>3, <3>4, EffectEnds
  <2>4. CASE "validate" \notin task.wants
    <3>1. Offer(After, call.act.to) BY <1>7, <2>4 DEF ApplyDone
    <3>2. Went BY <1>2, <1>4, <2>1, <3>1, OfferWent
    <3>3. pc' # "calling" BY <3>1 DEF Offer, Continue, Finish
    <3> QED BY <1>1, <1>2, <1>5, <3>2, <3>3, EffectEnds
  <2> QED BY <2>3, <2>4
<1>8. CASE PlainDone
  <2>1. asks' = asks /\ Continue(After) BY <1>8 DEF PlainDone
  <2>2. Went BY <1>4, <2>1, ContinueWent
  <2>3. decks' = decks BY <1>5, <1>8 DEF PlainDone
  <2> QED BY <1>1, <1>2, <1>5, <2>2, <2>3, EffectEnds
<1> QED BY <1>6, <1>7, <1>8

LEMMA FailureKeeps == ASSUME IInv, CallFails PROVE IInv'
<1>1. /\ UNCHANGED <<session, settled, took, messages, world, asks>>
      /\ pc = "calling" /\ confirmed' \in {0, confirmed}
  BY DEF CallFails, CallMade
<1>2. Going(conv) /\ call.act \in Actions /\ World
  BY <1>1 DEF IInv, Place, Working, Calling, Fits, Calls
<1>3. faults' \in 0 .. MaxFaults BY <1>2, AgentAssumption DEF CallFails, World
<1>4. Finish(Failed(conv, call.act)) BY DEF CallFails
<1>5. Went BY <1>1, <1>2, <1>4, GoingFailed, FinishWent
<1> QED BY <1>1, <1>3, <1>5, QuietWentKeeps DEF Working

-----------------------------------------------------------------------------
(* The user, and the end of a turn *)

(* A step that leaves the disk, the questions and the saved session alone.   *)
LEMMA UserKeeps == ASSUME IInv, User PROVE IInv'
<1> USE DEF IInv
<1>1. /\ UNCHANGED <<session, world, settled, took, faults>>
      /\ pc = "ready" /\ messages < MaxMessages /\ messages' = messages + 1
      /\ asks' = asks /\ call = NoCall
  BY DEF User, SayObjective, SayMore, SayText, Confirm, Cancel, CanSay, history, Calling
<1>2. /\ asks \in Nat /\ messages \in Nat /\ asks <= messages /\ MaxMessages \in Nat
      /\ settled \subseteq 1 .. asks /\ took \subseteq 1 .. asks
      /\ Sound(conv) /\ Asked(conv) /\ conv \in Conversations
  BY AgentAssumption DEF World, Memory, Sound
<1>3. UNCHANGED <<decks, clean, plans, runs>> BY <1>1 DEF world
<1>4. conv.pending \in Pendings /\ conv.pending.act \in Actions \cup {Nothing} /\ conv.turn \in Nat
  BY <1>2 DEF Conversations, Pendings
<1>5. confirmed' \in 0 .. asks
  <2>1. conv.pending.ask \in 0 .. asks BY <1>2, <1>4 DEF Asked, Pendings
  <2>2. confirmed \in 0 .. asks BY DEF World
  <2>3. confirmed' \in {confirmed, conv.pending.ask}
    BY DEF User, SayObjective, SayMore, SayText, Confirm, Cancel, history
  <2> QED BY <2>1, <2>2, <2>3
<1>6. World' BY <1>1, <1>2, <1>3, <1>5 DEF World
<1>7. Sound(session)' /\ Asked(session)'
  BY <1>1, <1>2, <1>3 DEF Memory, Asked, Sound, Conversations, Taken
<1>8. NoPending.ask = 0 /\ NoPending.act = Nothing /\ 0 \notin settled /\ 0 \notin took
  BY <1>2 DEF NoPending
<1>9. NoPending \in Pendings BY <1>2, AgentAssumption DEF NoPending, Pendings
<1> DEFINE quiet == [conv EXCEPT !.pending = NoPending]
<1>10. /\ Sound(quiet) /\ quiet.pending = NoPending /\ quiet.turn = conv.turn /\ quiet.task = conv.task
  <2>1. quiet \in Conversations BY <1>2, <1>9 DEF Conversations
  <2>2. quiet.pending = NoPending /\ quiet.turn = conv.turn /\ quiet.task = conv.task
    BY <1>2 DEF Conversations
  <2>3. Nothing.tool = "nothing" BY DEF Nothing, Act
  <2> HIDE DEF quiet
  <2> QED BY <1>2, <1>8, <2>1, <2>2, <2>3 DEF Sound, Loads
<1>11. ASSUME NEW c, Sound(c), c.pending = NoPending, c.turn <= messages + 1, conv' = c, pc' # "replying"
       PROVE  Memory'
  <2>1. Asked(conv)' BY <1>1, <1>2, <1>8, <1>11 DEF Asked
  <2>2. SameQuestion(conv.pending, session.pending)' BY <1>8, <1>11 DEF SameQuestion
  <2> QED BY <1>7, <1>11, <2>1, <2>2 DEF Memory
<1>12. ASSUME NEW t \in Tasks, Consistent(t), t.count <= MaxSteps, SayText(t) PROVE IInv'
  <2> DEFINE c == [conv EXCEPT !.turn = @ + 1, !.pending = NoPending, !.task = t]
  <2>1. conv' = c /\ pc' = "deciding" /\ call' = NoCall BY <1>1, <1>12 DEF SayText
  <2>2. conv.turn + 1 \in 0 .. MaxMessages /\ conv.turn + 1 <= messages + 1
    BY <1>1, <1>2, <1>4 DEF Asked
  <2>3. c \in Conversations BY <1>2, <1>9, <1>12, <2>2 DEF Conversations
  <2>4. c.turn = conv.turn + 1 /\ c.pending = NoPending /\ c.task = t BY <1>2 DEF Conversations
  <2>5. Nothing.tool = "nothing" BY DEF Nothing, Act
  <2> HIDE DEF c
  <2>6. Sound(c) BY <1>8, <1>12, <2>3, <2>4, <2>5 DEF Sound, Loads
  <2>7. Going(c) BY <1>4, <2>4, <2>6 DEF Going
  <2>8. Memory' BY <2>1, <2>2, <2>4, <2>6, <1>11
  <2>9. Place' BY <1>1, <1>2, <2>1, <2>7 DEF Place, Working
  <2>10. Calling' BY <2>1 DEF Calling
  <2> QED BY <1>6, <2>8, <2>9, <2>10
<1>13. CASE SayObjective
  <2>1. PICK wants \in Objectives : \E source \in decks : SayText(NewTask(wants, source))
    BY <1>13 DEF SayObjective
  <2>2. PICK source \in decks : SayText(NewTask(wants, source)) BY <2>1
  <2>3. source \in Decks /\ source \in 0 .. MaxDecks BY AgentAssumption DEF World, Decks
  <2>4. wants \in SUBSET Outcomes BY AgentAssumption
  <2>5. NoTask \in Tasks /\ NoTask.count = 0
    BY AgentAssumption DEF NoTask, Tasks, Statuses
  <2>6. NewTask(wants, source) \in Tasks
    BY <2>3, <2>4, <2>5 DEF NewTask, Tasks, Statuses
  <2>7. /\ Consistent(NewTask(wants, source)) /\ NewTask(wants, source).count <= MaxSteps
    BY <2>3, <2>5, AgentAssumption DEF Consistent, NewTask, Tasks
  <2> QED BY <1>12, <2>2, <2>6, <2>7
<1>14. CASE SayMore
  <2>1. task \in Tasks /\ Consistent(task) /\ task.count <= MaxSteps
    BY <1>2 DEF Sound, Loads, Conversations, task
  <2> QED BY <1>12, <1>14, <2>1 DEF SayMore
<1>15. CASE Confirm
  <2>1. CASE conv.pending = NoPending
    <3>1. conv' = conv /\ pc' = "saving" /\ call' = NoCall BY <1>15, <2>1 DEF Confirm, Finish
    <3>2. Memory'
      <4>1. conv.turn <= messages + 1 BY <1>2, <1>4 DEF Asked
      <4> QED BY <1>2, <1>11, <2>1, <3>1, <4>1
    <3>3. Place' /\ Calling' BY <3>1 DEF Place, Working, Calling
    <3> QED BY <1>6, <3>2, <3>3
  <2>2. CASE conv.pending # NoPending
    <3> DEFINE a == conv.pending.act
               k == conv.pending.ask
    <3>1. Execute(quiet, a, k, TRUE) /\ confirmed' = k BY <1>15, <2>2 DEF Confirm
    <3>2. k # 0 /\ a # Nothing
      <4>1. conv.pending = [act |-> a, ask |-> k] BY <1>4 DEF Pendings
      <4>2. k = 0 <=> a = Nothing BY <1>2 DEF Sound
      <4> QED BY <2>2, <4>1, <4>2 DEF NoPending
    <3>3. a \in Actions /\ a.tool \in GuardedTools
      BY <1>2, <1>4, <3>2, ActShape DEF Sound, Loads, AllTools
    <3>4. a.tool # "preview" BY <3>3 DEF GuardedTools
    <3>5. Going(quiet) BY <1>2, <1>10, <2>2 DEF Going, Sound
    <3>6. k \in Nat /\ k <= asks /\ k <= MaxMessages /\ k \notin settled /\ (k \in took => Taken(a))
      BY <1>2, <1>4 DEF Asked, Pendings
    <3>7. SameQuestion(session.pending, conv.pending) BY DEF Memory, SameQuestion
    <3> HIDE DEF quiet
    <3>8. CASE Refused(quiet.task, a)
      <4>1. Finish(WithStatus(quiet, "failed")) BY <3>1, <3>4, <3>8 DEF Execute
      <4>2. Going(WithStatus(quiet, "failed")) /\ WithStatus(quiet, "failed").turn = quiet.turn
        BY <3>5, GoingStatus DEF Statuses
      <4>3. conv' = WithStatus(quiet, "failed") /\ pc' = "saving" /\ call' = NoCall
        BY <4>1 DEF Finish
      <4>4. Memory'
        <5>1. WithStatus(quiet, "failed").turn <= messages + 1
          BY <1>2, <1>4, <1>10, <4>2 DEF Asked
        <5> QED BY <1>11, <4>2, <4>3, <5>1 DEF Going
      <4>5. Place' /\ Calling' BY <4>3 DEF Place, Working, Calling
      <4> QED BY <1>6, <4>4, <4>5
    <3>9. CASE ~Refused(quiet.task, a)
      <4>1. conv' = quiet /\ pc' = "calling" /\ call' = MainCall(a, k, TRUE)
        BY <3>1, <3>4, <3>9 DEF Execute
      <4>2. call' = [act |-> a, main |-> a, role |-> "main", ask |-> k, left |-> 0, first |-> TRUE]
        BY <4>1 DEF MainCall
      <4>3. call' \in Calls BY <1>2, <3>3, <3>6, <4>2, AgentAssumption DEF Calls
      <4>4. call'.act = a /\ call'.main = a /\ call'.role = "main" /\ call'.ask = k BY <4>2
      <4>5. quiet.task.status # "none" => quiet.task.count < MaxSteps
        <5>1. quiet.task.count \in Nat BY <3>5 DEF Going, Sound, Conversations, Tasks
        <5> QED BY <3>9, <5>1, AgentAssumption DEF Refused
      <4>6. Fits(call', conv') BY <4>1, <4>3, <4>4, <4>5 DEF Fits
      <4>7. Memory'
        <5>1. quiet.turn <= messages + 1 BY <1>2, <1>4, <1>10 DEF Asked
        <5> QED BY <1>10, <1>11, <4>1, <5>1
      <4>8. Place' BY <1>1, <1>2, <3>5, <4>1 DEF Place, Working
      <4>9. Authorised'
        <5>1. SameQuestion(session.pending, call)'
          BY <1>1, <3>7, <4>4 DEF SameQuestion
        <5>2. call'.ask \in took' => Taken(call.act)' BY <1>1, <1>3, <3>6, <4>4 DEF Taken
        <5> QED BY <3>1, <3>2, <4>4, <5>1, <5>2 DEF Authorised
      <4>10. Calling'
        <5>1. call'.ask <= asks' /\ call'.ask \notin settled' BY <1>1, <3>6, <4>4
        <5>2. call'.main.tool # "preview" BY <3>4, <4>4
        <5> QED BY <4>1, <4>6, <4>9, <5>1, <5>2 DEF Calling
      <4> QED BY <1>6, <4>7, <4>8, <4>10
    <3> QED BY <3>8, <3>9
  <2> QED BY <2>1, <2>2
<1>16. CASE Cancel
  <2>1. PICK c \in {conv, [WithStatus(conv, "blocked") EXCEPT !.pending = NoPending]} :
           /\ Finish(c)
           /\ \/ c = conv /\ conv.pending = NoPending
              \/ c = [WithStatus(conv, "blocked") EXCEPT !.pending = NoPending]
    BY <1>16 DEF Cancel
  <2>2. Sound(c) /\ c.pending = NoPending /\ c.turn = conv.turn
    <3>1. CASE c = conv /\ conv.pending = NoPending BY <1>2, <3>1
    <3>2. CASE c = [WithStatus(conv, "blocked") EXCEPT !.pending = NoPending]
      <4>1. /\ c \in Conversations /\ c.pending = NoPending /\ c.turn = conv.turn
            /\ c.task.count = conv.task.count /\ Consistent(c.task)
        BY <1>2, <1>9, <3>2 DEF WithStatus, Conversations, Tasks, Statuses, Sound, Consistent
      <4>2. Nothing.tool = "nothing" BY DEF Nothing, Act
      <4> QED BY <1>2, <1>8, <4>1, <4>2 DEF Sound, Loads
    <3> QED BY <2>1, <3>1, <3>2
  <2>3. conv' = c /\ pc' = "saving" /\ call' = NoCall BY <2>1 DEF Finish
  <2>4. Memory'
    <3>1. c.turn <= messages + 1 BY <1>2, <1>4, <2>2 DEF Asked
    <3> QED BY <1>11, <2>2, <2>3, <3>1
  <2>5. Place' /\ Calling' BY <2>3 DEF Place, Working, Calling
  <2> QED BY <1>6, <2>4, <2>5
<1> QED BY <1>13, <1>14, <1>15, <1>16 DEF User

LEMMA EndKeeps == ASSUME IInv, EndOfTurn \/ Crash \/ Resume \/ RunEnds PROVE IInv'
<1> USE DEF IInv
<1>1. /\ asks \in Nat /\ messages \in Nat /\ asks <= messages /\ MaxMessages \in Nat
      /\ settled \subseteq 1 .. asks /\ took \subseteq 1 .. asks
      /\ Sound(conv) /\ Asked(conv) /\ Sound(session) /\ Asked(session)
      /\ runs \in [Runs -> {"none", "running", "good", "bad", "lost"}]
  BY AgentAssumption DEF World, Memory
<1>2. /\ conv.pending.ask \in Nat /\ session.pending.ask \in Nat
      /\ session.pending.act \in Actions \cup {Nothing}
      /\ conv.pending.act \in Actions \cup {Nothing}
  BY <1>1 DEF Sound, Conversations, Pendings
<1>3. CASE SaveSession
  <2>1. /\ session' = conv /\ pc' = "replying" /\ confirmed' = 0 /\ pc = "saving"
        /\ UNCHANGED <<conv, call, decks, clean, plans, runs, asks, settled, took, messages, faults>>
    BY <1>3 DEF SaveSession, world, budget
  <2>2. World' BY <1>1, <2>1 DEF World
  <2>3. Asked(conv)' /\ Asked(session)' BY <1>1, <2>1 DEF Asked, Taken
  <2>4. Memory' BY <1>1, <2>1, <2>3 DEF Memory, SameQuestion
  <2>5. Place' /\ Calling' BY <2>1 DEF Place, Working, Calling
  <2> QED BY <2>2, <2>4, <2>5
<1>4. CASE SaveFails
  <2>1. /\ pc' = "ready" /\ confirmed' = 0 /\ pc = "saving" /\ faults' = faults + 1 /\ faults < MaxFaults
        /\ UNCHANGED <<conv, session, call, decks, clean, plans, runs, asks, settled, took, messages>>
    BY <1>4 DEF SaveFails, world
  <2>2. World' BY <1>1, <2>1, AgentAssumption DEF World
  <2>3. Asked(conv)' /\ Asked(session)' BY <1>1, <2>1 DEF Asked, Taken
  <2>4. Memory' BY <1>1, <2>1, <2>3 DEF Memory, SameQuestion
  <2>5. Place' /\ Calling' BY <2>1 DEF Place, Working, Calling
  <2> QED BY <2>2, <2>4, <2>5
<1>5. CASE Reply
  <2>1. /\ pc' = "ready" /\ pc = "replying" /\ settled' = (1 .. asks) \ {conv.pending.ask}
        /\ UNCHANGED <<conv, session, call, decks, clean, plans, runs, asks, confirmed, took,
                       messages, faults>>
    BY <1>5 DEF Reply, world, budget
  <2>2. session = conv BY <2>1 DEF Memory
  <2>3. World' BY <1>1, <2>1 DEF World
  <2>4. Asked(conv)' /\ Asked(session)' BY <1>1, <2>1, <2>2 DEF Asked, Taken
  <2>5. Memory' BY <1>1, <2>1, <2>4 DEF Memory, SameQuestion
  <2>6. Place' /\ Calling' BY <2>1 DEF Place, Working, Calling
  <2> QED BY <2>3, <2>5, <2>6
<1>6. CASE Crash
  <2>1. /\ pc' = "down" /\ conv' = FreshConversation /\ call' = NoCall /\ confirmed' = 0
        /\ runs' = [r \in Runs |-> IF runs[r] = "running" THEN "lost" ELSE runs[r]]
        /\ faults' = faults + 1 /\ faults < MaxFaults
        /\ UNCHANGED <<session, decks, clean, plans, asks, settled, took, messages>>
    BY <1>6 DEF Crash
  <2>2. /\ runs' \in [Runs -> {"none", "running", "good", "bad", "lost"}]
        /\ \A r \in Runs : runs[r] # "none" => runs'[r] # "none"
    BY <1>1, <2>1
  <2>3. World' BY <1>1, <2>1, <2>2, AgentAssumption DEF World
  <2>4. Grows BY <1>1, <2>1, <2>2 DEF Grows
  <2>5. Asked(session)'
    <3>1. session.pending.ask \in took => Taken(session.pending.act)'
      BY <1>1, <1>2, <2>1, <2>4, TakenKept DEF Asked, Taken
    <3> QED BY <1>1, <2>1, <3>1 DEF Asked, Taken
  <2>6. Sound(FreshConversation) /\ FreshConversation.pending = NoPending /\ FreshConversation.turn = 0
    BY FreshSound
  <2>7. NoPending.ask = 0 BY DEF NoPending
  <2>8. Memory' BY <1>1, <2>1, <2>5, <2>6, <2>7 DEF Memory, Asked, SameQuestion
  <2>9. Place' /\ Calling' BY <2>1 DEF Place, Working, Calling
  <2> QED BY <2>3, <2>8, <2>9
<1>7. CASE Resume
  <2>1. /\ conv' = session /\ pc' = "ready" /\ pc = "down"
        /\ UNCHANGED <<session, call, decks, clean, plans, runs, asks, settled, confirmed, took,
                       messages, faults>>
    BY <1>7 DEF Resume, world, history, budget
  <2>2. World' BY <2>1 DEF World
  <2>3. Asked(conv)' /\ Asked(session)' BY <1>1, <2>1 DEF Asked, Taken
  <2>4. Memory' BY <1>1, <2>1, <2>3 DEF Memory, SameQuestion
  <2>5. Place' /\ Calling' BY <2>1 DEF Place, Working, Calling
  <2> QED BY <2>2, <2>4, <2>5
<1>8. CASE RunEnds
  <2>1. PICK r \in Runs, verdict \in {"good", "bad"} :
           runs[r] = "running" /\ runs' = [runs EXCEPT ![r] = verdict]
    BY <1>8 DEF RunEnds
  <2>2. UNCHANGED <<conv, session, pc, call, decks, clean, plans, asks, settled, confirmed, took,
                    messages, faults>>
    BY <1>8 DEF RunEnds, history, budget
  <2>3. /\ runs' \in [Runs -> {"none", "running", "good", "bad", "lost"}]
        /\ \A s \in Runs : runs[s] # "none" => runs'[s] # "none"
    BY <1>1, <2>1
  <2>4. World' BY <2>2, <2>3 DEF World
  <2>5. Grows BY <1>1, <2>2, <2>3 DEF Grows
  <2>6. \A a \in Actions \cup {Nothing} :
           Taken(a) => /\ a.tool = "apply" => a.to \in decks'
                       /\ a.tool = "run" => runs'[a.to] # "none"
    BY <2>5, TakenKept
  <2>7. Asked(conv)' /\ Asked(session)'
    <3>1. conv.pending.ask \in took => Taken(conv.pending.act)'
      BY <1>1, <1>2, <2>2, <2>6 DEF Asked, Taken
    <3>2. session.pending.ask \in took => Taken(session.pending.act)'
      BY <1>1, <1>2, <2>2, <2>6 DEF Asked, Taken
    <3> QED BY <1>1, <2>2, <3>1, <3>2 DEF Asked, Taken
  <2>8. Memory' BY <1>1, <2>2, <2>7 DEF Memory, SameQuestion
  <2>9. Place' BY <2>2 DEF Place
  <2>10. Calling'
    <3>1. CASE pc # "calling" BY <2>2, <3>1 DEF Calling
    <3>2. CASE pc = "calling"
      <4>1. Fits(call, conv) /\ call.act \in Actions BY <3>2 DEF Calling, Fits, Calls
      <4>2. call.act.tool \in GuardedTools => Authorised'
        <5>1. call.ask \in took => (call.act.tool \in GuardedTools => Taken(call.act)')
          BY <2>2, <2>6, <3>2, <4>1 DEF Calling, Authorised, Taken
        <5>2. call.act.tool \in GuardedTools => Authorised BY <3>2 DEF Calling
        <5> QED BY <2>2, <5>1, <5>2 DEF Authorised, Taken, SameQuestion
      <4> QED BY <2>2, <3>2, <4>1, <4>2 DEF Calling, DeckLeft
    <3> QED BY <3>1, <3>2
  <2> QED BY <2>4, <2>8, <2>9, <2>10
<1> QED BY <1>3, <1>4, <1>5, <1>6, <1>7, <1>8 DEF EndOfTurn

LEMMA InvStep == IInv /\ [Next]_vars => IInv'
<1> SUFFICES ASSUME IInv, [Next]_vars PROVE IInv' OBVIOUS
<1>1. CASE User BY <1>1, UserKeeps
<1>2. CASE Agent
  BY <1>2, DecideKeeps, ReadsKeep, EffectKeeps, FailureKeeps, EndKeeps DEF Agent, Complete
<1>3. CASE RunEnds \/ Crash \/ Resume BY <1>3, EndKeeps
<1>4. CASE UNCHANGED vars
  <2>1. UNCHANGED <<conv, session, pc, call, decks, clean, plans, runs, asks, settled, confirmed,
                    took, messages, faults>>
    BY <1>4 DEF vars, world, history, budget
  <2> QED BY <2>1 DEF IInv, World, Memory, Asked, Taken, SameQuestion, Place, Calling, DeckLeft,
                      Authorised
<1> QED BY <1>1, <1>2, <1>3, <1>4 DEF Next

LEMMA Invariant == Spec => []IInv
BY InvInit, InvStep, PTL DEF Spec

-----------------------------------------------------------------------------
(* What the process promises *)

(* Every variable holds a value that the code can give it; a question and    *)
(* its number come and go together, in memory and on disk.                   *)
THEOREM TypeCorrect == Spec => []TypeOK
<1>1. IInv => TypeOK
  <2> SUFFICES ASSUME IInv PROVE TypeOK OBVIOUS
  <2> USE DEF IInv
  <2>1. asks \in 0 .. MaxMessages /\ messages \in 0 .. MaxMessages
    BY AgentAssumption DEF World
  <2>2. \A c \in {conv, session} : c \in Conversations /\ (c.pending.ask = 0 <=> c.pending.act = Nothing)
    BY DEF Memory, Sound
  <2>3. call \in [act : Actions \cup {Nothing}, main : Actions \cup {Nothing},
                  role : {"none", "main", "before", "chain", "after"}, ask : 0 .. MaxMessages,
                  left : 0 .. MaxChain, first : BOOLEAN]
        /\ (pc = "calling" <=> call.role # "none")
    <3>1. CASE pc = "calling" BY <3>1 DEF Calling, Fits, Calls
    <3>2. CASE pc # "calling"
      <4>1. call = [act |-> Nothing, main |-> Nothing, role |-> "none", ask |-> 0, left |-> 0,
                    first |-> FALSE]
        BY <3>2 DEF Calling, NoCall
      <4> QED BY <3>2, <4>1, AgentAssumption
    <3> QED BY <3>1, <3>2
  <2>4. pc \in {"ready", "deciding", "looping", "calling", "saving", "replying", "down"}
    BY DEF Place, Working
  <2> QED BY <2>1, <2>2, <2>3, <2>4 DEF TypeOK, World
<1> QED BY <1>1, Invariant, PTL

(* The session file, and what is in memory between turns, can always be      *)
(* loaded again: no read nested in a call takes a task past its step bound,  *)
(* and only guarded actions wait for a confirmation.                         *)
THEOREM SessionsLoad == Spec => []SessionLoads
<1>1. IInv => SessionLoads BY DEF IInv, Memory, Sound, SessionLoads
<1> QED BY <1>1, Invariant, PTL

(* No decision of the model, in no turn, makes a guarded call that the user  *)
(* has not confirmed in this very turn.                                      *)
THEOREM GuardedCallsConfirmed == Spec => []GuardedOnlyConfirmed
<1>1. IInv => GuardedOnlyConfirmed BY DEF IInv, Calling, Authorised, GuardedOnlyConfirmed
<1> QED BY <1>1, Invariant, PTL

(* What the user was told is over is never armed or carried out again,       *)
(* although crashes bring back older conversations.                          *)
THEOREM SettledIsOver == Spec => []SettledStaysSettled
<1>1. IInv => SettledStaysSettled
  <2> SUFFICES ASSUME IInv PROVE SettledStaysSettled OBVIOUS
  <2>1. NoCall.ask \notin settled BY AgentAssumption DEF NoCall, IInv, World
  <2> QED BY <2>1 DEF IInv, Memory, Asked, Calling, SettledStaysSettled
<1> QED BY <1>1, Invariant, PTL

(* An armed action of a task is one whose question the task's status shows.  *)
THEOREM ArmedIsAsked == Spec => []ArmedMeansAsked
<1>1. IInv => ArmedMeansAsked BY DEF IInv, Memory, Sound, ArmedMeansAsked, HasTask, task
<1> QED BY <1>1, Invariant, PTL

(* One confirmation never makes two decks or starts two runs, whatever was   *)
(* lost between the call and the save.                                       *)
THEOREM OneEffectPerQuestion == Spec => []EffectOnce
<1>1. IInv => EffectOnce
  BY DEF IInv, Calling, Authorised, Taken, EffectOnce, Possible, GuardedTools, DeckReads, RunReads
<1> QED BY <1>1, Invariant, PTL
=============================================================================
