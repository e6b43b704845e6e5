# A verification project for bsam-agent

bsam-agent lets a person inspect, change and run decks of the BSAM finite-element solver through
a command line, a local HTTP service, a chat, and a VS Code extension. This directory holds TLA+
modules of its parts, TLC configurations that check them on small instances, and theorems that
TLAPS proves about them. Source paths below are relative to `src/` of the repository; `run.py`
and so on stand for `src/bsam_agent/run.py`, `chatPanel.ts` for `clients/vscode/src/chatPanel.ts`.

`PROJECT.json` is the index: for every definition the lines it models (`map`), the runs, a mutant
for every property, the hazards with the properties that cover them, the findings, the theorems.

## 1. Inventory

Every component of the repository, the state it keeps, what can be hard about it, and what makes
it correct. The last column says where it is modelled.

| Component | State | Operations | Hard behaviour | Correct when | Module |
|---|---|---|---|---|---|
| Run supervisor, `run.py` | one directory per run: manifest, stop request, control file; the solver process | `run_bsam`, `request_run_stop`, `run_status` | competing commands and a solver on shared files, timeout against user stop against natural end, kills between two steps, files held open | one owner, truthful terminal manifest, one immutable stop request, every stop ends the run | `RunLifecycle`, `RunSupervisor` |
| Run jobs of the service, `api.py` | `_jobs`, a worker and delivery threads per run | `run_bsam`, `stop_run`, `get_run_status` requests | a thread per request, a job seen half-made, a stop before the manifest, restart of the service | one job per directory, answers that stay true, stops that arrive | `ApiRuns` |
| Output of changes, `change.py`, and of generation, `generation.py` | source set, output decks, audit or manifest | `apply_plan`, `generate_deck` | overlapping destinations, edits between plan and application, failure in the middle of a copy, rollback | what reported success is whole and stays, a failure leaves nothing | `SourceWrites` |
| Agent orchestrator, `orchestrator.py`, `chat.py` | conversation and task in memory, session file, audit log | `turn`, `/confirm`, `/cancel`, resume | model decisions are arbitrary, a turn is many tool calls, crashes between a call, the save and the reply | guarded tools only when confirmed, sessions that load, turns that end | `AgentLoop` |
| Routing and parsing of requests, `orchestrator.py` | none | `relevant_tools`, `_deterministic_*`, `_parse_decision` | text matching | - | only as the decisions it may yield, in `AgentLoop` |
| Providers, `provider.py`, `local_provider.py`, `openai_provider.py` | a worker thread and a queue of one per request | `complete` | deadline and late answer race | every consultation ends | in the turns of `ChatPanels` |
| Document, `document.py` | lines with offsets, blocks | parse, diagnose | ends of lines, blocks left open | the bytes come back | `Documents` |
| Source set, `source_set.py` | the documents read, the edges of the include graph | `read`, `semantic_index`, `diagnostics` | cycles, files reached twice, escapes from the workspace | each reachable file once, each cycle reported | `SourceSets` |
| Semantic index, `semantic.py` | entities, references, allocations | `build_semantic_index` and the augmenting passes | order of commands, identity of duplicates, generated labels | every reference resolved to the right entity or diagnosed | `Semantics` |
| Mesh import, `mesh.py`; rendering, `generation.py` | none | `import_ele`, `render_bsam_commands`, `generate_deck` | rows, runs of types, ranges | the deck is the mesh and the intent | `Meshes` |
| Planning, refresh and composition of changes, `change.py` | plan files | `plan_*`, `plan_refresh_change`, `plan_compose_changes`, `review_plan`, `apply_plan` | patches that overlap, plans of stale sources, spans of tokens that only look alike | the patch does what the operation promises and nothing else | `Planning`, `ChangePlans`, against `ModelEdits` |
| VS Code server manager, `serverManager.ts`, `apiClient.ts` | the handle of the service process | `start`, `ensureStarted`, `stop`, `dispose` | awaits between check and spawn, exit handlers, other owners of the port | the service that runs is known, commands end | `ServerManager`, `Editor` |
| VS Code chat, `chatPanel.ts`, `chatBridge.ts`, webview script | panel, busy flag, line buffer | `open`, `receive`, messages | two opens, three queues, stderr in the middle of a turn | one window, a confirmation confirms what was shown | `ChatPanels`, `Editor` |
| VS Code commands and views, `extension.ts` | view state | commands, `activate`, `deactivate` | deactivate while commands are under way | nothing outlives the window | `Editor`; views not modelled |
| HTTP server, `api.py`, contracts, `tool_contracts.py` | none beyond the jobs | routing, authentication, schema checks | - | - | not modelled: stateless per request |
| Queries, capabilities, registry, `query.py`, `capabilities.py`, `registry.py` | none | read-only lookups | - | - | not modelled: nothing to interleave |
| Command line, `cli.py` | none | argument parsing | - | - | the commands behind it are modelled |
| Registry tools, `tools/` | files rebuilt offline | sequential processing | - | - | not modelled: maintenance scripts |
| Benchmarks and evaluations | reports | measurement | - | - | not modelled: not part of the product |

How they interact: the command line, the service and the chat call the same functions. The chat
process holds its own `LocalAgentApi`, so a run started from a chat is a job with a worker thread
in that process. The jobs and the command line meet only in the files of the run directory. The
orchestrator sees the rest through `api.dispatch`. VS Code talks to the service over HTTP and to
the chat process in JSON lines. Every change of a deck reads it as a source set of documents,
indexes it, derives patches from the index, validates the patched text by indexing it again, and
writes it to new files.

## 2. Plan

1. `RunLifecycle`, the run directory as its readers may see it; `RunSupervisor`, which implements
   it; `RunSupervisorProofs`. *Done.*
2. `ApiRuns`, which extends `RunLifecycle` with jobs and threads. *Done.*
3. `SourceWrites`, `SourceWritesProofs`. *Done.*
4. `AgentLoop`. *Done* for the loop, confirmation, sessions. Left: the diagnose and compare
   outcomes, the recovery bound of refreshed plans.
5. `ServerManager` and `ChatPanels`, composed by `Editor`; the providers' `complete` is a part of a
   turn of `ChatPanels`. *Done.*
6. `Documents`, `SourceSets`, `Semantics`, `Meshes`, `Planning`, each extending the one before, and
   `ModelEdits`, the abstract specification of the typed changes; `ChangePlans` puts them together.
   *Done* for the CLUSTERS and BOUNDARY blocks. Left: the other blocks, values in tables.
7. Theorems. *Done* for every safety property of modules 1 to 5, in one proof module for each state
   machine (`RunSupervisorProofs`, `ApiRunsProofs`, `SourceWritesProofs`, `AgentLoopProofs`,
   `EditorProofs`), and of item 6 for the patches (`DocumentsProofs`), the include graph
   (`SourceSetsProofs`) and the life of a plan (`ChangePlansProofs`). Left: lines, blocks, the index.

Abstract specifications: `RunLifecycle` (implemented by `RunSupervisor`, assumed by `ApiRuns`) and
`ModelEdits` (implemented by the patches of `Planning`; the refinement mapping is `Meaning`).

## 3. What is modelled

### RunLifecycle and RunSupervisor

`RunSupervisor` is one output directory with any number of `run`, `stop` and `status` commands and
the solver. Every file operation another process can interleave with is one step: the exclusive
creation of `stop-request.json` and the writing of its body are two. `manifest`, `stopFile`,
`exitFile` and `bsam` are the disk and the process; `local[s]` holds the local variables of
`run_bsam`; `due` says which deadlines the clock has passed. The actions carry the order of the
code: `PreflightPasses`, `MakeDirectory`, `WriteStarting`, `Spawn`, `WriteRunning`, the loop
(`PollSeesExit`, `PollSamplesClock`, `NoStopYet`, `TimesOut`, `SeesStop`, `StopUnreadable`, the
three steps of a timeout request, `AssertStop`, `Terminate`), and the end (`CollectEvidence`,
`CollectFails`, `WriteTerminal`). `FileFault`, `KillSolver`, `WriteFailed` are the except clause,
`Unhandled` what no clause catches.

`Faults` names what the environment may do: `io` (an OSError in the supervisor), `crash`,
`sharing` (a file held open cannot be replaced, Windows), `slow` (all ten reads of
`_load_json_object` fall between creation and body of a request).

`RunLifecycle` keeps only the phase, whether the solver lives, whether a stop was asked for and
the verdict, with the six moves a reader may see. `ApiRuns` is built on it.

### ApiRuns

The jobs of one output directory: `Reserve`, `Conflict`, `StartWorker` for a run request; the
worker (`WorkerBegins`, `WorkerMakesDirectory`, `RunReturns`, `RunRaises`, then `WorkerRecordsResult`
in one step, since readers look at the manifest and at the result before state and classification, or,
after an error, `WorkerRecordsState` and `WorkerRecordsClass`, between which a status request may read);
`StopLooks`, `StopAsks`, `StopUnknown`, `StopPromises` and the delivery thread; a status request
that looks for the manifest and then at the table. The service may be restarted, and a command
outside it may take the directory. Directories share only the lock, so one is enough.

### SourceWrites

Several `apply_plan` and `generate_deck` commands. A file of `disk` is described by its writer, the
revision of the source it comes from, and whether it is whole. Opening with `"xb"`, writing the
body, verifying, the sidecar and each removal of the rollback are steps. `Beside` are the
applications beside the source, which write the root alone and share the includes. Users edit the
source (`Edit`), or replace the plan (`Replan`). A command may be given any path for its audit or
manifest but its own outputs, also the deck or the audit of another (`api.py` 387 takes any path,
`change.py` 3651 compares it with the command's own outputs). `unlinked` notes that a failed
application has removed the file at its audit path, `torn` that a body could not be written: they
are what the properties except, and the run `write_rollback` shows both.

### AgentLoop

One chat process. `conv` is the ConversationState in memory, `session` the file. A text message
(`SayObjective`, `SayMore`), `Confirm` or `Cancel` starts a turn; the first decision and every
later one in the loop is anything the schema admits, restricted to `Offered`. The continuations
the criteria dictate are `SureActions`. A call is made and recorded in one step, because what a crash
in between would lose is in memory anyway, while its effect (`plans`, `decks`, `runs`) stays. The
nested reads are calls with a role: `before` a preview, `chain` after a query, `after` an
application. A turn ends with `SaveSession`, then `Reply`; `SaveFails` and `Crash` may intervene,
and `Resume` loads the session.

A text is what `_task_from_request` takes from it: a source and a set of outcomes. Tools that only
read and feed no criterion of their own behave like `query`. A repeated call is recognised only
when the model writes its arguments as they were recorded, since the fingerprint is taken before
normalisation (`orchestrator.py` 967-972); the model leaves that open. `asks`, `settled`,
`confirmed`, `took` are history variables and guide no step.

### ServerManager, ChatPanels, Editor

One VS Code window. `ServerManager` are the commands that start, use and stop the service: each is
an async function, and a step is what runs between two awaits. `process` is the field of that name,
`service` the processes behind it with the ends Node has not yet noticed, `port` who answers. A
health request is answered in one step (`Answered`) and acted on in a later one.

`ChatPanels` are the chat windows. A window (`panel[p]`) is the panel of the extension (`busy`, its
`phase`), the script in its webview (`view`), the chat process (`proc`, its pending action `ask`)
and the four queues between them. Confirmations asked for are numbered, so that a click can be
compared with the question it was made on. A turn may consult the provider: `WorkerPuts`,
`DeadlinePasses` and `Poll` are the worker thread, the clock and the loop of `complete`.

`Editor` adds what the two share: the user's commands and `deactivate`, which ends both.

### From text to plans

`Documents` splits a text, a sequence of tokens, into lines with offsets, fields, options and
blocks, and applies patches to it. A token stands for a word or a separator where the program has
bytes. `SourceSets` reads the include graph depth first and expands includes inline: the reading is a
sequence of steps on what `_load` has done and the *INCLUDE lines still to be met, those of the file
that is being read before those of the files that included it, each with the files it is read
through. `Includes` and `Reachable` are the graph by itself, the reference for the reading. `Semantics`
folds the commands into the index: entities, references, allocations, errors. `Meshes` imports a
mesh file and renders a mesh or a generated deck as text. `Planning` turns a typed request into
patches; an operator that may refuse returns a set, empty when it refuses.

`ModelEdits` is independent of all text: `Meaning` of a deck is its nodes, elements, sets,
memberships, records and settings, and each operation is an edit of a meaning (`NodeAdded`,
`SetRenamed`, ...). `ChangePlans` is the state machine: `Ask`, `Compose`, `Refresh`, `Apply`,
`Generate`, and `Save` by which the engineer changes the deck or the mesh under a plan. Its constants
are arbitrary up to two assumptions: a deck is finitely many files with the input deck among them
(`DecksAssumption`), and a request has the fields that the operations read (`FieldsAssumption`).
`FieldsOf` are these fields, operation by operation, `Arguments` a request cut down to them, and
`Dispatch` the planner of the operation, which sees nothing else. A plan keeps its *selector*: the
arguments, with the record that a retarget selected and the place of an appended value
(`Selector`). Refresh and confirmation call the planner again with what they pass on of the
selector (`Replay`, `MeshFor`): not the place of an appended value, which the planner counts anew. No
module declares a RECURSIVE operator: folds and recursive functions are used throughout.

## 4. Runs

All counts are with two workers. "Fair" marks runs under a fairness assumption.

| Run | Instance | States | Shows |
|---|---|---|---|
| `run_safety` | 2 runs, 2 users, 4 results, all faults | 1.1 M | the invariants of the run directory, `StopRequestImmutable`, `ManifestOnlyAdvances`, and that it implements `RunLifecycle` |
| `run_liveness` | 1 run, 1 user, 1 watcher, no faults, fair | 39 k | runs end and report their end; stops end runs; a timeout asks before it kills; the solver is told |
| `run_partial_stop` | 1 run, 1 user, crashes | violation | finding 1 |
| `api_jobs` | 2 run, 2 stop, 1 status request, all faults, fair | 870 k | one job, its worker owns the run, terminal answers are true, delivered stops end the job |
| `api_early_stop` | 1 of each, no faults, fair | violation | finding 2 |
| `write_copies` | an application that copies two files, a generation of the same deck with the application's audit as its manifest, an application beside the source with that deck as its audit; write, unlink, crash, edit and replan | 2.0 M | success is complete and stays, sidecars vouch, failures leave no deck |
| `write_rollback` | the two applications of `write_copies`, failing writes | violation | finding 3 |
| `agent_loop` | 3 messages, 4 steps, 1 fault, fair | 1.0 M | confirmation, settled questions, sessions that load, single effects, turns that end |
| `agent_run` | change and run, an older run | violation | finding 4 |
| `editor` | 2 commands and 2 services at a time, 2 windows, the mixes below, fair | 416 k | the service that runs is known, one window, confirmations confirm what was shown, no text is dropped, nothing outlives the window, commands end, windows are answered |
| `decks` | 8 decks, 8 revisions between them, 3 meshes, 28 requests, 13 pairs, 1 save | 6 k | patches implement the abstract edits, compositions are both changes, refreshed plans make the change that was asked, current plans are confirmed, what is applied is the deck of that moment with the patches, what was validated is sound when read again |
| `plan_includes` | 1 deck with an include behind other lines | violation | finding 5 |

Why the bounds are enough. *Run directory:* a race for the directory, the request or the
acknowledgement is between two; a third contender meets the same files as the second. `HasTimeout`
adds the supervisor itself as a contender for the request. The four results take every branch of
`classify_run`. *Jobs:* two starts compete for one entry, two stops for one delivery; one status
request suffices since requests do not see each other. *Writes:* the three commands contend for a
deck that is also an audit, and for an audit that is also a manifest, in every order; of every pair
of kinds of files (output, audit, manifest) that two commands can contend for, that is the cases
which the check of the destination does not see. *Agent:* three messages are an ask,
its confirmation, and one more confirmation or text, with a crash anywhere: the shortest history
in which a settled question could return. Four steps let the nested reads meet the bound from
both sides: inspection, preview, application, validation is exactly four. The bounds on decks and
runs are never the reason a step is impossible: each needs a confirmation of its own. A budget of
one fault is a limit: histories with two crashes are not checked. *Editor:* the manager and the
chat share nothing but `deactivate`, so `Mixes` lets one of them be busy at a time: three service
commands with one upset (a crash, a failed spawn, a timed out request, a change of the port's
owner), four chat commands, or three with one noise or a session that left an action pending, and
one command of each kind. Two commands are under way at once; a third begins when one ends, which
suffices for a start, its stop and another start around one late exit. Two windows and two
questions are needed for a click to meet a question it was not made on.
*Decks:* the decks are chosen so that every command of `Semantics`, every operation, every refusal
that depends on the deck, and both sides of every resolution occur: equal names in two clusters and of both kinds of sets, repeated
and single parameters, an include that begins or ends in the middle of a command, cycles. `RowWidth`
is 2 where the program has 16, so that rows of a set are short, full and several. One save tells a
current plan from a stale one; `Revisions` lists which deck may become which under a plan (rows added
or removed in front of the record that it selects, a mesh moved into an include, an include that grows
or closes a cycle), and a mesh may become any other. `Pairs` lists which two plans are composed; there
is one destination. `plan_includes` needs no save.

Each passing property has a mutant, a *slip* defined next to the operation it distorts: a check
left out, a step in the wrong order, a reset forgotten. TLC finds the property violated with it.
The type invariants of `RunSupervisor`, `ApiRuns`, `SourceWrites`, `AgentLoop` and `Editor` are proved
(section 5) and hold under the same configurations, but are not among the runs' properties, which are
kept for the hazards.

`CHECK_DEADLOCK FALSE` stands everywhere because commands, requests and messages are finite: the
system rightly stops when all have been served.

### Fairness

* `RunSupervisor`: each command and the solver's opening of its control file are weakly fair: the
  operating system schedules them, and the solver polls the file (`run.py` 383 relies on it). The
  end of the solver is not fair: a solver may hang. `StopEndsRun` and `TimeoutAsksForStop` further
  assume `TimePasses`, that the clock passes finite deadlines; it is their premise and not part of
  `FairSpec`, because `StopReachesSolver` must hold even when the grace period never runs out.
* `ApiRuns`: threads are scheduled, and a run that was asked to stop ends, which is what `StopEndsRun`
  says of the supervisor.
* `AgentLoop`: weak fairness of the process's own steps. Tools return (runs are started, not waited
  for) and decisions arrive because every provider call has a deadline. Users are not fair.
* `Editor`: event loops and queues move, time passes, a health request is answered or times out
  (`apiClient.ts` 48), a killed process ends and its `exit` event is emitted. Nothing is assumed of
  the provider, of the service's start, nor of the user.

## 5. Proofs

Every safety invariant of the runs but five of `decks` is a theorem: it holds for any number of
commands, requests, files, decks, windows, messages and faults, with no assumption beyond the ones
that the modules name. `SupervisorAssumption`: the sets of commands are disjoint, results are non-empty
records, faults are known. `RequestsAssumption`: the kinds of requests are disjoint.
`WritersAssumption`: every writer has outputs, and its sidecar is not one of them (both commands
check that).
`AgentAssumption`: objectives and tools are known ones, a task has at least two steps, and there is a
path for a deck and for a run. `ServerAssumption`, `ChatAssumption`, `EditorAssumption`: the bounds are
numbers, and there is room for one command, one service, one window and one question.
`DecksAssumption` and `FieldsAssumption` are those of section 3. One theorem,
`EveryEndIsReported`, has a hypothesis of its own, `Faults = {}`: a command whose files cannot be
written may end without a terminal manifest (finding 1 is such an end). The run that checks
`EndIsReported` has no faults either.

In each module the theorem is the last line of an argument from an inductive invariant `IInv`, because
no property is inductive as it stands. TLC checked each of them on the run's instance before the proof.

*Run directory.* `IInv` adds to the checked invariants `Directory` (an owner exists only in a made
directory), `OwnerPhase` (where the owner is determines the state of manifest and solver),
`OneWriter` (one process is between creating and writing the request), `WatchersOnlyRead`,
`ClientsStarted` (a client past its checks has read an announced run), `StopKnown` (what the owner
remembers of the request is on disk) and `ManifestFresh` (no verdict before the end). `OneOwner` is
not inductive without `Directory`, since only the exclusive mkdir excludes a second owner;
`TerminalIsDead` needs `OwnerPhase`, since three paths write a terminal manifest; `VerdictJustified`
needs `StopKnown` and the immutability of the request. Proved: `TypeCorrect`, `Exclusive`,
`TerminalMeansDead`, `VerdictIsJustified`, `RequestIsIdempotent`, the action properties
`RequestIsImmutable` and `ManifestAdvances`, and `Refinement`, that every behaviour is one of
`RunLifecycle`: initial states map to initial states and each step to a move or a stutter.
`EveryEndIsReported` needs `Undisturbed`: without faults an error is recorded only for a solver that
never started, and a request that is empty on disk has a living writer, so that the supervisor waits
for it and does not give up.

*Jobs.* `IInv` says that the entry of the table, the request that holds it and the worker come and go
together (`Table`), what the worker's place says of the directory and of the run (`Directory`), what
it has recorded of the run by then (`Records`), and that an answer "terminal" was given only when the
run was over (`Replies`). `Directory` is what makes `TerminalReplyIsTrue` hold: after the worker has
let go, nobody but another process moves the run. Proved: `TypeCorrect`, `OneJobOnly`,
`WorkerOwnsItsRun`, `TerminalRepliesAreTrue`. The run in these proofs moves by the steps of
`RunLifecycle`, which `Refinement` proves of the supervisor.

*Writes.* The strengthening says which prefix of its outputs each command has written at each control
point, that only the writer of a file is removing it, and that a sidecar is opened after the outputs
are whole, each but for the files in `Unlinked`: those that a failed application had named as its
audit and has removed, the one way in which a file disappears that its writer did not remove.
Proved: `TypeCorrect`, `SuccessSurvives`, `SidecarIsTrue`, for any choice of audit paths. Without the
exception `DoneIsComplete` is false (finding 3). For `FailureIsClean`, `Loose` says which files of a
command it does not count as written at each point: none, or the one it is writing, which is not
whole; only `torn` lets it stay (finding 3).

*Agent.* `IInv` has four parts. `World`: only questions that were asked are settled, confirmed or
carried out. `Memory`: the
conversation in memory and the one on disk are each sound by themselves (an armed action is guarded,
was asked for, and is what the status shows; a task is within its step bound), and where both hold a
question it is the same. `Place`: while a turn works, nothing is armed. `Calling`: the call under way
has a step left, and, if it is guarded, the question just answered. `SettledStaysSettled` needs the two
conversations side by side, since a crash brings the older one back. Proved: `TypeCorrect`,
`SessionsLoad`, `GuardedCallsConfirmed`, `SettledIsOver`, `ArmedIsAsked`, `OneEffectPerQuestion`.

*Editor.* `EditorProofs` proves, step by step, what the manager and the chat keep, and puts them
together. The invariant of the manager, `ServerInv`, is about exit codes: at
most one process has none yet, and it is the one the manager knows (`OnlyKnown`); that a process is
alive is not enough, because a dead one whose exit is still to be told would make the manager forget
its successor. The invariant of one chat window, `Orderly`, is a baton, the right to send: it lies
with a script that is not busy, in a text on its way, with a process that works, or in a message that
will free the script, and in one of these at most. Whoever holds it knows the same question
(`SameAsk`), and the panel is busy only while the baton is on the process's side (`BusyInTurn`). Only
an error without a turn makes a second baton, which is the exception `blurred` in the properties.
Proved: `TypeCorrect`, `NoServiceIsLost`, `WindowEndsAll`, `WindowIsFound`, `ConfirmedAsShown`,
`SentArrives`.

*Documents.* `DocumentsProofs` is about operators, not about behaviours: texts of any length over any
tokens, and any number of patches. `PatchIsUndone`: the reverse of an applied patch matches and
restores the source. `BackToFront`: of two patches that do not overlap, the one in front meets its
old text after the other was applied; both orders give one text if the other is moved.
`PatchesMeetTheirText` is why `_patched_bytes_many` may compare every patch with the source alone
and then apply them to a text that changes: going from the back, each still meets its old text at its
own offsets, what lies behind it is carried along, and the result has the new text of every patch.
It rests on `SplicesUnfold`, that the fold is the sequence of its intermediate texts, and on
`SetInduction`, an induction over a set (not an operator) that follows from the order of the naturals.

*Source sets.* `SourceSetsProofs` is about `Read` of any finite files with a root. The invariant of the
reading, `Good`, is depth-first search with its path, the files that are being read, from the root
down. Each document is read once and is a file that the root reaches (`EachOnce`, `ReachedOnly`). The
lines still to be met are those of the files on the path, the innermost first (`Stacked`). What a
document includes is a document, or waits among the lines to be met (`Covered`). A cycle is reported
only if some file that is reached is on one (`CyclesExist`). While none is reported, the documents that
are not on the path are finished: they include only each other and none is on a cycle, and what a file
of the path includes waits, is finished, or lies further down the path (`Clear`). `MeetLeavesLess` counts the lines still
unmet, so that the reading has met all of them when its fold ends. `ReadingFindsGraph`: the documents
are exactly what the includes reach, and E204 is there exactly when some of them is on a cycle, although
the program looks only among the ancestors. `ReadAgain` and `ContentDeterminesSet`: the reading depends
on the text of the files it reads and on nothing else, so that the digest of a source set, which is all
a plan keeps of it, determines the graph that a proposal is validated over.

*Change plans.* `PlansInv` is inductive: the deck is one of the session (`DeckIsKnown`), and each saved
plan was made on some deck of the session from a *replay* of the request that was asked
(`PlansDerived`). A replay has the arguments of the request, field by field of `FieldsOf`, except that
the occurrence of a retarget may be filled in, and an import has the mesh it read. What plans are is not
said by their text, since later steps know the plan only by its selector. `SelectorReplays`: what
refresh passes on of the selector of a planned request is again such a replay, and it selects the same
record and has the same patches on the same base (`PlannedPatches`); in particular the place of an
appended value may be dropped, because it is counted again. `PinnedPatches`: any replay that can be
planned has the patches of the request itself, with the occurrence that the plan names when it is a
retarget. That occurrence is needed: on a revision with two records alike the request alone is refused
and the refreshed plan is not (section 6). Together
with `ReadAgain`, `SourcesDepend` (the index and the validation depend on the files of the set) and
`BaseOfBase` this gives `CurrentPlansAreConfirmed`, `RefreshesAreAsAsked` (for any number of revisions
between two refreshes) and `CyclesAreReported`. `OutputInv` adds what was written: `AppliesToDeck`, that
the written deck is the source set of the moment of the application with the patches of the plan, and
`WrittenWasValidated`, that it has no errors if its includes are those it was validated over. Without
that condition `OutputSound` is false in general (finding 5), and no theorem.

The proofs made four corrections to the models. `apply_plan` writes the files of the source set; the
model had written every file of the directory, which hid a file that the copy lacks (`Written`). An
offer of a run needs a directory to offer (`Offer`, `RunLeft`): with all numbers taken the model
offered nothing nameable. The number of a service that failed to spawn may be used again, so the kill
of its predecessor must be forgotten with it (`Spawn`). `ChatAssumption` demands room for one question.
None of them changes what the runs show.

*Only model-checked.* Every liveness property (`StopEndsRun`, `TimeoutAsksForStop`, `StopReachesSolver`,
`StopEndsJob`, `TurnEnds`, `CommandsEnd`, `WindowAnswered`): liveness under fairness and ENABLED are
out of the prover's reach. Of `decks`, the properties about the meaning of a text: `PatchDoesOperation`,
`ComposedIsBoth`, `SavesSurvive` and `GenerationAsAsked` say what the index of `Semantics`, a fold over
every command of a deck, makes of a text that an operation has changed; that is an induction over the
text for each of the operations, which the provers at hand cannot do. What is proved of these plans is
that they are derived, confirmed and applied as planned. `OutputSound` is model-checked on decks without
finding 5. Of `Documents`, sorting the patches (`Ordered`) and the division into lines (`SelectSeq`) are
not proved about.

## 6. Findings

1. *An unreadable stop request found after the loop leaves the manifest "running"* (`run.py` 421);
   the same record inside the loop fails closed, as a test asserts.
2. *A stop between acceptance and start of the worker is lost* (`api.py` 604), although the API
   documentation promises delivery.
3. *The rollback of a failed application is not that of the files it created.* It leaves the file
   whose body could not be written, since a file counts as created only after its body (`change.py`
   3687-3689, also `generation.py` 341-343), and removes the file at its audit path whoever wrote it
   (3696): in the run, in one and the same rollback, the finished deck of another application that did
   not exist yet when the path was checked. Of two applications to one destination, which have one
   audit path by default, the loser removes the audit of the winner in the same way.
4. *A change-and-run task may be complete without its run* (`orchestrator.py` 1880): an older
   finished run that was looked at counts as terminal evidence. Reproduced with the program: with
   a finished run in the conversation, "Change d_reduction in model.in to 0.5 and run it." ends as
   "complete" after the confirmed change.
5. *A change that moves an `*INCLUDE` line is validated against a deck without the include*
   (`source_set.py` 257): an application succeeds whose output has an error. For the same reason
   some correct changes in front of an include are refused. Reproduced with the program.

Seen while modelling, without a run of their own. *Runs and jobs:*

* a stop command that read the manifest before it became terminal writes a request for a finished
  run and reports success (`run.py` 267-283);
* on Windows a status read that holds the manifest open makes `os.replace` fail, and the supervisor
  kills the run (`run.py` 74-84, 368);
* a status request may see the state "terminal" with the classification "pending" (`api.py` 560-561).

*Writing:*

* a plan that replaced the reviewed one is applied: the path is all that is compared (`api.py` 391).

*Agent:*

* after a change of `model.in`, "Inspect and validate other.in" inspects `other.in` and validates
  the changed deck (`orchestrator.py` 2027; reproduced);
* `inspect_run_log` returns no state, so the context pairs the new directory with the state of the
  run looked at before (`orchestrator.py` 1376);
* a change-and-run task that validated its source and did not ask for validation is offered a run
  of the new, unvalidated deck with the words "Validation passed" (`orchestrator.py` 1280);
* a task whose status read found a finished run stays "complete" when the next decision's
  arguments are invalid.

*Editor:*

* a second open while the credential box is shown makes a second window, if the editor keeps the first
  box open then, and closing either makes the extension forget the other (`chatPanel.ts` 47; the tutorial, `docs/guides/VS_CODE_CHAT_TUTORIAL.md`
  134, says the existing panel is focused). `OneWindow` and `EndsWithWindow` exclude it by `overtaken`;
* a text on standard error in the middle of a turn, or a session that cannot be saved, frees the
  buttons, and a click may then confirm an action that was not shown; `blurred` excludes these;
* a start that is under way at `deactivate` spawns a service afterwards (`pendingStart`);
* the `error` event of a failed spawn has no listener, and the port may change hands between the
  health check and the tool request.

*Changes:*

* composition accepts what neither order accepts: two removals that empty a set, a renaming `a` to
  `b` beside the creation of `b`; `ComposedIsBoth` therefore speaks of requests that can be made in
  either order with the same meaning (`docs/api/MODEL_TOOL_CONTRACTS.md` 48 says removals
  refuse empty sets; reproduced);
* the selector of a retarget keeps the occurrence found at first, so a refresh silently takes a
  record that was added in front of it where the request, asked anew, is refused as ambiguous
  (`change.py` 2842; reproduced). `RefreshAsAsked` says what holds: the plan is that of the request for
  the record that the plan names;
* an include reached from two clusters is patched for both and reported for one (reproduced);
* renaming or creating a set with a numeric name retargets the rows aimed at that node, and removal
  of a member does not see memberships made by `*NODE, NSET=` (`change.py` 1489-1578, 555-626; by
  reading). The decks of the passing run have no such names, no set with both kinds of members, no
  include of two clusters, and no change in front of an include.

## 7. Limits

*Text.* Tokens stand for words: spelling, case, quoting, numbers' formats, coordinates, degrees and
magnitudes, solid records and layers are not represented, nor the diagnostics about them. `Render`
writes the nodes, elements and sets of a mesh and leaves out its surfaces and orientations (`mesh.py`
420-434). Commands
left out of `Semantics`: `*CONSTRAINT`, `*ORIENTATION`, `*INTEGRATION`, `*TOLERANCE`, `*CRACK`,
`*FIELD`, `*FLIP`, `*TRANSLATE`, `*SCALE`, the endpoint sets and arcs of `*NGEN`, box sets; of the
blocks only CLUSTERS and BOUNDARY are read; `*ELGEN` has one count where the program takes three.
Of changes, values in tables, notch plies and the migration of legacy solver names are left out, and
a composition has two components where the program takes up to eight. Of an intent, material,
solver and output numbers are left out.

*Processes.* The solver is a process that may poll, exit with a result, or hang. Digest collisions,
partial reads of JSON other than the stop request, and power loss are left out. In `AgentLoop`, left
out are the recovery bound of `preview_refresh_change`, `generate_deck` as a guarded tool, the
diagnose and compare outcomes, and runs that end unclassified; decks and plans are removed by
nobody; the checked instance offers the model one tool of each kind. In `Editor` a turn of the chat
is abstract, what it does is the matter of `AgentLoop`; the command that uses the service ends when
the service is ready, the request it then makes is stateless.

*Not modelled.* HTTP routing and contracts, queries, capabilities, registry, command line, tools,
benchmarks and the views of the editor have no state that two actors share and compute by lookup or
text matching; the routing of a sentence to a tool is replaced by every decision it could yield.
Some hazards have no property. The bytes the solver opens may differ from those in the manifest
(`run.py` 315), because the solver's own reading is outside the code. Of the others the model shows
that they happen and nothing in the code prevents or repairs it: a plan replaced between review and
application (`change.py` 3619), a late request on a finished run (`run.py` 283), a solver whose
supervisor or service died (`run.py` 373, `api.py` 563), an action still armed after a save that failed
(`chat.py` 111), and a second window (`chatPanel.ts` 47). A property could only except them.
