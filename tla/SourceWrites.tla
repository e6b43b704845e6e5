----------------------------- MODULE SourceWrites ---------------------------
(***************************************************************************)
(* The commands that write a new deck: apply_plan (src/bsam_agent/         *)
(* change.py), which copies the planned source set file by file and adds   *)
(* an audit sidecar, and generate_deck (src/bsam_agent/generation.py),     *)
(* which writes one deck and a manifest. Several of them may run at once,  *)
(* from the HTTP service, the command line and a chat, with destinations   *)
(* that overlap, while the user edits the source or plans again.           *)
(*                                                                         *)
(* Every creation, body and removal of a file is a step. File contents are *)
(* who wrote them and which revision of the source they come from.         *)
(***************************************************************************)
EXTENDS Naturals, Sequences

CONSTANTS
    Appliers,    \* apply_plan commands, all for the plan at one path
    Generators,  \* generate_deck commands
    Files,       \* the files of the destinations
    Nobody,      \* the writer of a file that does not exist
    Outputs,     \* per writer, its output files in the order of the copy, root first
    Sidecar,     \* per writer, its audit or manifest file
    Beside,      \* the appliers whose destination lies beside the source: the
                 \* root alone is written, the includes of the source are shared
    Faults       \* the environment faults of this instance, see FaultKinds

Writers == Appliers \cup Generators

(* "write"   creating, writing or reading back a file raises OSError         *)
(* "unlink"  removing a file in the rollback raises OSError                  *)
(* "crash"   a command is killed between two steps                           *)
(* "edit"    the user edits the root or an include of the source             *)
(* "replan"  another plan takes the place of the reviewed one                *)
FaultKinds == {"write", "unlink", "crash", "edit", "replan"}

Parts(w) == 1 .. Len(Outputs[w])

(* Both commands refuse a sidecar among their own outputs. Nothing compares  *)
(* it with the outputs of another command: any path can be asked for.        *)
ASSUME WritersAssumption ==
    /\ Appliers \cap Generators = {} /\ Nobody \notin Writers /\ Beside \subseteq Appliers
    /\ \A w \in Writers :
          /\ Outputs[w] \in Seq(Files) /\ Len(Outputs[w]) > 0
          /\ Sidecar[w] \in Files
          /\ \A i \in Parts(w) : Outputs[w][i] # Sidecar[w]
    /\ Faults \subseteq FaultKinds

VARIABLES
    source,    \* the revision of the root and of the includes of the source
    plan,      \* which plan is at the plan path
    disk,      \* who wrote each file, from which revision, and whether it is whole
    pc,        \* where each command is
    local      \* what each command remembers

vars == <<source, plan, disk, pc, local>>

Revisions == {"planned", "edited"}
Plans == {"first", "second"}

Absent == [by |-> Nobody, whole |-> FALSE, base |-> "planned"]
NoLocal == [reviewed |-> "none", loaded |-> "none", base |-> "planned", written |-> 0,
            torn |-> FALSE,       \* history: the body of an output could not be written
            unlinked |-> FALSE]   \* history: the rollback has removed the audit path

Exists(f) == disk[f].by # Nobody

(* What SourceSet.read finds; its digest is compared with the one of the plan *)
Revision == IF \A part \in DOMAIN source : source[part] = "planned" THEN "planned" ELSE "edited"
Fresh == Revision = "planned"

Init ==
    /\ source = [part \in {"root", "includes"} |-> "planned"]
    /\ plan = "first"
    /\ disk = [f \in Files |-> Absent]
    /\ pc = [w \in Writers |-> IF w \in Appliers THEN "reviewing" ELSE "checking"]
    /\ local = [w \in Writers |-> NoLocal]

Goto(w, from, to) == pc[w] = from /\ pc' = [pc EXCEPT ![w] = to]

(* The list `written` (`created` of generate_deck) is a prefix of the outputs *)
(* and the sidecar: its length says which file is next and which is last.    *)
Target(w, n) == IF n \in Parts(w) THEN Outputs[w][n] ELSE Sidecar[w]
Current(w) == Target(w, local[w].written + 1)
Created(w) == [by |-> w, whole |-> FALSE, base |-> local[w].base]
Finished(w) == [by |-> w, whole |-> TRUE, base |-> local[w].base]

-----------------------------------------------------------------------------
(* Slips: the forms that plausible mistakes would give to the operations     *)
(* below. No action uses them; every property is known to reject one.        *)

(* open("wb") *)
OpenOutputOver(w) ==
    /\ Goto(w, "opening", "writing")
    /\ disk' = [disk EXCEPT ![Current(w)] = Created(w)]
    /\ UNCHANGED <<source, plan, local>>

(* the rollback removes the planned outputs, not the written ones *)
RemoveAnyOutput(w) ==
    /\ \E i \in Parts(w) : disk' = [disk EXCEPT ![Outputs[w][i]] = Absent]
    /\ Goto(w, "removing", "raised")
    /\ UNCHANGED <<source, plan, local>>

(* the rollback stops before the first file *)
RemovedAllButOne(w) ==
    /\ local[w].written <= 1
    /\ Goto(w, "removing", "raised")
    /\ UNCHANGED <<source, plan, disk, local>>

-----------------------------------------------------------------------------
(* review_plan, then apply_plan *)

(* The review checks the source before it shows the plan to the user. *)
Review(w) ==
    /\ Fresh
    /\ Goto(w, "reviewing", "loading")
    /\ local' = [local EXCEPT ![w].reviewed = plan]
    /\ UNCHANGED <<source, plan, disk>>

ReviewRefuses(w) ==
    /\ ~Fresh
    /\ Goto(w, "reviewing", "refused")
    /\ UNCHANGED <<source, plan, disk, local>>

(* The plan cannot be loaded, its digest is wrong, or the proposal made from *)
(* it fails validation or does not fit the destination.                      *)
PlanRefused(w) ==
    /\ \E from \in {"reviewing", "loading", "reading"} : Goto(w, from, "refused")
    /\ UNCHANGED <<source, plan, disk, local>>

LoadPlan(w) ==
    /\ Goto(w, "loading", "checking")
    /\ local' = [local EXCEPT ![w].loaded = plan]
    /\ UNCHANGED <<source, plan, disk>>

(* Both commands refuse an existing destination or sidecar. *)
Taken(w) == Exists(Outputs[w][1]) \/ Exists(Sidecar[w])

CheckDestination(w) ==
    /\ ~Taken(w)
    /\ Goto(w, "checking", IF w \in Appliers THEN "reading" ELSE "opening")
    /\ UNCHANGED <<source, plan, disk, local>>

DestinationTaken(w) ==
    /\ Taken(w)
    /\ Goto(w, "checking", "refused")
    /\ UNCHANGED <<source, plan, disk, local>>

(* The bytes that will be written are the ones read here. *)
ReadSource(w) ==
    /\ Fresh
    /\ Goto(w, "reading", "mapping")
    /\ local' = [local EXCEPT ![w].base = Revision]
    /\ UNCHANGED <<source, plan, disk>>

SourceStale(w) ==
    /\ ~Fresh
    /\ Goto(w, "reading", "refused")
    /\ UNCHANGED <<source, plan, disk, local>>

CheckOutputs(w) ==
    LET conflict == \E i \in Parts(w) : Exists(Outputs[w][i])
    IN  /\ Goto(w, "mapping", IF conflict THEN "refused" ELSE "opening")
        /\ UNCHANGED <<source, plan, disk, local>>

-----------------------------------------------------------------------------
(* The try block *)

OpenOutput(w) ==
    /\ Goto(w, "opening", "writing")
    /\ ~Exists(Current(w))
    /\ disk' = [disk EXCEPT ![Current(w)] = Created(w)]
    /\ UNCHANGED <<source, plan, local>>

OutputExists(w) ==
    /\ Goto(w, "opening", "failing")
    /\ Exists(Current(w))
    /\ UNCHANGED <<source, plan, disk, local>>

(* A file counts as written once its body is. The body goes to the file that *)
(* was opened: if it has been removed since, the path keeps what it has.     *)
WriteOutput(w) ==
    LET written == local[w].written + 1
        here == disk[Current(w)].by = w
    IN  /\ Goto(w, "writing", IF written < Len(Outputs[w]) THEN "opening" ELSE "verifying")
        /\ disk' = IF here
                     THEN [disk EXCEPT ![Current(w)] = Finished(w)]
                     ELSE disk
        /\ local' = [local EXCEPT ![w].written = written]
        /\ UNCHANGED <<source, plan>>

(* The copy is read back: its digest is the planned one unless an include    *)
(* that it shares with the source has been edited since.                     *)
CopyDiffers(w) == w \in Beside /\ source["includes"] = "edited"

(* A file may have been removed, or replaced by another command: an equal    *)
(* application leaves an equal copy, and a generated deck is only validated. *)
Replaced(w) == \E i \in Parts(w) : disk[Outputs[w][i]].by # w

Verify(w) ==
    /\ ~CopyDiffers(w)
    /\ \A i \in Parts(w) : /\ Exists(Outputs[w][i])
                           /\ w \in Appliers => disk[Outputs[w][i]].whole
    /\ Goto(w, "verifying", "recording")
    /\ UNCHANGED <<source, plan, disk, local>>

(* A generated deck may also fail its static validation. *)
VerifyFails(w) ==
    /\ CopyDiffers(w) \/ Replaced(w) \/ w \in Generators
    /\ Goto(w, "verifying", "failing")
    /\ UNCHANGED <<source, plan, disk, local>>

(* generate_deck counts the manifest as created before it has a body. *)
OpenSidecar(w) ==
    /\ ~Exists(Sidecar[w])
    /\ Goto(w, "recording", "closing")
    /\ disk' = [disk EXCEPT ![Sidecar[w]] = Created(w)]
    /\ local' = IF w \in Generators
                  THEN [local EXCEPT ![w].written = local[w].written + 1]
                  ELSE local
    /\ UNCHANGED <<source, plan>>

SidecarExists(w) ==
    /\ Exists(Sidecar[w])
    /\ Goto(w, "recording", "failing")
    /\ UNCHANGED <<source, plan, disk, local>>

WriteSidecar(w) ==
    LET here == disk[Sidecar[w]].by = w   \* else removed since it was opened
    IN  /\ Goto(w, "closing", "done")
        /\ disk' = IF here
                     THEN [disk EXCEPT ![Sidecar[w]] = Finished(w)]
                     ELSE disk
        /\ UNCHANGED <<source, plan, local>>

WriteFails(w) ==
    /\ "write" \in Faults
    /\ \E from \in {"opening", "writing", "verifying", "recording", "closing"} :
           Goto(w, from, "failing")
    /\ local' = [local EXCEPT ![w].torn = (pc[w] = "writing")]
    /\ UNCHANGED <<source, plan, disk>>

-----------------------------------------------------------------------------
(* The except clause *)

(* apply_plan removes the audit first, whoever wrote it. *)
RemoveAudit(w) ==
    /\ w \in Appliers
    /\ Goto(w, "failing", "removing")
    /\ disk' = [disk EXCEPT ![Sidecar[w]] = Absent]
    /\ local' = [local EXCEPT ![w].unlinked = TRUE]
    /\ UNCHANGED <<source, plan>>

KeepManifest(w) ==
    /\ w \in Generators
    /\ Goto(w, "failing", "removing")
    /\ UNCHANGED <<source, plan, disk, local>>

(* It then removes what is at the path of each written file by now. *)
RemoveOutput(w) ==
    /\ pc[w] = "removing" /\ local[w].written > 0
    /\ disk' = [disk EXCEPT ![Target(w, local[w].written)] = Absent]
    /\ local' = [local EXCEPT ![w].written = local[w].written - 1]
    /\ UNCHANGED <<source, plan, pc>>

RemovedAll(w) ==
    /\ local[w].written = 0
    /\ Goto(w, "removing", "raised")
    /\ UNCHANGED <<source, plan, disk, local>>

(* The rollback itself raises and leaves the rest of its files behind. *)
RemovalFails(w) ==
    /\ "unlink" \in Faults
    /\ \E from \in {"failing", "removing"} : Goto(w, from, "stranded")
    /\ UNCHANGED <<source, plan, disk, local>>

-----------------------------------------------------------------------------
(* The environment *)

EndPcs == {"refused", "raised", "stranded", "done", "crashed"}

Crash(w) ==
    /\ "crash" \in Faults
    /\ pc[w] \notin EndPcs
    /\ Goto(w, pc[w], "crashed")
    /\ UNCHANGED <<source, plan, disk, local>>

Edit(part) ==
    /\ "edit" \in Faults
    /\ source' = [source EXCEPT ![part] = "edited"]
    /\ UNCHANGED <<plan, disk, pc, local>>

Replan ==
    /\ "replan" \in Faults
    /\ plan' = "second"
    /\ UNCHANGED <<source, disk, pc, local>>

WriterStep(w) ==
    \/ Review(w) \/ ReviewRefuses(w) \/ PlanRefused(w) \/ LoadPlan(w)
    \/ CheckDestination(w) \/ DestinationTaken(w)
    \/ ReadSource(w) \/ SourceStale(w) \/ CheckOutputs(w)
    \/ OpenOutput(w) \/ OutputExists(w) \/ WriteOutput(w)
    \/ Verify(w) \/ VerifyFails(w)
    \/ OpenSidecar(w) \/ SidecarExists(w) \/ WriteSidecar(w)
    \/ RemoveAudit(w) \/ KeepManifest(w) \/ RemoveOutput(w) \/ RemovedAll(w)

Next ==
    \/ \E w \in Writers : WriterStep(w) \/ WriteFails(w) \/ RemovalFails(w) \/ Crash(w)
    \/ \E part \in {"root", "includes"} : Edit(part)
    \/ Replan

Spec == Init /\ [][Next]_vars

-----------------------------------------------------------------------------
(* Properties *)

PcValues == {"reviewing", "loading", "checking", "reading", "mapping", "opening", "writing",
             "verifying", "recording", "closing", "failing", "removing"} \cup EndPcs

FileRecords == [by : Writers \cup {Nobody}, whole : BOOLEAN, base : Revisions]
LocalRecords == [reviewed : Plans \cup {"none"}, loaded : Plans \cup {"none"},
                 base : Revisions, written : Nat, torn : BOOLEAN, unlinked : BOOLEAN]

(* Every variable holds a value the code can give it; apply_plan never       *)
(* counts its audit among the written files.                                 *)
TypeOK ==
    /\ source \in [{"root", "includes"} -> Revisions]
    /\ plan \in Plans
    /\ disk \in [Files -> FileRecords]
    /\ pc \in [Writers -> PcValues]
    /\ local \in [Writers -> LocalRecords]
    /\ \A w \in Writers :
          \/ local[w].written <= Len(Outputs[w])
          \/ w \in Generators /\ local[w].written = Len(Outputs[w]) + 1

Whole(w) == [by |-> w, whole |-> TRUE, base |-> "planned"]
WholeOutputs(w) == \A i \in Parts(w) : disk[Outputs[w][i]] = Whole(w)

(* The files that a failed application had named as its audit and removed.   *)
Unlinked == {Sidecar[v] : v \in {u \in Appliers : local[u].unlinked}}

Intact(w) == \A i \in Parts(w) :
                Outputs[w][i] \in Unlinked \/ disk[Outputs[w][i]] = Whole(w)

(* What a command that reported success has written stays there, complete    *)
(* and derived from the reviewed revision, whatever its competitors do: they *)
(* overwrite nothing, and their rollbacks remove only files they wrote,      *)
(* except for a file that a failed application had named as its audit.       *)
DoneIsComplete == \A w \in Writers : pc[w] = "done" => Intact(w)

(* A finished sidecar vouches for its outputs at any time, also when its     *)
(* command is killed or rolls back, with the same exception.                 *)
SidecarVouches ==
    \A w \in Writers :
        disk[Sidecar[w]].by = w /\ disk[Sidecar[w]].whole => Intact(w)

Leftovers(w) == {f \in Files : disk[f].by = w}

(* A command that failed at whatever point of the copy, among whatever       *)
(* competitors, and could roll back leaves nothing; only where the body of a *)
(* file could not be written that one file stays, and it is not complete.    *)
FailureLeavesNoDeck ==
    \A w \in Writers : pc[w] \in {"refused", "raised"} =>
        \/ Leftovers(w) = {}
        \/ local[w].torn /\ \E f \in Files : Leftovers(w) = {f} /\ ~disk[f].whole

(* What the commands that reported success have written is all there: the    *)
(* decks, and the audit of each.                                             *)
SuccessStays ==
    \A w \in Writers : pc[w] = "done" => WholeOutputs(w) /\ disk[Sidecar[w]] = Whole(w)

(* docs/api/MODEL_TOOL_CONTRACTS.md: apply_change "rolls back files created  *)
(* by a failed copy". The rollback of a command that failed has removed all  *)
(* that the command created, or at least nothing of those that succeeded.    *)
RollbackIsExact ==
    \A w \in Writers : pc[w] = "raised" => Leftovers(w) = {} \/ SuccessStays
=============================================================================
