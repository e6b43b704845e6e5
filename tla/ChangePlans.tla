---------------------------- MODULE ChangePlans ----------------------------
(***************************************************************************)
(* The life of a change plan (change.py): a typed request is previewed     *)
(* against the deck as it is, saved, perhaps composed with another, and    *)
(* applied into a new deck, while the engineer goes on saving revisions of *)
(* the deck and of the mesh.  A stale plan is refused and may be refreshed *)
(* by replaying its selector.                                              *)
(*                                                                         *)
(* How the files are written, and what a failure leaves behind, is the     *)
(* subject of SourceWrites; here the contents matter.                      *)
(***************************************************************************)
EXTENDS Planning, ModelEdits

CONSTANTS Revisions,  \* the pairs of a deck and a revision of it that may be saved
          MeshFiles,    \* the revisions of the mesh file
          Starts,     \* the pairs of a deck and a mesh file that a session starts with
          Requests,   \* the typed requests that are made
          Pairs,      \* the pairs of requests that are made to be composed
          Intents,    \* the intents a deck is generated from
          MaxSaves    \* bound: revisions saved after the first

\* A deck is finitely many files, the input deck among them.  A request has the
\* parameters of its planner, and more fields that are not read.
IsDeck(files) == IsFiniteSet(DOMAIN files) /\ Root \in DOMAIN files
Fielded(r) ==
    /\ FieldsOf(r) \subseteq DOMAIN r
    /\ "occurrence" \in FieldsOf(r) => r.occurrence \in Nat

ASSUME DecksAssumption ==
    /\ \A start \in Starts : IsDeck(start[1])
    /\ \A revision \in Revisions : IsDeck(revision[2])
ASSUME FieldsAssumption ==
    /\ \A r \in Requests : Fielded(r)
    /\ \A pair \in Pairs : Fielded(pair[2])

VARIABLES deck,     \* the source files on disk
          mesh,     \* the mesh file on disk
          plans,    \* the plan saved under each name
          output,   \* the deck that was written, with where it came from
          saves     \* revisions saved so far

vars == <<deck, mesh, plans, output, saves>>

Names == {"first", "second"}
Nothing == [kind |-> "nothing"]

-----------------------------------------------------------------------------
\* Making a plan.

\* The text of all files after the patched ones are replaced.
Replaced(files, out) == [f \in DOMAIN files |-> IF f \in DOMAIN out THEN out[f] ELSE files[f]]

(* slip: the proposal is not validated. *)
ProposalsUnchecked(files, b, patches) == {Replaced(files, out) : out \in PatchedFiles(b.files, patches)}

\* _typed_plan: what the patches make of the deck, unless the source set with
\* the patched text has errors.
Proposals(files, b, patches) ==
    {Replaced(files, out) : out \in {o \in PatchedFiles(b.files, patches) :
                                        Validation(b.set, Replaced(files, o)) = <<>>}}

\* The selector of a plan: the arguments of its planner, with the record that a
\* retarget selected and the place that an appended value takes.
Kind(r) == CASE r.op = "retarget-nodal-record" -> r.kind
             [] r.op = "retarget-section" -> "section"
             [] r.op = "retarget-coordinate-operation" -> "coordinate-operation"
Retargets(r) == r.op \in {"retarget-nodal-record", "retarget-section", "retarget-coordinate-operation"}
Appends(r) == r.op = "set-parameter" /\ r.parameter \notin Flags /\ r.append
SelectedRecord(b, r) == CHOOSE k \in Selected(r, Len(Candidates(b, Kind(r), r))) : TRUE
ValuesNow(b, r) == Len(ParameterValues(CHOOSE c \in ConstructLines(b, r) : TRUE, r.parameter))
(* slip: the occurrence is counted from zero. *)
SelectorFromZero(b, r) ==
    IF Retargets(r) THEN [Arguments(r) EXCEPT !.occurrence = SelectedRecord(b, r) - 1]
    ELSE IF Appends(r) THEN [Arguments(r) EXCEPT !.occurrence = ValuesNow(b, r) + 1]
    ELSE Arguments(r)
Selector(b, r) ==
    IF Retargets(r) THEN [Arguments(r) EXCEPT !.occurrence = SelectedRecord(b, r)]
    ELSE IF Appends(r) THEN [Arguments(r) EXCEPT !.occurrence = ValuesNow(b, r) + 1]
    ELSE Arguments(r)

\* The call that plan_refresh_change and _validated_plan_proposal make of a
\* selector: where an appended value was to go is not passed on.
Replay(s) == IF Appends(s) THEN [s EXCEPT !.occurrence = 0] ELSE s
MeshFor(r) == IF r.op = "import-mesh" THEN r.mesh ELSE <<>>

\* The plan functions: at most one plan for a request.
PlansOn(b, files, r, asked) ==
    UNION {{[kind |-> "plan", asked |-> r, request |-> Selector(b, asked), parts |-> <<>>,
             base |-> b.files, patches |-> patches, proposed |-> proposed] :
                proposed \in Proposals(files, b, patches)} :
              patches \in Patches(b, asked)}
MakePlan(files, meshFile, r) ==
    PlansOn(Base(files), files, r, IF r.op = "import-mesh" THEN [r EXCEPT !.mesh = meshFile] ELSE r)

\* _source_set_for_plan: neither the root nor an include file has changed.
IsCurrent(plan) == plan.base = Content(Read(deck), deck)

\* _validated_plan_proposal: the plan is derived again from its selector, and
\* the mesh that it read is the mesh on disk.
Rederived(plan) ==
    {p \in MakePlan(deck, MeshFor(plan.request), Replay(plan.request)) :
        /\ p.patches = plan.patches
        /\ plan.request.op = "import-mesh" => plan.request.mesh = mesh}

\* _composite_plan: all components hold for this revision, their patches do not
\* overlap, and the result has no errors.
Joined(p, q) ==
    IF \E part \in {p, q} : part.kind # "plan" \/ ~IsCurrent(part) \/ Rederived(part) = {} THEN {}
    ELSE {[kind |-> "joint", asked |-> <<p.asked, q.asked>>, request |-> Nothing, parts |-> <<p, q>>,
           base |-> p.base, patches |-> p.patches \o q.patches, proposed |-> proposed] :
              proposed \in Proposals(deck, [set |-> Read(deck), files |-> p.base], p.patches \o q.patches)}

(* slip: only the root is compared, and the proposal of the plan is taken. *)
ConfirmedByRoot(plan) == IF plan.base[Root] = deck[Root] THEN {plan} ELSE {}

\* The whole check before a plan is shown for review or applied.
Confirmed(plan) ==
    IF ~IsCurrent(plan) THEN {}
    ELSE IF plan.kind = "joint"
         THEN {p \in Joined(plan.parts[1], plan.parts[2]) : p.proposed = plan.proposed}
         ELSE Rederived(plan)

-----------------------------------------------------------------------------
\* The steps.

Init ==
    /\ \E start \in Starts : deck = start[1] /\ mesh = start[2]
    /\ plans = [n \in Names |-> Nothing]
    /\ output = Nothing
    /\ saves = 0

\* A preview: plan and save.
Ask(name, r) ==
    /\ plans[name] = Nothing
    /\ \E plan \in MakePlan(deck, mesh, r) : plans' = [plans EXCEPT ![name] = plan]
    /\ UNCHANGED <<deck, mesh, output, saves>>

\* plan_compose_changes.
Compose ==
    /\ \E plan \in Joined(plans["first"], plans["second"]) :
          plans' = [plans EXCEPT !["first"] = plan, !["second"] = Nothing]
    /\ UNCHANGED <<deck, mesh, output, saves>>

(* slip: an appended value is replayed as a change of the value. *)
RefreshWithoutAppend(name) ==
    /\ plans[name].kind = "plan"
    /\ ~IsCurrent(plans[name])
    /\ \E plan \in MakePlan(deck, mesh,
          IF Appends(plans[name].request) THEN [Replay(plans[name].request) EXCEPT !.append = FALSE]
          ELSE plans[name].request) :
          plans' = [plans EXCEPT ![name] = [plan EXCEPT !.asked = plans[name].asked]]
    /\ UNCHANGED <<deck, mesh, output, saves>>

\* plan_refresh_change: only of a stale plan, and not of a composition.
Refresh(name) ==
    /\ plans[name].kind = "plan"
    /\ ~IsCurrent(plans[name])
    /\ \E plan \in MakePlan(deck, mesh, Replay(plans[name].request)) :
          plans' = [plans EXCEPT ![name] = [plan EXCEPT !.asked = plans[name].asked]]
    /\ UNCHANGED <<deck, mesh, output, saves>>

\* apply_plan: the files of the source set with the patched text, in a new
\* directory, where the copy must read as the set that was reviewed.  There is
\* one destination, and one that exists is refused.
Written(plan) == Content(Read(deck), plan.proposed)
Apply(name) ==
    /\ plans[name] # Nothing /\ output = Nothing
    /\ \E plan \in Confirmed(plans[name]) :
          /\ Documents(Read(Written(plan))) = Documents(Read(deck))
          /\ output' = [kind |-> "applied", plan |-> plan, deck |-> deck, text |-> Written(plan)]
    /\ UNCHANGED <<deck, mesh, plans, saves>>

\* generate_deck from the mesh on disk.
Generate(intent) ==
    /\ output = Nothing
    /\ \E read \in ImportEle(mesh) : \E text \in Generated(read, intent) :
          output' = [kind |-> "generated", mesh |-> read, intent |-> intent, text |-> text]
    /\ UNCHANGED <<deck, mesh, plans, saves>>

\* The engineer saves another revision of the deck or of the mesh.
Save ==
    /\ saves < MaxSaves
    /\ saves' = saves + 1
    /\ \/ (\E next \in Revisions : next[1] = deck /\ deck' = next[2]) /\ UNCHANGED mesh
       \/ mesh' \in MeshFiles \ {mesh} /\ UNCHANGED deck
    /\ UNCHANGED <<plans, output>>

\* The second plan is asked to go with the first.
Next ==
    \/ \E r \in Requests : Ask("first", r)
    \/ \E pair \in Pairs : plans["first"].kind = "plan" /\ plans["first"].asked = pair[1]
                            /\ Ask("second", pair[2])
    \/ \E name \in Names : Refresh(name) \/ Apply(name)
    \/ Compose
    \/ \E intent \in Intents : Generate(intent)
    \/ Save

Spec == Init /\ [][Next]_vars

-----------------------------------------------------------------------------
\* What the operations promise.

Effect(m, r) ==
    CASE r.op = "add-node" -> NodeAdded(m, r)
      [] r.op = "add-element" -> ElementAdded(m, r)
      [] r.op = "delete-entity" -> EntityDeleted(m, r)
      [] r.op \in {"create-set", "add-set-members"} -> MembersJoined(m, r)
      [] r.op = "remove-set-member" -> MemberRemoved(m, r)
      [] r.op = "delete-set" -> SetDeleted(m, r)
      [] Retargets(r) -> RecordRetargeted(m, r, Kind(r))
      [] r.op = "rename-set" -> SetRenamed(m, r)
      [] r.op = "rename-boundary-condition" -> ConditionRenamed(m, r)
      [] r.op = "set-parameter" -> IF r.parameter \in Flags THEN FlagSet(m, r) ELSE ValueSet(m, r)
      [] r.op = "remove-parameter" -> ValueRemoved(m, r)
      [] r.op = "import-mesh" -> MeshJoined(m, r.cluster, CHOOSE x \in ImportEle(r.mesh) : TRUE)

\* The texts after two requests, one made on what the other left.
After(files, r) == {p.proposed : p \in MakePlan(files, MeshFor(r), Replay(r))}
InOrder(files, r, q) == UNION {After(f, q) : f \in After(files, r)}

-----------------------------------------------------------------------------
\* Properties.

\* The exact patch of a typed request does to the meaning of the deck what the
\* operation promises, and nothing else: the change refines the abstract edit.
PatchDoesOperation ==
    \A n \in Names : plans[n].kind = "plan" =>
        Meaning(plans[n].proposed) = Effect(Meaning(plans[n].base), plans[n].request)

\* When two requests can be made one after the other in either order with the
\* same meaning, their composition has that meaning too.
ComposedIsBoth ==
    \A n \in Names : plans[n].kind = "joint" =>
        LET r == plans[n].parts[1].request
            q == plans[n].parts[2].request
        IN  \A one \in InOrder(plans[n].base, r, q), other \in InOrder(plans[n].base, q, r) :
                Meaning(one) = Meaning(other) => Meaning(plans[n].proposed) = Meaning(one)

\* However often a plan was refreshed (plan_refresh_change replays the selector
\* of the stale plan), it makes on its base the change that was asked at first:
\* the request itself makes it, of the record that the plan names when several
\* are alike by now.
Pinned(asked, selector) ==
    IF Retargets(asked) THEN [asked EXCEPT !.occurrence = selector.occurrence] ELSE asked
RefreshAsAsked ==
    \A n \in Names : plans[n].kind = "plan" =>
        \E p \in MakePlan(plans[n].base, MeshFor(plans[n].request), Pinned(plans[n].asked, plans[n].request)) :
            p.patches = plans[n].patches

\* A plan whose files are as they were when it was made, and whose mesh is on
\* disk, is confirmed with the text that was reviewed: what the plan keeps of
\* the request is enough to derive it again.
CurrentIsConfirmed ==
    \A n \in Names :
        LET plan == plans[n]
        IN  /\ plan.kind = "plan" /\ IsCurrent(plan)
            /\ plan.request.op = "import-mesh" => plan.request.mesh = mesh
            => \E p \in Confirmed(plan) :
                  Content(Read(deck), p.proposed) = Content(Read(deck), plan.proposed)

\* A deck that was written, after its plan was validated, has no errors when it
\* is read again.
OutputSound == output # Nothing => Validation(Read(output.text), output.text) = <<>>

\* What others saved between the preview and the application survives: the
\* applied deck is the deck of that moment with the confirmed change.
SavesSurvive ==
    output.kind = "applied" /\ output.plan.kind = "plan" =>
        Meaning(output.text) = Effect(Meaning(output.deck), output.plan.request)

\* The written deck is the source set at the moment of the application with the
\* patches of the plan: what was saved in a file that none of them is for is
\* there, and in the others all that they do not replace.
AppliedToDeck ==
    output.kind = "applied" =>
        LET patches == output.plan.patches
        IN  /\ DOMAIN output.text = Documents(Read(output.deck))
            /\ \A f \in DOMAIN output.text :
                IF \A k \in DOMAIN patches : patches[k].file # f THEN output.text[f] = output.deck[f]
                ELSE output.text[f] \in PatchedMany(output.deck[f], PatchesFor(patches, f))

\* The source set is what the includes reach, each file read once, and a cycle
\* is an error exactly when some file includes itself, directly or not.
CycleIsReported ==
    LET set == Read(deck)
        reached == Reachable(deck, {Root})
        errors == GraphErrors(set)
    IN  /\ Documents(set) = reached /\ Len(set.documents) = Cardinality(reached)
        /\ (\E k \in DOMAIN errors : errors[k].code = "E204")
              <=> \E f \in reached : f \in Reachable(deck, Includes(deck, f))

\* What a deck generated from a mesh and an intent means.
IsAsked(m, from, intent) ==
    LET joined == MeshJoined([m EXCEPT !.nodes = {}, !.elements = {}, !.sets = {}, !.members = {}],
                             intent.cluster, from)
        targets == intent.constraints \o intent.loads
        sets == NodeSets(from)
    IN  /\ <<m.nodes, m.elements, m.sets, m.members>>
              = <<joined.nodes, joined.elements, joined.sets, joined.members>>
        /\ [k \in DOMAIN m.records |-> m.records[k].to]
              = [k \in DOMAIN sets |-> Key("node-set", sets[k].name, intent.cluster)]
        /\ [k \in DOMAIN targets |-> m.constructs[1].settings[2 * k][2]]
              = [k \in DOMAIN targets |-> <<intent.cluster, ".", targets[k]>>]

\* A generated deck is the mesh, with one selection per node set, and with the
\* constraints and loads of the intent on their sets.
GenerationAsAsked ==
    output.kind = "generated" =>
        IsAsked(Meaning(output.text), output.mesh, output.intent)
=============================================================================
