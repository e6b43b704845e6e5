------------------------------ MODULE Planning ------------------------------
(***************************************************************************)
(* Typed change requests and the exact patches they become (the planners   *)
(* of change.py).                                                          *)
(*                                                                         *)
(* A request is a record: its op and the fields of its selector.  Patches  *)
(* of a request are derived from the semantic index of the deck as it is;  *)
(* an operator that may refuse returns a set, empty when it refuses.       *)
(* Names, members and coordinates are well formed in every request: the    *)
(* checks of the spelling of a value are not represented.                  *)
(***************************************************************************)
EXTENDS Meshes

CONSTANTS Repeatable,  \* parameters registered as repeated, the last one counts
          Optional,    \* parameters whose insertion and removal are verified
          Flags        \* parameters that are flags of a construct's first line

\* The deck a planner reads: its source set, the text, its lines and the index.
BaseOf(set, files) ==
    [set |-> set, files |-> Content(set, files), index |-> Index(set, files),
     lines |-> [f \in Documents(set) |-> Lines(files[f])]]
Base(files) == BaseOf(Read(files), files)

LineOf(b, item) == b.lines[item.file][item.line]
Patch(file, start, end, old, new) ==
    [file |-> file, start |-> start, end |-> end, old |-> old, new |-> new]
Replace(b, file, start, end, new) ==
    Patch(file, start, end, SubSeq(b.files[file], start + 1, end), new)

Found(b, key) ==
    LET at == At(b.index, key) IN [k \in DOMAIN at |-> b.index.entities[at[k]]]
Exists(b, key) == Known(b.index, key)
ReferencesWhere(b, Test(_)) == SelectSeq(b.index.references, Test)

-----------------------------------------------------------------------------
\* Insertion at the end of a cluster.

\* _cluster_source_boundary: the next TYPE or STOP below the cluster's name in
\* the same file; the end of an include file that has none.
Boundary(b, cluster) ==
    LET found == Found(b, Key("cluster", cluster, ""))
        lines == b.lines[found[1].file]
        below == SelectSeq(Indices(lines), LAMBDA n :
                     n > found[1].line /\ FirstField(lines[n]) \in {"*NAME", "*TYPE", "*STOP"})
    IN  IF Len(found) # 1 THEN {}
        ELSE IF below = <<>>
        THEN IF found[1].file = Root THEN {}
             ELSE {[file |-> found[1].file, at |-> Len(b.files[found[1].file])]}
        ELSE IF FirstField(lines[below[1]]) = "*NAME" THEN {}
        ELSE {[file |-> found[1].file, at |-> lines[below[1]].start]}

\* _record_prefix: a line end first, unless the place is the start of a line.
Prefix(raw, at) == IF at = 0 \/ raw[at] = Newline THEN <<>> ELSE <<Newline>>

InsertInCluster(b, cluster, tokens) ==
    {<<Patch(p.file, p.at, p.at, <<>>, Prefix(b.files[p.file], p.at) \o tokens)>> :
        p \in Boundary(b, cluster)}

\* _node_patch.
AddNode(b, r) ==
    IF Exists(b, Key("node", r.label, r.cluster)) THEN {}
    ELSE InsertInCluster(b, r.cluster, <<"*NODE", Newline>> \o RecordLine(<<r.label>>))

\* _element_patch: the type must be in use in the cluster, so that its width is
\* known, and every node must exist.
AddElement(b, r) ==
    LET peers == {k \in DOMAIN b.index.entities : /\ b.index.entities[k].kind = "element"
                                                  /\ b.index.entities[k].scope = r.cluster
                                                  /\ b.index.entities[k].target = r.type}
        elset == IF r.elset = "" THEN <<>> ELSE <<Comma, "ELSET", Equals, r.elset>>
    IN  IF \/ Exists(b, Key("element", r.label, r.cluster)) \/ peers = {}
           \/ Len(r.nodes) # ElementWidth[r.type]
           \/ \E k \in DOMAIN r.nodes : ~Exists(b, Key("node", r.nodes[k], r.cluster))
        THEN {}
        ELSE InsertInCluster(b, r.cluster, <<"*ELEM", Comma, "TYPE", Equals, r.type>> \o elset \o <<Newline>>
                                           \o RecordLine(<<r.label>> \o r.nodes))

\* _set_patch: a new set, or a further definition of one that exists.
SetKey(r) == Key(IF r.member = "node" THEN "node-set" ELSE "element-set", r.name, r.cluster)
SetCommand(r) == IF r.member = "node" THEN <<"*NSET", Comma, "NSET", Equals>>
                 ELSE <<"*ELSE", Comma, "ELSET", Equals>>
Listings(b, key) ==
    ReferencesWhere(b, LAMBDA c : c.kind = "contains" /\ KeyOf(b.index.entities[c.from]) = key)
DefineSet(b, r, requireNew) ==
    LET listed == Listings(b, SetKey(r))
        current == {listed[k].to[3] : k \in DOMAIN listed}
    IN  IF \/ Exists(b, SetKey(r)) = requireNew
           \/ \E m \in DOMAIN r.members : ~Exists(b, Key(r.member, r.members[m], r.cluster))
           \/ ~requireNew /\ \E m \in DOMAIN r.members : r.members[m] \in current
        THEN {}
        ELSE InsertInCluster(b, r.cluster, SetCommand(r) \o <<r.name, Newline>>
                                           \o RecordLine(r.members))
CreateSet(b, r) == DefineSet(b, r, TRUE)
AddMembers(b, r) == DefineSet(b, r, FALSE)

\* _mesh_import_patch: a mesh without surfaces, and only into an empty cluster.
\* The request carries the mesh file as it was read.
ImportMesh(b, r) ==
    IF \E k \in DOMAIN b.index.entities :
          /\ b.index.entities[k].scope = r.cluster
          /\ b.index.entities[k].kind \in {"node", "element", "node-set", "element-set", "section"}
    THEN {}
    ELSE UNION {InsertInCluster(b, r.cluster, Render(mesh, Sizes(mesh))) :
                   mesh \in {m \in ImportEle(r.mesh) : m.surfaces = <<>>}}

-----------------------------------------------------------------------------
\* Deletion.

WholeLine(b, file, line) == <<Replace(b, file, line.start, line.end, <<>>)>>

\* _delete_mesh_entity_patch: one explicit record that nothing refers to.
DeleteEntity(b, r) ==
    LET key == Key(r.member, r.label, r.cluster)
        found == Found(b, key)
        Depends(c) == \/ c.to = key
                      \/ c.kind = "member-of" /\ KeyOf(b.index.entities[c.from]) = key
    IN  IF Len(found) # 1 \/ found[1].how = "generated" \/ ReferencesWhere(b, Depends) # <<>>
        THEN {} ELSE {WholeLine(b, found[1].file, LineOf(b, found[1]))}

\* _remove_set_member_patch: the one listing of the member, unless no other
\* member would be listed.  A line of one field goes as a whole; a first field
\* goes with the comma behind it, another with the comma before it.
RemoveMember(b, r) ==
    LET listed == Listings(b, SetKey(r))
        matches == SelectSeq(listed, LAMBDA c : c.to = Key(r.member, r.label, r.cluster))
        line == LineOf(b, matches[1])
        spans == FieldSpans(line)
        nth == {k \in DOMAIN spans : Fields(line)[k] = <<r.label>>}
        k == CHOOSE n \in nth : TRUE
    IN  IF \/ Len(matches) # 1 \/ Cardinality({listed[m].to : m \in DOMAIN listed}) <= 1
        THEN {}
        ELSE IF Cardinality(nth) # 1 THEN {}
        ELSE IF Len(spans) = 1 THEN {WholeLine(b, matches[1].file, line)}
        ELSE IF k = 1 THEN {<<Replace(b, matches[1].file, spans[1].start, spans[1].end + 1, <<>>)>>}
        ELSE {<<Replace(b, matches[1].file, spans[k].start - 1, spans[k].end, <<>>)>>}

\* _delete_set_patch: one explicit definition that nothing refers to, with its
\* records up to the next command of the file; a comment among them blocks it.
DeleteSet(b, r) ==
    LET found == Found(b, SetKey(r))
        lines == b.lines[found[1].file]
        next == SelectSeq(Indices(lines), LAMBDA n : n > found[1].line /\ IsCommand(lines[n]))
        last == IF next = <<>> THEN Len(lines) ELSE next[1] - 1
        span == SubSeq(lines, found[1].line, last)
        active == SelectSeq(span, LAMBDA l : l.text # <<>>)
    IN  IF Len(found) # 1 \/ ReferencesWhere(b, LAMBDA c : c.to = SetKey(r)) # <<>> THEN {}
        ELSE IF \/ found[1].how # "explicit" \/ Len(active) < 2
                \/ \E n \in DOMAIN span : FirstField(span[n]) = Comment
        THEN {}
        ELSE {<<Replace(b, found[1].file, active[1].start, active[Len(active)].end, <<>>)>>}

-----------------------------------------------------------------------------
\* Retargeting one record, selected by what it targets now and, among several,
\* by its occurrence (0 when the request names none).

\* _value_spans: the values that an option has on a line.
SettingsOf(fields, name) ==
    SelectSeq(Indices(fields), LAMBDA k : /\ Len(fields[k]) >= 3
                                          /\ fields[k][1] = name
                                          /\ fields[k][2] = Equals)
ValuesAt(spans, has) ==
    [n \in DOMAIN has |-> [start |-> spans[has[n]].start + 2, end |-> spans[has[n]].end]]
ValueSpans(line, name) == ValuesAt(FieldSpans(line), SettingsOf(Fields(line), name))

\* The occurrence that a request selects among n candidates, none when it is
\* ambiguous or out of range.
Selected(r, n) ==
    IF r.occurrence = 0 THEN {k \in {1} : n = 1} ELSE {k \in {r.occurrence} : k <= n}
(* slip: records of every kind are counted. *)
CandidatesOfAnyKind(b, kind, r) ==
    SelectSeq(b.index.entities, LAMBDA e : /\ e.scope = r.cluster
                                           /\ (IF kind = "section" THEN e.name ELSE e.target) = r.current)
CandidatesAt(b, kind, cluster, current) ==
    SelectSeq(b.index.entities, LAMBDA e : /\ e.kind = kind /\ e.scope = cluster
                                           /\ (IF kind = "section" THEN e.name ELSE e.target) = current)
Candidates(b, kind, r) == CandidatesAt(b, kind, r.cluster, r.current)

\* _nodal_record_target_patch: only a boundary record restricts its target by
\* its format.
Admissible(b, r, format) ==
    LET isSet == Exists(b, Key("node-set", r.new, r.cluster))
        isNode == r.new \in NumeralSet /\ Exists(b, Key("node", r.new, r.cluster))
    IN  CASE r.kind = "nodal-boundary" /\ format = "POLY" -> isSet
          [] r.kind = "nodal-boundary" /\ format = "LIST" -> isNode
          [] OTHER -> isSet \/ isNode
RetargetNodal(b, r) ==
    LET among == Candidates(b, r.kind, r)
    IN  {<<Replace(b, among[k].file, LineOf(b, among[k]).start,
                   LineOf(b, among[k]).start + 1, <<r.new>>)>> :
            k \in {n \in Selected(r, Len(among)) : Admissible(b, r, among[n].how)}}

\* _section_target_patch and _coordinate_operation_target_patch: the value of
\* the ELSET or NSET option of the command line.
RetargetOption(b, r, kind, set, option) ==
    LET among == Candidates(b, kind, r)
        Span(k) == ValueSpans(LineOf(b, among[k]), option)
    IN  {<<Replace(b, among[k].file, Span(k)[1].start, Span(k)[1].end, <<r.new>>)>> :
            k \in {n \in Selected(r, Len(among)) :
                     Exists(b, Key(set, r.new, r.cluster)) /\ Len(Span(n)) = 1}}
RetargetSection(b, r) == RetargetOption(b, r, "section", "element-set", "ELSET")
RetargetCoordinates(b, r) == RetargetOption(b, r, "coordinate-operation", "node-set", "NSET")

-----------------------------------------------------------------------------
\* Renaming a definition with every token that refers to it.

\* _set_rename_patches: one explicit definition, a new name that is free, and
\* on every line with references as many name tokens as references.
RenameSet(b, r) ==
    LET key == SetKey(r)
        found == Found(b, key)
        span == ValueSpans(LineOf(b, found[1]), IF r.member = "node" THEN "NSET" ELSE "ELSET")
        refers == ReferencesWhere(b, LAMBDA c : c.to = key /\ c.kind # "member-of")
        Same(c, d) == c.file = d.file /\ c.line = d.line
        places == SelectSeq(Indices(refers), LAMBDA k : \A j \in 1 .. k - 1 : ~Same(refers[j], refers[k]))
        Expected(k) == Cardinality({j \in DOMAIN refers : Same(refers[j], refers[k])})
        Tokens(k) == LET text == LineOf(b, refers[k]).text
                     IN  SelectSeq(Indices(text), LAMBDA n : text[n] = r.name)
        Renamed(k) == LET start == LineOf(b, refers[k]).start - 1
                      IN  [n \in DOMAIN Tokens(k) |->
                              Replace(b, refers[k].file, start + Tokens(k)[n],
                                      start + Tokens(k)[n] + 1, <<r.new>>)]
    IN  IF Len(found) # 1 \/ Exists(b, [key EXCEPT ![3] = r.new]) THEN {}
        ELSE IF \/ found[1].how # "explicit" \/ Len(span) # 1
                \/ \E n \in DOMAIN places : Len(Tokens(places[n])) # Expected(places[n])
        THEN {}
        ELSE {<<Replace(b, found[1].file, span[1].start, span[1].end, <<r.new>>)>>
              \o Over(LAMBDA s, k : s \o Renamed(k), <<>>, places)}

\* _boundary_condition_rename_patches: the definition and the loading sequence.
RenameCondition(b, r) ==
    LET key == Key("boundary-condition", r.name, "")
        found == Found(b, key)
        changes == ReferencesWhere(b, LAMBDA c : c.to = key)
        places == <<[item |-> found[1], option |-> "name"]>>
                  \o [k \in DOMAIN changes |-> [item |-> changes[k], option |-> "change"]]
        Spans(p) == ValueSpans(LineOf(b, p.item), p.option)
    IN  IF Len(found) # 1 \/ Exists(b, Key("boundary-condition", r.new, "")) THEN {}
        ELSE IF \E k \in DOMAIN places : Len(Spans(places[k])) # 1 THEN {}
        ELSE {[k \in DOMAIN places |->
                  Replace(b, Root, Spans(places[k])[1].start, Spans(places[k])[1].end, <<r.new>>)]}
-----------------------------------------------------------------------------
\* Parameters of the constructs of the BOUNDARY block.

\* _find_construct_lines: the first and last line of the nth construct.
BoundaryLines(lines, blocks) ==
    {n \in DOMAIN lines : \E k \in ItemsOf(blocks) :
        /\ k.name = "BOUNDARY" /\ n > k.start_line
        /\ k.end_line = 0 \/ n <= k.end_line}
ConstructBetween(raw, lines, from, stops) ==
    [first |-> lines[from],
     body |-> SubSeq(lines, from + 1, IF stops = <<>> THEN Len(lines) ELSE stops[1] - 1),
     end |-> IF stops = <<>> THEN Len(raw) ELSE lines[stops[1]].start]
ConstructFrom(raw, lines, inside, starts, nth) ==
    IF Len(starts) < nth THEN {}
    ELSE {ConstructBetween(raw, lines, starts[nth], SelectSeq(Indices(lines), LAMBDA n :
              /\ n > starts[nth]
              /\ IsCommand(lines[n]) \/ FirstField(lines[n]) = "END BOUNDARY" \/ n \notin inside))}
ConstructLines(b, r) ==
    LET lines == b.lines[Root]
        inside == BoundaryLines(lines, Blocks(lines))
        starts == SelectSeq(Indices(lines), LAMBDA n : n \in inside /\ FirstField(lines[n]) = r.construct)
    IN  ConstructFrom(b.files[Root], lines, inside, starts, r.nth)

\* The values that a parameter has in the construct, in the order of the lines.
ParameterValues(c, parameter) ==
    Over(LAMBDA s, line : LET spans == ValueSpans(line, parameter)
                          IN  s \o [k \in DOMAIN spans |-> [line |-> line, start |-> spans[k].start,
                                                            end |-> spans[k].end]],
         <<>>, c.body)

\* _select_parameter_candidate: without an occurrence there may be only one;
\* with one, the parameter must be registered as repeated.
SelectValue(r, values) ==
    IF r.occurrence # 0 /\ r.parameter \notin Repeatable THEN {}
    ELSE {values[k] : k \in Selected(r, Len(values))}

\* _flag_parameter_plan: a flag stands on the first line, behind a comma.
SetFlag(b, c, r) ==
    LET fields == Fields(c.first)
        has == SelectSeq(Indices(fields), LAMBDA k : fields[k] = <<r.parameter>>)
        spans == FieldSpans(c.first)
        textEnd == c.first.start + Len(c.first.text)
    IN  IF Len(has) > 1 \/ (r.value = "true") = (has # <<>>) THEN {}
        ELSE IF has = <<>> THEN {<<Patch(Root, textEnd, textEnd, <<>>, <<Comma, r.parameter>>)>>}
        ELSE {<<Replace(b, Root, spans[has[1]].start - 1, spans[has[1]].end, <<>>)>>}

\* plan_parameter_change: a flag, a value that is there, or a new record at the
\* end of the construct (a repeated parameter may be appended to).
InsertValue(b, c, r) ==
    IF r.parameter \notin Optional \cup Repeatable THEN {}
    ELSE {<<Patch(Root, c.end, c.end, <<>>,
                  Prefix(b.files[Root], c.end) \o <<r.parameter, Equals, r.value, Newline>>)>>}
SetValue(b, c, r) ==
    LET values == ParameterValues(c, r.parameter)
    IN  IF r.append THEN IF r.parameter \in Repeatable /\ r.occurrence = 0 THEN InsertValue(b, c, r) ELSE {}
        ELSE IF values = <<>> THEN IF r.occurrence = 0 THEN InsertValue(b, c, r) ELSE {}
        ELSE {<<Replace(b, Root, v.start, v.end, <<r.value>>)>> :
                 v \in {w \in SelectValue(r, values) :
                           SubSeq(b.files[Root], w.start + 1, w.end) # <<r.value>>}}
SetParameter(b, r) ==
    IF r.construct = "*COND" /\ r.parameter = "name" THEN {}
    ELSE UNION {IF r.parameter \in Flags THEN SetFlag(b, c, r) ELSE SetValue(b, c, r) :
                   c \in ConstructLines(b, r)}

\* plan_parameter_removal: the record of one value, if it stands alone.
RemoveParameter(b, r) ==
    {WholeLine(b, Root, v.line) :
        v \in {w \in UNION {SelectValue(r, ParameterValues(c, r.parameter)) : c \in ConstructLines(b, r)} :
                  r.parameter \in Optional \cup Repeatable /\ Len(Fields(w.line)) = 1}}

-----------------------------------------------------------------------------
\* The parameters of the planner of each request.  A value that is absent is
\* blank; a flag has no occurrence and nothing to append to.
FieldsOf(r) == {"op"} \cup
    CASE r.op = "add-node" -> {"cluster", "label"}
      [] r.op = "add-element" -> {"cluster", "label", "type", "nodes", "elset"}
      [] r.op = "delete-entity" -> {"member", "cluster", "label"}
      [] r.op \in {"create-set", "add-set-members"} -> {"cluster", "member", "name", "members"}
      [] r.op = "remove-set-member" -> {"cluster", "member", "name", "label"}
      [] r.op = "delete-set" -> {"cluster", "member", "name"}
      [] r.op = "retarget-nodal-record" -> {"kind", "cluster", "current", "new", "occurrence"}
      [] r.op \in {"retarget-section", "retarget-coordinate-operation"} ->
            {"cluster", "current", "new", "occurrence"}
      [] r.op = "rename-set" -> {"cluster", "member", "name", "new"}
      [] r.op = "rename-boundary-condition" -> {"name", "new"}
      [] r.op = "set-parameter" -> {"construct", "nth", "parameter", "value"}
            \cup (IF r.parameter \in Flags THEN {} ELSE {"occurrence", "append"})
      [] r.op = "remove-parameter" -> {"construct", "nth", "parameter", "occurrence"}
      [] r.op = "import-mesh" -> {"cluster", "mesh"}
Arguments(r) == [field \in FieldsOf(r) |-> r[field]]

\* The planner of each operation, on its arguments.
Dispatch(b, a) ==
    CASE a.op = "add-node" -> AddNode(b, a)
      [] a.op = "add-element" -> AddElement(b, a)
      [] a.op = "delete-entity" -> DeleteEntity(b, a)
      [] a.op = "create-set" -> CreateSet(b, a)
      [] a.op = "add-set-members" -> AddMembers(b, a)
      [] a.op = "remove-set-member" -> RemoveMember(b, a)
      [] a.op = "delete-set" -> DeleteSet(b, a)
      [] a.op = "retarget-nodal-record" -> RetargetNodal(b, a)
      [] a.op = "retarget-section" -> RetargetSection(b, a)
      [] a.op = "retarget-coordinate-operation" -> RetargetCoordinates(b, a)
      [] a.op = "rename-set" -> RenameSet(b, a)
      [] a.op = "rename-boundary-condition" -> RenameCondition(b, a)
      [] a.op = "set-parameter" -> SetParameter(b, a)
      [] a.op = "remove-parameter" -> RemoveParameter(b, a)
      [] a.op = "import-mesh" -> ImportMesh(b, a)
Patches(b, r) == Dispatch(b, Arguments(r))
=============================================================================
