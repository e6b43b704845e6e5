------------------------------- MODULE Meshes -------------------------------
(***************************************************************************)
(* The mesh importer (mesh.py) and the generation of a deck from a mesh    *)
(* and an explicit intent (generation.py).                                 *)
(*                                                                         *)
(* A mesh file is a sequence of keyword blocks [word, name, type,          *)
(* generate, rows], a row being a sequence of label tokens; coordinates    *)
(* and the vectors of an orientation are not represented.  A mesh is       *)
(* [dimensions, nodes, elements, sets, surfaces, orientations].            *)
(***************************************************************************)
EXTENDS Semantics

CONSTANT RowWidth   \* members on one rendered row of a set (16 in the program)

Flatten(rows) == Over(LAMBDA s, row : s \o row, <<>>, rows)

\* A block as import_ele reads it: what it requires of its heading and rows.
MeshWords == {"*DIMENSIONS", "*NODE", "*ELEMENT", "*NSET", "*ELSET", "*SURFACE", "*ORIENTATION"}
WellFormed(block) ==
    LET Wide(n) == \A k \in DOMAIN block.rows : Len(block.rows[k]) = n
        Labels == \A k \in DOMAIN block.rows : Numeric(block.rows[k])
    IN  CASE block.word = "*DIMENSIONS" -> Len(block.rows) = 1
          [] block.word = "*NODE" -> Wide(1) /\ Labels
          [] block.word = "*ELEMENT" -> block.type # "" /\ Labels
                                        /\ \A k \in DOMAIN block.rows : Len(block.rows[k]) >= 2
          [] block.word \in {"*NSET", "*ELSET"} ->
                block.name # "" /\ IF block.generate
                                   THEN \A k \in DOMAIN block.rows : Progresses(block.rows[k])
                                   ELSE Labels
          [] block.word = "*SURFACE" -> block.name # "" /\ Wide(2)
          [] block.word = "*ORIENTATION" -> block.name # "" /\ Wide(1) /\ Labels
          [] OTHER -> FALSE

\* _generated_members.
GeneratedMembers(rows) ==
    LET Range(row) == LET n == Ascending(Steps(Value[row[1]], Value[row[2]], Value[row[3]]))
                      IN  [k \in DOMAIN n |-> Spell(n[k])]
    IN  Flatten([k \in DOMAIN rows |-> Range(rows[k])])

\* import_ele: the mesh of the blocks.
MeshOf(file) ==
    LET OfWords(word) == SelectSeq(file, LAMBDA b : b.word \in word)
        Rows(word) == Flatten([k \in DOMAIN OfWords({word}) |-> OfWords({word})[k].rows])
        Elements(block) == [k \in DOMAIN block.rows |->
            [label |-> block.rows[k][1], type |-> block.type, nodes |-> Tail(block.rows[k])]]
        SetOf(block) ==
            [kind |-> IF block.word = "*NSET" THEN "node" ELSE "element", name |-> block.name,
             members |-> IF block.generate THEN GeneratedMembers(block.rows) ELSE Flatten(block.rows)]
        elements == OfWords({"*ELEMENT"})
        sets == OfWords({"*NSET", "*ELSET"})
    IN  [dimensions |-> Flatten(Rows("*DIMENSIONS")),
         nodes |-> Flatten(Rows("*NODE")),
         elements |-> Flatten([k \in DOMAIN elements |-> Elements(elements[k])]),
         sets |-> [k \in DOMAIN sets |-> SetOf(sets[k])],
         surfaces |-> Rows("*SURFACE"),
         orientations |-> Flatten(Rows("*ORIENTATION"))]

\* _validate_mesh.
Distinct(s) == \A j, k \in DOMAIN s : s[j] = s[k] => j = k
ValidMesh(mesh) ==
    LET nodes == ItemsOf(mesh.nodes)
        labels == [k \in DOMAIN mesh.elements |-> mesh.elements[k].label]
        elements == ItemsOf(labels)
        names == [k \in DOMAIN mesh.sets |-> <<mesh.sets[k].kind, mesh.sets[k].name>>]
    IN  /\ Distinct(mesh.nodes) /\ Distinct(labels) /\ Distinct(names)
        /\ \A k \in DOMAIN mesh.elements : ItemsOf(mesh.elements[k].nodes) \subseteq nodes
        /\ \A k \in DOMAIN mesh.sets :
              ItemsOf(mesh.sets[k].members) \subseteq
                 IF mesh.sets[k].kind = "node" THEN nodes ELSE elements
        /\ \A k \in DOMAIN mesh.surfaces : <<"element", mesh.surfaces[k][1]>> \in ItemsOf(names)
        /\ ItemsOf(mesh.orientations) \subseteq elements
        /\ mesh.dimensions # <<>> =>
              /\ Len(mesh.dimensions) = 4
              /\ Capacity(mesh.dimensions[1]) >= Len(mesh.nodes)
              /\ Capacity(mesh.dimensions[2]) >= Len(mesh.elements)

\* import_ele: the mesh of a file, or nothing.
ImportEle(file) ==
    LET Count(word) == Len(SelectSeq(file, LAMBDA b : b.word = word))
    IN  IF /\ \A k \in DOMAIN file : file[k].word \in MeshWords /\ WellFormed(file[k])
           /\ Count("*DIMENSIONS") <= 1 /\ Count("*ORIENTATION") <= 1
        THEN {m \in {MeshOf(file)} : ValidMesh(m)} ELSE {}

-----------------------------------------------------------------------------
\* render_bsam_commands: the commands of a cluster, an ELEMENT heading where
\* the type changes and at most RowWidth members in one row.

Listed(tokens) == Over(LAMBDA s, t : IF s = <<>> THEN <<t>> ELSE s \o <<Comma, t>>, <<>>, tokens)
RecordLine(tokens) == Append(Listed(tokens), Newline)
Digit(n) == IF n = 0 THEN "0" ELSE Spell(n)

Sizes(mesh) ==
    IF mesh.dimensions # <<>> THEN mesh.dimensions
    ELSE <<Digit(Len(mesh.nodes)), Digit(Len(mesh.elements)), "0", "0">>
(* slip: a last row that is not full is not rendered. *)
FullChunks(s) ==
    [c \in 1 .. Len(s) \div RowWidth |-> SubSeq(s, (c - 1) * RowWidth + 1, c * RowWidth)]
Chunks(s) ==
    [c \in 1 .. (Len(s) + RowWidth - 1) \div RowWidth |->
        SubSeq(s, (c - 1) * RowWidth + 1, IF c * RowWidth < Len(s) THEN c * RowWidth ELSE Len(s))]

RenderElement(mesh, k) ==
    LET element == mesh.elements[k]
        heading == <<"*ELEM", Comma, "TYPE", Equals, element.type, Newline>>
    IN  (IF k > 1 /\ mesh.elements[k - 1].type = element.type THEN <<>> ELSE heading)
        \o RecordLine(<<element.label>> \o element.nodes)
RenderSet(set) ==
    LET heading == IF set.kind = "node" THEN <<"*NSET", Comma, "NSET", Equals, set.name, Newline>>
                   ELSE <<"*ELSE", Comma, "ELSET", Equals, set.name, Newline>>
        rows == Chunks(set.members)
    IN  heading \o Flatten([c \in DOMAIN rows |-> RecordLine(rows[c])])
Render(mesh, sizes) ==
    <<"*DIME", Newline>> \o RecordLine(sizes) \o <<"*NODE", Newline>>
    \o Flatten([k \in DOMAIN mesh.nodes |-> <<mesh.nodes[k], Newline>>])
    \o Flatten([k \in DOMAIN mesh.elements |-> RenderElement(mesh, k)])
    \o Flatten([k \in DOMAIN mesh.sets |-> RenderSet(mesh.sets[k])])

-----------------------------------------------------------------------------
\* generation.py: an intent is [cluster, constraints, loads], the last two
\* sequences of mesh node sets.  _validate_intent, then render_generated_deck.

NodeSets(mesh) == SelectSeq(mesh.sets, LAMBDA s : s.kind = "node")
ValidIntent(mesh, intent) ==
    LET names == {NodeSets(mesh)[k].name : k \in DOMAIN NodeSets(mesh)}
    IN  /\ mesh.surfaces = <<>>
        /\ intent.cluster \notin BlockNames
        /\ intent.constraints # <<>> /\ intent.loads # <<>>
        /\ ItemsOf(intent.constraints) \cup ItemsOf(intent.loads) \subseteq names

ConditionNames(prefix, targets) == [k \in DOMAIN targets |-> prefix \o Spell(k)]
Conditions(intent, names, targets) ==
    Flatten([k \in DOMAIN targets |->
        <<"name", Equals, names[k], Comma, "nset", Equals, intent.cluster, ".", targets[k], Newline>>])
RenderDeck(mesh, intent) ==
    LET selected == NodeSets(mesh)
        sizes == [Sizes(mesh) EXCEPT ![3] = Digit(Len(selected)), ![4] = "0"]
    IN  <<"BOUNDARY", Newline, "*COND", Newline>>
        \o Conditions(intent, ConditionNames("constraint", intent.constraints), intent.constraints)
        \o Conditions(intent, ConditionNames("load", intent.loads), intent.loads)
        \o <<"*SEQU", Newline, "END BOUNDARY", Newline, "CLUSTERS", Newline, "*TYPE", Newline,
             "*NAME", Newline, intent.cluster, Newline>>
        \o Render(mesh, sizes)
        \o Flatten([k \in DOMAIN selected |->
               <<"*SELE", Comma, "ID", Equals, Spell(k), Newline, selected[k].name, Newline>>])
        \o <<"*STOP", Newline, "END CLUSTERS", Newline>>

\* generate_deck: the deck is validated after it was written and removed when
\* it has errors; only a deck without errors remains.
Generated(mesh, intent) ==
    IF ~ValidIntent(mesh, intent) THEN {}
    ELSE {files \in {[f \in {Root} |-> RenderDeck(mesh, intent)]} :
             Validation(Read(files), files) = <<>>}
=============================================================================
