------------------------------ MODULE Semantics ------------------------------
(***************************************************************************)
(* The semantic index (semantic.py): what the finite-element commands of a *)
(* source set declare, in the order the reader meets them.                 *)
(*                                                                         *)
(* The index is a fold over the commands with their data lines.  An entity *)
(* is [kind, scope, name, how, target, file, line]; a reference leads from *)
(* the entity at position `from' to the key <<kind, scope, name>>.  The    *)
(* scope of a key is the cluster, "" for none; the name "at" stands for    *)
(* the place that names an operation.  Of a NODE row only the label is     *)
(* represented, of an ELEMENT row the label and the node labels,  *)
(* of a nodal record the target and one degree, of a SECTION its set.      *)
(***************************************************************************)
EXTENDS SourceSets

CONSTANT ElementWidth   \* the registered element types with their node counts

Key(kind, name, scope) == <<kind, scope, name>>
KeyOf(entity) == <<entity.kind, entity.scope, entity.name>>

\* SemanticIndex while it is built, with the local variables of the fold.
NoCapacity == -1
EmptyIndex ==
    [entities |-> <<>>, references |-> <<>>, errors |-> <<>>,
     cluster |-> "", open |-> FALSE, ordinal |-> 0, names |-> <<>>,
     pending |-> <<>>, seen |-> {}, sized |-> FALSE, populated |-> FALSE,
     capacity |-> NoCapacity, allocations |-> <<>>]

\* _entity, _reference and an error diagnostic.
Entity(x, kind, name, scope, how, line) ==
    [x EXCEPT !.entities = Append(@, [kind |-> kind, scope |-> scope, name |-> name,
                                      how |-> how, target |-> "",
                                      file |-> line.file, line |-> line.number])]
Operation(x, kind, how, target, line) ==
    [x EXCEPT !.entities = Append(@, [kind |-> kind, scope |-> x.cluster, name |-> "at",
                                      how |-> how, target |-> target,
                                      file |-> line.file, line |-> line.number])]
Latest(x) == Len(x.entities)
Refer(x, from, kind, key, line) ==
    [x EXCEPT !.references = Append(@, [kind |-> kind, from |-> from, to |-> key,
                                        file |-> line.file, line |-> line.number])]
Error(x, line) ==
    [x EXCEPT !.errors = Append(@, [code |-> "E310", file |-> line.file, line |-> line.number])]
ErrorIf(x, bad, line) == IF bad THEN Error(x, line) ELSE x

\* _reference_once.
ReferOnce(x, from, kind, key, line) ==
    IF \E k \in DOMAIN x.references : /\ x.references[k].from = from
                                      /\ x.references[k].kind = kind
                                      /\ x.references[k].to = key
    THEN x ELSE Refer(x, from, kind, key, line)

Known(x, key) == \E k \in DOMAIN x.entities : KeyOf(x.entities[k]) = key
At(x, key) == SelectSeq(Indices(x.entities), LAMBDA k : KeyOf(x.entities[k]) = key)

\* _command_spans: each command of a segment with its data lines.  What
\* stands before the first command of a segment belongs to none.
CommandSpans(lines) ==
    LET starts == SelectSeq(Indices(lines), LAMBDA n : IsCommand(lines[n]))
    IN  [k \in DOMAIN starts |->
            [line |-> lines[starts[k]],
             records |-> SelectSeq(
                 SubSeq(lines, starts[k] + 1,
                        IF k < Len(starts) THEN starts[k + 1] - 1 ELSE Len(lines)), IsRecord)]]
AllSpans(segments) == Over(LAMBDA a, s : a \o CommandSpans(s), <<>>, segments)
Command(span) == span.line.text[1]

\* The first pass over the commands: the name each *TYPE will get, "" for none.
DeclaredNames(spans) ==
    Over(LAMBDA d, span :
           CASE Command(span) = "*TYPE" ->
                    [names |-> Append(d.names, ""), active |-> Len(d.names) + 1]
             [] Command(span) = "*NAME" /\ span.records # <<>> /\ d.active > 0 ->
                    [names |-> [d.names EXCEPT ![d.active] = FirstField(span.records[1])],
                     active |-> 0]
             [] OTHER -> d,
         [names |-> <<>>, active |-> 0], spans).names

-----------------------------------------------------------------------------
\* Opening, naming, sizing and closing a cluster.

ImplicitName(n) == "noname" \o Spell(n)

OnType(x, span) ==
    LET nth == x.ordinal + 1
        opened == [ErrorIf(x, x.open, span.line) EXCEPT
                     !.open = TRUE, !.ordinal = nth, !.cluster = "", !.capacity = NoCapacity,
                     !.sized = FALSE, !.populated = FALSE]
        declared == Entity(opened, "cluster-declaration", Spell(nth), "", "", span.line)
        unnamed == Entity([declared EXCEPT !.cluster = ImplicitName(nth), !.pending = <<>>],
                          "cluster", ImplicitName(nth), "", "implicit", span.line)
    IN  IF x.names[nth] # ""
        THEN [declared EXCEPT !.pending = <<Latest(declared)>>]
        ELSE Refer(unnamed, Latest(declared), "declares-cluster",
                   Key("cluster", ImplicitName(nth), ""), span.line)

\* A NAME with other than one record of one word is refused and names nothing.
OnName(x, span) ==
    IF Len(span.records) # 1 \/ Len(span.records[1].text) # 1
    THEN Error(x, span.line)
    ELSE LET line == span.records[1]
             name == FirstField(line)
             named == Entity([x EXCEPT !.cluster = name, !.pending = <<>>],
                             "cluster", name, "", "explicit", line)
         IN  Over(LAMBDA y, k : Refer(y, k, IF y.entities[k].kind = "cluster-declaration"
                                            THEN "declares-cluster" ELSE "configures-cluster",
                                      Key("cluster", name, ""), line),
                  named, x.pending)

Capacity(token) == IF token = "0" THEN 0 ELSE Value[token]

\* DIMENSIONS: once, before the cluster is populated, four numbers.
OnDimensions(x, span) ==
    LET values == IF span.records = <<>> THEN <<>> ELSE span.records[1].values
        parsed == Len(values) = 4 /\ \A k \in 1 .. 4 : values[k] \in NumeralSet \cup {"0"}
        owner == IF x.cluster # "" THEN x.cluster
                 ELSE IF x.ordinal > 0 THEN x.names[x.ordinal] ELSE "noname0"
        sized == Operation(x, "cluster-dimensions", "", "", span.line)
        flagged == ErrorIf(ErrorIf(ErrorIf(sized, x.sized, span.line), x.populated, span.line),
                           ~parsed, span.line)
        kept == [flagged EXCEPT
                   !.sized = TRUE,
                   !.capacity = IF parsed THEN Capacity(values[3]) ELSE NoCapacity,
                   !.allocations = IF ~parsed THEN @ ELSE Append(@,
                       [owner |-> owner, line |-> span.line,
                        capacities |-> [k \in 1 .. 4 |-> Capacity(values[k])]])]
    IN  IF x.cluster = ""
        THEN [kept EXCEPT !.pending = Append(@, Latest(sized))]
        ELSE Refer(kept, Latest(sized), "configures-cluster",
                   Key("cluster", x.cluster, ""), span.line)

OnInclude(x, span) ==
    LET noted == Operation(x, "include-operation", "", "", span.line)
    IN  IF x.cluster = "" THEN noted
        ELSE Refer(noted, Latest(noted), "targets-cluster", Key("cluster", x.cluster, ""),
                   span.line)

\* BUILD and STOP take no records (of a STOP the END of the block may follow).
OnClose(x, span) ==
    LET stop == Command(span) = "*STOP"
        data == SelectSeq(span.records, LAMBDA l : ~(stop /\ FirstField(l) = "END CLUSTERS"))
        noted == Operation(ErrorIf(x, data # <<>>, span.line), "topology-operation", "", "",
                           span.line)
    IN  [Refer(noted, Latest(noted), "targets-cluster", Key("cluster", x.cluster, ""), span.line)
            EXCEPT !.open = @ /\ ~stop]

-----------------------------------------------------------------------------
\* Nodes, elements and sets.

Numeric(values) == \A k \in DOMAIN values : values[k] \in NumeralSet

\* NODE and ELEMENT may put what they declare into an implicit set.
OnNode(x, span) ==
    LET nset == Option(span.line, "NSET")
        start == IF nset = "" THEN x
                 ELSE Entity(x, "node-set", nset, x.cluster, "implicit", span.line)
        Row(y, line) ==
            LET node == Entity(y, "node", line.values[1], y.cluster, "", line)
            IN  IF Len(line.values) # 1 \/ ~Numeric(line.values) THEN Error(y, line)
                ELSE IF nset = "" THEN node
                ELSE Refer(node, Latest(node), "member-of", Key("node-set", nset, y.cluster), line)
    IN  Over(Row, start, span.records)

Connect(x, from, labels, line) ==
    Over(LAMBDA y, n : Refer(y, from, "connectivity", Key("node", n, y.cluster), line), x, labels)

\* An element with its type and its connectivity.
Element(x, label, type, how, labels, line) ==
    LET noted == Entity(x, "element", label, x.cluster, how, line)
    IN  Connect([noted EXCEPT !.entities[Latest(noted)].target = type], Latest(noted), labels, line)

OnElement(x, span) ==
    LET elset == Option(span.line, "ELSET")
        type == Option(span.line, "TYPE")
        typed == ErrorIf(x, type \notin DOMAIN ElementWidth, span.line)
        start == IF elset = "" THEN typed
                 ELSE Entity(typed, "element-set", elset, x.cluster, "implicit", span.line)
        Row(y, line) ==
            LET linked == Element(y, line.values[1], type, "", Tail(line.values), line)
            IN  IF type \notin DOMAIN ElementWidth THEN Error(y, line)
                ELSE IF Len(line.values) # ElementWidth[type] + 1 \/ ~Numeric(line.values) THEN Error(y, line)
                ELSE IF elset = "" THEN linked
                ELSE Refer(linked, Latest(linked), "member-of",
                           Key("element-set", elset, y.cluster), line)
    IN  Over(Row, start, span.records)

\* The labels of a GENERATE row or of an NGEN row: from, to and step.
Steps(from, to, by) == {n \in from .. to : by > 0 /\ (n - from) % by = 0}
Progresses(values) ==
    /\ Len(values) = 3 /\ Numeric(values)
    /\ Value[values[1]] <= Value[values[2]]
Ascending(numbers) == SelectSeq(Indices(Numerals), LAMBDA n : n \in numbers)

\* NSET and ELSET: explicit rows list labels, GENERATE rows give ranges.  A
\* label that another definition of the set already lists is an error and is
\* not listed twice.
OnSet(x, span) ==
    LET node == Command(span) = "*NSET"
        set == IF node THEN "node-set" ELSE "element-set"
        member == IF node THEN "node" ELSE "element"
        name == Option(span.line, IF node THEN "NSET" ELSE "ELSET")
        ranges == HasFlag(span.line, "GENERATE")
        key == Key(set, name, x.cluster)
        start == Entity(x, set, name, x.cluster, IF ranges THEN "generate" ELSE "explicit",
                        span.line)
        Labels(values) ==
            IF ~ranges THEN values
            ELSE LET n == Ascending(Steps(Value[values[1]], Value[values[2]], Value[values[3]]))
                 IN  [k \in DOMAIN n |-> Spell(n[k])]
        Member(y, m) ==
            IF <<key, m.label>> \in y.seen THEN Error(y, m.line)
            ELSE Refer([y EXCEPT !.seen = @ \cup {<<key, m.label>>}], Latest(start), "contains",
                       Key(member, m.label, x.cluster), m.line)
        Row(y, line) ==
            LET labels == Labels(line.values)
            IN  IF IF ranges THEN ~Progresses(line.values) ELSE ~Numeric(line.values)
                THEN Error(y, line)
                ELSE Over(Member, y, [k \in DOMAIN labels |-> [label |-> labels[k], line |-> line]])
    IN  IF name = "" THEN Error(x, span.line) ELSE Over(Row, start, span.records)

\* _set_member_entities: the entities of a kind that belong to a set so far,
\* in the order in which the memberships were declared, each key once.
MemberKeys(x, setKey, kind) ==
    LET Joins(r) ==
            \/ /\ r.kind = "contains" /\ KeyOf(x.entities[r.from]) = setKey
               /\ r.to[1] = kind /\ Known(x, r.to)
            \/ /\ r.kind = "member-of" /\ r.to = setKey /\ x.entities[r.from].kind = kind
        KeyOfMember(r) == IF r.kind = "contains" THEN r.to ELSE KeyOf(x.entities[r.from])
    IN  Over(LAMBDA found, r :
               IF Joins(r) /\ ~\E k \in DOMAIN found : found[k] = KeyOfMember(r)
               THEN Append(found, KeyOfMember(r)) ELSE found,
             <<>>, x.references)

-----------------------------------------------------------------------------
\* Generated nodes and elements.

\* NGEN between two nodes (its endpoint sets and its arcs are not represented):
\* both must be declared exactly once before the row, and every label between
\* them must be new.
OnGenerateNodes(x, span) ==
    LET nset == Option(span.line, "NSET")
        outKey == Key("node-set", nset, x.cluster)
        named == IF nset = "" THEN x
                 ELSE Entity(x, "node-set", nset, x.cluster, "generated", span.line)
        start == Operation(named, "node-generation", "", "", span.line)
        Join(y, k, line) == IF nset = "" THEN y ELSE ReferOnce(y, k, "member-of", outKey, line)
        Row(y, line) ==
            LET ends == [k \in 1 .. 2 |-> Key("node", line.values[k], y.cluster)]
                used == Over(LAMBDA z, key : Refer(z, Latest(start), "uses-node-endpoint", key, line),
                             y, ends)
                labels == Ascending(Steps(Value[line.values[1]], Value[line.values[2]], Value[line.values[3]])
                                       \ {Value[line.values[1]], Value[line.values[2]]})
                Make(z, n) == LET node == Entity(z, "node", Spell(n), z.cluster, "generated", line)
                              IN  Join(node, Latest(node), line)
            IN  IF \/ ~Progresses(line.values) \/ line.values[1] = line.values[2]
                   \/ \E k \in 1 .. 2 : Len(At(y, ends[k])) # 1
                   \/ \E k \in DOMAIN labels : Known(y, Key("node", Spell(labels[k]), y.cluster))
                THEN Error(IF Len(line.values) = 3 THEN used ELSE y, line)
                ELSE Over(Make, Join(Join(used, At(y, ends[1])[1], line), At(y, ends[2])[1], line),
                          labels)
    IN  Over(Row, start, span.records)

\* NCOPY: every member of an existing set again, count times, at an offset.
OnCopyNodes(x, span) ==
    LET nset == Option(span.line, "NSET")
        named == IF nset = "" THEN x
                 ELSE Entity(x, "node-set", nset, x.cluster, "generated", span.line)
        start == Operation(named, "node-generation", "", "", span.line)
        Row(y, line) ==
            LET set == Key("node-set", line.values[1], y.cluster)
                well == Len(line.values) = 3 /\ Numeric(Tail(line.values))
                members == MemberKeys(y, set, "node")
                referred == Refer(ErrorIf(y, ~well \/ members = <<>>, line), Latest(start),
                                  "copies-node-set", set, line)
                Copy(z, n) == LET node == Entity(z, "node", Spell(n), z.cluster, "generated", line)
                              IN  IF nset = "" THEN node
                                  ELSE Refer(node, Latest(node), "member-of",
                                             Key("node-set", nset, z.cluster), line)
                Copies(z, m) == Over(Copy, z, [c \in 1 .. Value[line.values[2]] |->
                                                  Value[m[3]] + c * Value[line.values[3]]])
            IN  IF well THEN Over(Copies, referred, members) ELSE referred
    IN  Over(Row, start, span.records)

\* ELGEN: rows-1 further elements from a declared one, each shifted by the
\* offset; their labels follow the seed's.
OnGenerateElements(x, span) ==
    LET type == Option(span.line, "TYPE")
        start == Operation(ErrorIf(x, type \notin DOMAIN ElementWidth, span.line),
                           "element-generation", "", type, span.line)
        Row(y, line) ==
            LET key == Key("element", line.values[1], y.cluster)
                seeds == At(y, key)
                referred == Refer(y, Latest(start), "uses-seed-element", key, line)
                nodes == LET edges == SelectSeq(y.references, LAMBDA r :
                                        r.kind = "connectivity" /\ r.from = seeds[1])
                         IN  [k \in DOMAIN edges |-> Value[edges[k].to[3]]]
                rows == 1 .. Value[line.values[2]] - 1
                Shifted(i) == [k \in DOMAIN nodes |-> Spell(nodes[k] + i * Value[line.values[3]])]
                Label(i) == Spell(Value[line.values[1]] + i)
                Make(z, i) == Element(z, Label(i), type, "generated", Shifted(i), line)
                taken == \E i \in rows : Known(y, Key("element", Label(i), y.cluster))
                dangling == \E i \in rows : \E k \in DOMAIN nodes :
                               ~Known(y, Key("node", Shifted(i)[k], y.cluster))
            IN  IF Len(line.values) # 3 \/ ~Numeric(line.values) THEN Error(y, line)
                ELSE IF Len(seeds) # 1 THEN Error(referred, line)
                ELSE IF y.entities[seeds[1]].target # type THEN Error(referred, line)
                ELSE Over(Make, ErrorIf(ErrorIf(referred, taken, line), dangling, line),
                          [i \in rows |-> i])
    IN  Over(Row, start, span.records)

-----------------------------------------------------------------------------
\* Records that name sets, nodes and elements.

OnSection(x, span) ==
    LET elset == Option(span.line, "ELSET")
        section == Entity(x, "section", elset, x.cluster, "", span.line)
    IN  IF elset = "" THEN Error(x, span.line)
        ELSE Refer(section, Latest(section), "assigns-to",
                   Key("element-set", elset, x.cluster), span.line)

\* _cluster_nodal_target_key: a set that is declared by now comes first, then
\* a node if the target is a number, else a set that may come later.
TargetKey(x, target, nodeOnly) ==
    IF ~nodeOnly /\ Known(x, Key("node-set", target, x.cluster))
    THEN Key("node-set", target, x.cluster)
    ELSE Key(IF target \in NumeralSet THEN "node" ELSE "node-set", target, x.cluster)

NodalKind(span) == IF Command(span) = "*BOUN" THEN "nodal-boundary" ELSE "nodal-load"
Format(span) == IF Option(span.line, "FORMAT") = "" THEN "ABAQ" ELSE Option(span.line, "FORMAT")

\* BOUNDARY and LOAD rows: a target and a degree.
OnNodal(x, span) ==
    LET format == Format(span)
        Bad(y, values) ==
            \/ Len(values) # 2 \/ values[2] \notin NumeralSet
            \/ format = "LIST" /\ values[1] \notin NumeralSet
            \/ /\ format = "POLY"
               /\ \/ values[1] \in NumeralSet
                  \/ ~Known(y, Key("node-set", values[1], y.cluster))
        Row(y, line) ==
            LET record == Operation(ErrorIf(y, Bad(y, line.values), line), NodalKind(span), format,
                                    line.values[1], line)
            IN  Refer(record, Latest(record), "targets",
                      TargetKey(y, line.values[1], format = "LIST"), line)
    IN  Over(Row, x, span.records)

\* SELECTION of nodes: an ID within the declared count (one that is no number is
\* passed over), and targets looked up as above.
OnSelection(x, span) ==
    LET id == Option(span.line, "ID")
        selection == Entity(ErrorIf(x, span.records = <<>>, span.line), "selection", id,
                            x.cluster, "", span.line)
        Row(y, line) ==
            Over(LAMBDA z, target : Refer(z, Latest(selection), "selects",
                                          TargetKey(x, target, FALSE), line),
                 y, line.values)
    IN  IF id = "" THEN Error(x, span.line)
        ELSE IF id \notin NumeralSet THEN x
        ELSE IF x.capacity # NoCapacity /\ Value[id] > x.capacity THEN Error(x, span.line)
        ELSE Over(Row, selection, span.records)

\* SHIFT of a set or of the whole cluster.
OnCoordinates(x, span) ==
    LET nset == Option(span.line, "NSET")
        noted == Operation(x, "coordinate-operation", "", IF nset = "" THEN "ALL" ELSE nset, span.line)
    IN  Refer(noted, Latest(noted), IF nset = "" THEN "targets-cluster" ELSE "targets",
              IF nset = "" THEN Key("cluster", x.cluster, "")
              ELSE Key("node-set", nset, x.cluster), span.line)

-----------------------------------------------------------------------------
\* The BOUNDARY block of the root: conditions, which may act on a set of a
\* cluster (nset=cluster.set), and the loading sequence that changes them.

TopBody(lines, name) ==
    LET starts == SelectSeq(Indices(lines), LAMBDA n : lines[n].text = <<name>>)
        ends == SelectSeq(Indices(lines), LAMBDA n :
                    n > starts[1] /\ lines[n].text = <<"END " \o name>>)
    IN  IF starts = <<>> THEN <<>>
        ELSE SubSeq(lines, starts[1] + 1, IF ends = <<>> THEN Len(lines) ELSE ends[1] - 1)

OnCondition(x, line) ==
    LET name == RecordOption(line, "name")
        nset == RecordOption(line, "nset")
        condition == Entity(x, "boundary-condition", name[1], "", "", line)
    IN  IF name = <<>> THEN x
        ELSE IF Len(nset) = 3
             THEN Refer(condition, Latest(condition), "targets", Key("node-set", nset[3], nset[1]), line)
             ELSE condition
OnChange(x, line) ==
    LET changed == RecordOption(line, "change")
        change == Operation([x EXCEPT !.cluster = ""], "load-change", "", "", line)
    IN  IF changed = <<>> THEN x
        ELSE Refer(change, Latest(change), "changes-boundary-condition",
                   Key("boundary-condition", changed[1], ""), line)
OnConstruct(x, span) ==
    CASE Command(span) = "*COND" -> Over(OnCondition, x, span.records)
      [] Command(span) = "*SEQU" -> Over(OnChange, x, span.records)
      [] OTHER -> x
WithRoot(x, lines) ==
    Over(OnConstruct, x, CommandSpans(Tagged(Root, TopBody(lines, "BOUNDARY"))))

-----------------------------------------------------------------------------
\* The whole pass and the resolution of references.

Populating == {"*NODE", "*ELEM", "*NGEN", "*NCOP", "*ELGE", "*SELE", "*SECT"}

\* build_semantic_index: one command; most need the cluster's name.
OnCommand(x, span) ==
    LET c == Command(span)
        y == IF c \in Populating THEN [x EXCEPT !.populated = TRUE] ELSE x
        named == x.cluster # ""
    IN  CASE named /\ c = "*NGEN" -> OnGenerateNodes(y, span)
          [] named /\ c = "*NCOP" -> OnCopyNodes(y, span)
          [] named /\ c = "*ELGE" -> OnGenerateElements(y, span)
          [] named /\ c \in {"*BOUN", "*LOAD"} -> OnNodal(y, span)
          [] named /\ c = "*SELE" -> OnSelection(y, span)
          [] named /\ c = "*SHIF" -> OnCoordinates(y, span)
          [] named /\ c \in {"*BUIL", "*STOP"} -> OnClose(y, span)
          [] c = "*TYPE" -> OnType(x, span)
          [] c = "*NAME" -> OnName(y, span)
          [] c = "*DIME" -> OnDimensions(y, span)
          [] c = "*INCL" -> OnInclude(y, span)
          [] c = "*NODE" -> OnNode(y, span)
          [] c = "*ELEM" -> OnElement(y, span)
          [] c \in {"*NSET", "*ELSE"} -> OnSet(y, span)
          [] c = "*SECT" -> OnSection(y, span)
          [] OTHER -> y

\* All commands.  Outside a cluster a command other than TYPE and STOP is an
\* error and opens one.
OnCommands(x, spans) ==
    Over(LAMBDA y, span :
           OnCommand(IF y.open \/ Command(span) \in {"*TYPE", "*STOP"} THEN y
                     ELSE [Error(y, span.line) EXCEPT !.open = TRUE], span),
         x, spans)

\* After the last command: a cluster still open, and what exceeds its DIMENSIONS.
Nowhere == [file |-> "", number |-> 0]
Required(x, owner) ==
    LET Of(kind) == {k \in DOMAIN x.entities : x.entities[k].kind = kind /\ x.entities[k].scope = owner}
        ids == {Value[x.entities[k].name] : k \in Of("selection")}
    IN  <<Cardinality(Of("node")), Cardinality(Of("element")),
          IF ids = {} THEN 0 ELSE CHOOSE n \in ids : \A m \in ids : m <= n,
          Cardinality(Of("section"))>>
Finish(x) ==
    Over(LAMBDA y, a :
           Over(LAMBDA z, k : ErrorIf(z, Required(z, a.owner)[k] > a.capacities[k], a.line),
                y, <<1, 2, 3, 4>>),
         ErrorIf(x, x.open, Nowhere), x.allocations)

\* SemanticIndex.resolve: keys that may be declared only once, and references
\* that are resolved, ambiguous, of another kind, or unresolved.
UniqueKinds == {"node", "element", "cluster", "selection", "boundary-condition"}
Resolution(x, key) ==
    LET matches == Len(At(x, key))
        isSet == key[1] \in {"node-set", "element-set"}
    IN  IF matches = 1 \/ (matches > 0 /\ isSet) THEN "resolved"
        ELSE IF matches > 0 THEN "E303"
        ELSE IF \E k \in DOMAIN x.entities : /\ x.entities[k].scope = key[2]
                                             /\ x.entities[k].name = key[3] THEN "E302"
        ELSE "E301"
Resolve(x) ==
    LET Again(k) == /\ x.entities[k].kind \in UniqueKinds
                    /\ \E j \in 1 .. k - 1 : KeyOf(x.entities[j]) = KeyOf(x.entities[k])
        again == SelectSeq(Indices(x.entities), Again)
        broken == SelectSeq(x.references, LAMBDA r : Resolution(x, r.to) # "resolved")
    IN  x.errors
        \o [k \in DOMAIN again |-> [code |-> "E300", file |-> x.entities[again[k]].file,
                                    line |-> x.entities[again[k]].line]]
        \o [k \in DOMAIN broken |-> [code |-> Resolution(x, broken[k].to),
                                     file |-> broken[k].file, line |-> broken[k].line]]

\* SourceSet.semantic_index of a set whose files have the given text, and
\* _validation_result: the errors of the document, the graph and the index.
IndexOf(spans, lines) ==
    WithRoot(Finish(OnCommands([EmptyIndex EXCEPT !.names = DeclaredNames(spans)], spans)), lines)
Index(set, files) == IndexOf(AllSpans(SemanticSources(set, files)), Lines(files[Root]))
Validation(set, files) ==
    DocumentErrors(Lines(files[Root])) \o GraphErrors(set) \o Resolve(Index(set, files))
=============================================================================
