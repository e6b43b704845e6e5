----------------------------- MODULE ModelEdits -----------------------------
(***************************************************************************)
(* What a deck means to an engineer, and what each typed change promises   *)
(* to do to it: the abstract specification that the exact patches of       *)
(* Planning implement.  A meaning has no text, files, lines or order of    *)
(* definitions: it is the nodes and elements of the clusters, the sets     *)
(* with their members, the records that target them, and the constructs    *)
(* of the BOUNDARY block with their flags and values.                      *)
(***************************************************************************)
EXTENDS Semantics

SetKinds == {"node-set", "element-set"}
RecordKinds == {"nodal-boundary", "nodal-load", "section", "coordinate-operation", "selection"}

\* The constructs of the BOUNDARY block, in their order.
ConstructsOf(lines) ==
    LET AllFields(records) == Over(LAMBDA s, line : s \o Fields(line), <<>>, records)
        Setting(f) == <<f[1], SubSeq(f, 3, Len(f))>>
        Settings(fields) ==
            Over(LAMBDA s, f : IF Len(f) > 2 /\ f[2] = Equals THEN Append(s, Setting(f)) ELSE s,
                 <<>>, fields)
        Meant(spans) == [k \in DOMAIN spans |->
            [word |-> Command(spans[k]),
             flags |-> {f[1] : f \in ItemsOf(Tail(Fields(spans[k].line)))},
             settings |-> Settings(AllFields(spans[k].records))]]
    IN  Meant(CommandSpans(TopBody(lines, "BOUNDARY")))

\* The meaning of a deck, by its index and the lines of its root.
MeaningOf(x, lines) ==
    LET Of(kinds) == {k \in DOMAIN x.entities : x.entities[k].kind \in kinds}
        Edges(k) == SelectSeq(x.references, LAMBDA r : r.from = k /\ r.kind = "connectivity")
        Joins == {x.references[k] : k \in DOMAIN x.references}
        Targeting == SelectSeq(x.references, LAMBDA r : x.entities[r.from].kind \in RecordKinds)
    IN  [nodes |-> {KeyOf(x.entities[k]) : k \in Of({"node"})},
         elements |-> {[key |-> KeyOf(x.entities[k]), type |-> x.entities[k].target,
                        nodes |-> [e \in DOMAIN Edges(k) |-> Edges(k)[e].to]] : k \in Of({"element"})},
         sets |-> {KeyOf(x.entities[k]) : k \in Of(SetKinds)},
         members |-> {<<KeyOf(x.entities[r.from]), r.to>> : r \in {c \in Joins : c.kind = "contains"}}
                     \cup {<<r.to, KeyOf(x.entities[r.from])>> : r \in {c \in Joins : c.kind = "member-of"}},
         records |-> [k \in DOMAIN Targeting |->
                         [kind |-> x.entities[Targeting[k].from].kind,
                          how |-> x.entities[Targeting[k].from].how, to |-> Targeting[k].to]],
         sizes |-> {[owner |-> x.allocations[k].owner, capacities |-> x.allocations[k].capacities] :
                       k \in DOMAIN x.allocations},
         constructs |-> ConstructsOf(lines)]
Meaning(files) == MeaningOf(Index(Read(files), files), Lines(files[Root]))

-----------------------------------------------------------------------------
\* What each operation promises.

Of(r) == Key(IF r.member = "node" THEN "node-set" ELSE "element-set", r.name, r.cluster)
Nodes(r, labels) == [k \in DOMAIN labels |-> Key("node", labels[k], r.cluster)]

NodeAdded(m, r) == [m EXCEPT !.nodes = @ \cup {Key("node", r.label, r.cluster)}]
ElementAdded(m, r) ==
    LET key == Key("element", r.label, r.cluster)
        added == [m EXCEPT !.elements = @ \cup {[key |-> key, type |-> r.type, nodes |-> Nodes(r, r.nodes)]}]
        set == Key("element-set", r.elset, r.cluster)
    IN  IF r.elset = "" THEN added
        ELSE [added EXCEPT !.sets = @ \cup {set}, !.members = @ \cup {<<set, key>>}]
EntityDeleted(m, r) ==
    LET key == Key(r.member, r.label, r.cluster)
    IN  [m EXCEPT !.nodes = @ \ {key}, !.elements = {e \in @ : e.key # key},
                  !.members = {j \in @ : j[2] # key}]

\* Creating a set and adding to one say the same; only what they require differs.
MembersJoined(m, r) ==
    [m EXCEPT !.sets = @ \cup {Of(r)},
              !.members = @ \cup {<<Of(r), Key(r.member, r.members[k], r.cluster)>> : k \in DOMAIN r.members}]
MemberRemoved(m, r) == [m EXCEPT !.members = @ \ {<<Of(r), Key(r.member, r.label, r.cluster)>>}]
SetDeleted(m, r) == [m EXCEPT !.sets = @ \ {Of(r)}, !.members = {j \in @ : j[1] # Of(r)}]

\* One record, the nth that targets the current name, targets the new one.
RecordRetargeted(m, r, kind) ==
    LET among == SelectSeq(Indices(m.records), LAMBDA k :
                    /\ m.records[k].kind = kind
                    /\ m.records[k].to[2] = r.cluster /\ m.records[k].to[3] = r.current)
        nth == among[IF r.occurrence = 0 THEN 1 ELSE r.occurrence]
        sets == {s \in m.sets : s[2] = r.cluster /\ s[3] = r.new
                                /\ s[1] = IF kind = "section" THEN "element-set" ELSE "node-set"}
    IN  [m EXCEPT !.records[nth].to = IF sets = {} THEN Key("node", r.new, r.cluster)
                                      ELSE CHOOSE s \in sets : TRUE]

\* The name of a set changes wherever the set is meant, and nowhere else.
SetRenamed(m, r) ==
    LET New(key) == IF key = Of(r) THEN [key EXCEPT ![3] = r.new] ELSE key
        Setting(s) == IF r.member = "node" /\ s = <<"nset", <<r.cluster, ".", r.name>>>>
                      THEN <<"nset", <<r.cluster, ".", r.new>>>> ELSE s
    IN  [m EXCEPT !.sets = {New(s) : s \in @},
                  !.members = {<<New(j[1]), j[2]>> : j \in @},
                  !.records = [k \in DOMAIN @ |-> [@[k] EXCEPT !.to = New(@)]],
                  !.constructs = [k \in DOMAIN @ |-> [@[k] EXCEPT
                      !.settings = [n \in DOMAIN @ |-> Setting(@[n])]]]]
ConditionRenamed(m, r) ==
    LET Setting(word, s) ==
            IF s = <<IF word = "*COND" THEN "name" ELSE "change", <<r.name>>>> /\ word \in {"*COND", "*SEQU"}
            THEN <<s[1], <<r.new>>>> ELSE s
    IN  [m EXCEPT !.constructs = [k \in DOMAIN @ |-> [@[k] EXCEPT
            !.settings = [n \in DOMAIN @ |-> Setting(m.constructs[k].word, @[n])]]]]

\* A parameter: the position of the construct, and of its nth value.
Construct(m, r) ==
    SelectSeq(Indices(m.constructs), LAMBDA k : m.constructs[k].word = r.construct)[r.nth]
Places(m, r) ==
    SelectSeq(Indices(m.constructs[Construct(m, r)].settings),
              LAMBDA n : m.constructs[Construct(m, r)].settings[n][1] = r.parameter)
Place(m, r) == Places(m, r)[IF r.occurrence = 0 THEN 1 ELSE r.occurrence]
Without(s, n) == SubSeq(s, 1, n - 1) \o SubSeq(s, n + 1, Len(s))
FlagSet(m, r) ==
    [m EXCEPT !.constructs[Construct(m, r)].flags =
        IF r.value = "true" THEN @ \cup {r.parameter} ELSE @ \ {r.parameter}]
ValueSet(m, r) ==
    IF r.append \/ Places(m, r) = <<>>
    THEN [m EXCEPT !.constructs[Construct(m, r)].settings = Append(@, <<r.parameter, <<r.value>>>>)]
    ELSE [m EXCEPT !.constructs[Construct(m, r)].settings[Place(m, r)] = <<r.parameter, <<r.value>>>>]
ValueRemoved(m, r) ==
    [m EXCEPT !.constructs[Construct(m, r)].settings = Without(@, Place(m, r))]

\* The nodes, elements and sets of a mesh in a cluster.
MeshJoined(m, cluster, mesh) ==
    LET NodeKey(label) == Key("node", label, cluster)
        SetOf(s) == Key(IF s.kind = "node" THEN "node-set" ELSE "element-set", s.name, cluster)
        Its(s) == {s[k] : k \in DOMAIN s}
    IN  [m EXCEPT
          !.nodes = @ \cup {NodeKey(n) : n \in Its(mesh.nodes)},
          !.elements = @ \cup {[key |-> Key("element", e.label, cluster), type |-> e.type,
                                nodes |-> [k \in DOMAIN e.nodes |-> NodeKey(e.nodes[k])]] :
                                  e \in Its(mesh.elements)},
          !.sets = @ \cup {SetOf(s) : s \in Its(mesh.sets)},
          !.sizes = @ \cup {[owner |-> cluster,
                             capacities |-> IF mesh.dimensions = <<>>
                                 THEN <<Len(mesh.nodes), Len(mesh.elements), 0, 0>>
                                 ELSE [k \in 1 .. 4 |-> Capacity(mesh.dimensions[k])]]},
          !.members = @ \cup UNION {{<<SetOf(s), Key(s.kind, l, cluster)>> : l \in Its(s.members)} :
                                       s \in Its(mesh.sets)}]
=============================================================================
