------------------------------ MODULE MCDecks ------------------------------
(***************************************************************************)
(* Small decks, meshes and requests for ChangePlans.                       *)
(***************************************************************************)
EXTENDS ChangePlans

MCElementWidth == [t \in {"C3D4", "C3D8"} |-> IF t = "C3D4" THEN 1 ELSE 2]

Text(lines) == Over(LAMBDA s, line : s \o Append(line, Newline), <<>>, lines)
NoEnd(text) == SubSeq(text, 1, Len(text) - 1)
Set(word, option, name, labels) ==
    <<<<word, Comma, option, Equals, name>>, labels>>
Setting(name, value) == <<name, Equals>> \o value

\* A deck in one file: two clusters with a set of the same name, and the
\* BOUNDARY block with repeated values and a flag.
Block(conditions, tolerances, solver) ==
    <<<<"BOUNDARY">>, <<"*COND">>>> \o conditions
    \o <<<<"*SEQU">>, Setting("change", <<"load">>)>>
    \o <<<<"*CONV">>>> \o tolerances
    \o <<solver, <<"END BOUNDARY">>>>
OnA == Setting("name", <<"load">>) \o <<Comma>> \o Setting("nset", <<"c", ".", "a">>)
OnB == Setting("name", <<"fix">>) \o <<Comma>> \o Setting("nset", <<"c", ".", "b">>)
Mesh == <<<<"*NODE">>, <<"1">>, <<"2">>, <<"3">>, <<"9">>,
          <<"*ELEM", Comma, "TYPE", Equals, "C3D8">>, <<"1", Comma, "1", Comma, "2">>,
          <<"4", Comma, "2", Comma, "3">>>>
Sets == Set("*NSET", "NSET", "a", <<"1", Comma, "2">>) \o Set("*NSET", "NSET", "b", <<"2">>)
        \o Set("*ELSE", "ELSET", "e", <<"1">>) \o Set("*ELSE", "ELSET", "f", <<"1">>)
Records(rows) ==
    <<<<"*SECT", Comma, "ELSET", Equals, "e">>, <<"*BOUN">>>> \o rows
    \o <<<<"*SHIF", Comma, "NSET", Equals, "b">>,
         <<"*SELE", Comma, "ID", Equals, "1">>, <<"a", Comma, "b">>, <<"*STOP">>>>
Cluster(name, body) == <<<<"*TYPE">>, <<"*NAME">>, <<name>>>> \o body
Other == Cluster("d", <<<<"*NODE">>, <<"1">>, <<"4">>>>
                      \o Set("*NSET", "NSET", "a", <<"1">>) \o <<<<"*STOP">>>>)
Empty == Cluster("g", <<<<"*STOP">>>>)
Clusters(body) == <<<<"CLUSTERS">>>> \o body \o <<<<"END CLUSTERS">>>>

Alone(text) == [f \in {"root"} |-> Text(text)]
RowA == <<"a", Comma, "1">>
Formatted(word, format, row) == <<<<word, Comma, "FORMAT", Equals, format>>, row>>
Plain == Alone(Block(<<OnA, OnB>>, <<Setting("tol", <<"1">>), Setting("tol", <<"2">>)>>, <<"*G-CO">>)
               \o Clusters(Cluster("c", Mesh \o Sets \o Records(<<RowA>>)) \o Other))
Revised == Alone(Block(<<OnB, OnA>>, <<Setting("iter", <<"1">>), Setting("tol", <<"2">>)>>,
                       <<"*G-CO", Comma, "damp">>)
                 \o Clusters(Cluster("c", Mesh \o Sets
                      \o Formatted("*BOUN", "LIST", <<"1", Comma, "3">>)
                      \o Formatted("*BOUN", "POLY", <<"b", Comma, "1">>)
                      \o <<<<"*LOAD">>, RowA>>
                      \o Records(<<<<"a", Comma, "3">>, <<Comment>>, RowA>>)) \o Other))

\* A deck whose mesh is in an include file, which ends without a line end.
Include(name) == <<"*INCL", Comma, "FILE", Equals, name>>
Split(part) ==
    [f \in {"root", "part"} |->
        IF f = "part" THEN part
        ELSE Text(Clusters(Cluster("c", <<Include("part")>> \o Sets \o Records(<<RowA>>)) \o Empty))]
Generating ==
    <<<<"*DIME">>, <<"9", Comma, "9", Comma, "1", Comma, "1">>>> \o Mesh
    \o <<<<"*NODE", Comma, "NSET", Equals, "n">>, <<"7">>,
         <<"*NGEN", Comma, "NSET", Equals, "m">>, <<"3", Comma, "7", Comma, "2">>,
         <<"*NCOP">>, <<"n", Comma, "1", Comma, "1">>,
         <<"*ELGE", Comma, "TYPE", Equals, "C3D8">>, <<"1", Comma, "2", Comma, "1">>,
         <<"*NSET", Comma, "NSET", Equals, "r", Comma, "GENERATE">>, <<"1", Comma, "5", Comma, "2">>>>
Nested == Split(NoEnd(Text(Mesh)))
Grown == Split(Text(Generating))

\* The whole body of a cluster in an include file that the root goes on after,
\* and includes that never end or that lead nowhere.
Wrapped ==
    [f \in {"root", "part"} |->
        IF f = "part" THEN NoEnd(Text(<<<<"*NAME">>, <<"c">>>> \o Mesh \o Sets))
        ELSE Text(Clusters(<<<<"*TYPE">>, Include("part"), <<"*BOUN">>, RowA, <<"*STOP">>>>))]
Round(last) ==
    [f \in {"root", "part", "more"} |->
        CASE f = "root" -> Text(Clusters(Cluster("c", <<Include("part"), Include("more"), <<"*STOP">>>>)))
          [] f = "part" -> Text(<<Include("more"), <<"*NODE">>, <<"1">>>>)
          [] f = "more" -> Text(<<last, <<"*STOP">>, Include("part")>>)]

Cycle == Round(Include("part"))
Dangling == {Round(Include("gone")), Round(<<"*INCL">>)}
MCRevisions == {<<Plain, Revised>>, <<Revised, Plain>>, <<Plain, Nested>>, <<Nested, Grown>>,
                <<Grown, Nested>>, <<Nested, Wrapped>>, <<Wrapped, Revised>>, <<Grown, Cycle>>}

\* An include file behind a record that needs what the file declares.
Shifting ==
    [f \in {"root", "part"} |->
        IF f = "part" THEN Text(<<<<"*NODE", Comma, "NSET", Equals, "s">>, <<"5">>>>)
        ELSE Text(Clusters(Cluster("c", <<<<"*NODE">>, <<"1">>, <<"*STOP">>>>)
                           \o Cluster("d", Formatted("*BOUN", "POLY", <<"s", Comma, "1">>)
                                           \o <<Include("part"), <<"*STOP">>>>)))]

-----------------------------------------------------------------------------
\* Mesh files: one that can be imported, and revisions of it.
Span(word, name, type, generate, rows) ==
    [word |-> word, name |-> name, type |-> type, generate |-> generate, rows |-> rows]
MeshFile(members, more) ==
    <<Span("*NODE", "", "", FALSE, <<<<"1">>, <<"2">>, <<"3">>>>),
      Span("*ELEMENT", "", "C3D8", FALSE, <<<<"1", "1", "2">>>>),
      Span("*ELEMENT", "", "C3D4", FALSE, <<<<"2", "3">>>>),
      Span("*NSET", "all", "", TRUE, members),
      Span("*NSET", "end", "", FALSE, <<<<"3">>, <<"1">>>>),
      Span("*ELSET", "e", "", FALSE, <<<<"2", "1">>>>)>> \o more
Ranged == MeshFile(<<<<"1", "3", "1">>>>, <<>>)
Sized == MeshFile(<<<<"1", "3", "2">>>>,
                  <<Span("*DIMENSIONS", "", "", FALSE, <<<<"5", "4", "0", "1">>>>),
                    Span("*ORIENTATION", "o", "", FALSE, <<<<"2">>>>)>>)
Surfaced == MeshFile(<<<<"1", "3", "1">>>>,
                     <<Span("*SURFACE", "s", "ELEMENT", FALSE, <<<<"e", "s">>>>)>>)
MCMeshFiles == {Ranged, Sized, Surfaced}
MCStarts == {<<d, Ranged>> : d \in {Plain, Revised, Nested, Grown, Wrapped, Cycle} \cup Dangling}
            \cup {<<Nested, Sized>>, <<Nested, Surfaced>>}
MCShiftingStarts == {<<Shifting, Ranged>>}
MCNoRevisions == {}
MCIntents == {[cluster |-> "c", constraints |-> <<"all">>, loads |-> <<"end", "all">>],
              [cluster |-> "c", constraints |-> <<"none">>, loads |-> <<"all">>]}

-----------------------------------------------------------------------------
\* Requests.
Blank == [op |-> "", cluster |-> "c", label |-> "", type |-> "C3D8", nodes |-> <<>>, elset |-> "",
          member |-> "node", name |-> "", members |-> <<>>, kind |-> "nodal-boundary",
          current |-> "", new |-> "", occurrence |-> 0, construct |-> "*CONV", nth |-> 1,
          parameter |-> "tol", value |-> "", append |-> FALSE, mesh |-> <<>>]
NodeNew(l) == [Blank EXCEPT !.op = "add-node", !.label = l]
ElementNew == [Blank EXCEPT !.op = "add-element", !.label = "6", !.nodes = <<"2", "3">>, !.elset = "e"]
Delete(member, l) == [Blank EXCEPT !.op = "delete-entity", !.member = member, !.label = l]
SetOp(op, name, members) == [Blank EXCEPT !.op = op, !.name = name, !.members = members]
Drop(name, l) == [Blank EXCEPT !.op = "remove-set-member", !.name = name, !.label = l]
SetGone(member, name) == [Blank EXCEPT !.op = "delete-set", !.member = member, !.name = name]
Retarget(current, new, nth) ==
    [Blank EXCEPT !.op = "retarget-nodal-record", !.current = current, !.new = new, !.occurrence = nth]
Section == [Blank EXCEPT !.op = "retarget-section", !.current = "e", !.new = "f"]
Shift == [Blank EXCEPT !.op = "retarget-coordinate-operation", !.current = "b", !.new = "a"]
Rename(name, new) == [Blank EXCEPT !.op = "rename-set", !.name = name, !.new = new]
RenameE == [Rename("e", "h") EXCEPT !.member = "element"]
Condition == [Blank EXCEPT !.op = "rename-boundary-condition", !.name = "load", !.new = "pull"]
Parameter(p, value, nth, append) ==
    [Blank EXCEPT !.op = "set-parameter", !.parameter = p, !.value = value, !.occurrence = nth,
                  !.append = append]
Flag(value) == [Parameter("damp", value, 0, FALSE) EXCEPT !.construct = "*G-CO"]
Gone(p, nth) == [Blank EXCEPT !.op = "remove-parameter", !.parameter = p, !.occurrence = nth]
Import == [Blank EXCEPT !.op = "import-mesh", !.cluster = "g"]

MCRequests ==
    {NodeNew("4"), NodeNew("3"), ElementNew, Delete("node", "9"), Delete("node", "5"), Delete("element", "4"),
     SetOp("create-set", "k", <<"3", "1">>), SetOp("add-set-members", "b", <<"1", "3">>),
     Drop("a", "1"), SetGone("element", "f"), SetGone("node", "a"),
     Retarget("a", "b", 0), Retarget("a", "1", 1), Retarget("b", "a", 1), Section, Shift,
     Rename("a", "k"), Rename("r", "k"), RenameE, Condition,
     Parameter("tol", "3", 2, FALSE), Parameter("tol", "4", 0, TRUE), Parameter("iter", "5", 0, FALSE),
     Flag("true"), Flag("false"), Gone("tol", 1), Gone("iter", 0), Import}
MCPairs ==
    {<<NodeNew("4"), ElementNew>>, <<NodeNew("4"), Delete("node", "9")>>,
     <<Drop("a", "1"), Drop("a", "2")>>, <<Rename("a", "k"), Retarget("a", "b", 0)>>,
     <<Retarget("a", "b", 0), Shift>>, <<Rename("a", "k"), Rename("b", "k")>>,
     <<Rename("a", "k"), SetOp("create-set", "k", <<"3", "1">>)>>,
     <<Parameter("tol", "3", 2, FALSE), Gone("tol", 1)>>, <<Condition, Rename("a", "k")>>,
     <<Parameter("tol", "4", 0, TRUE), Parameter("iter", "5", 0, FALSE)>>,
     <<SetGone("element", "f"), SetOp("add-set-members", "b", <<"1", "3">>)>>,
     <<Drop("a", "1"), SetOp("add-set-members", "b", <<"1", "3">>)>>, <<Import, NodeNew("4")>>}
=============================================================================
