------------------------- MODULE ChangePlansProofs -------------------------
(***************************************************************************)
(* What holds of every change plan, for any decks, requests and meshes:    *)
(* the include graph of the deck is reported as it is, what a plan keeps   *)
(* of its request derives the same change again, and what is written is    *)
(* what was validated.                                                     *)
(***************************************************************************)
EXTENDS ChangePlans, SourceSetsProofs

-----------------------------------------------------------------------------
(* What a deck is read for depends on the files of its source set only.      *)

LEMMA ContentOf ==
    ASSUME NEW set, NEW f
    PROVE  /\ DOMAIN Content(set, f) = Documents(set)
           /\ \A p \in Documents(set) : Content(set, f)[p] = f[p]
BY DEF Content

LEMMA SourcesDepend ==
    ASSUME NEW set, NEW f, NEW g, Root \in Documents(set), \A p \in Documents(set) : f[p] = g[p]
    PROVE  Index(set, f) = Index(set, g) /\ Validation(set, f) = Validation(set, g)
<1>1. \A p \in Documents(set) : CandidateLines(f[p], p = Root) = CandidateLines(g[p], p = Root) OBVIOUS
<1>2. [p \in Documents(set) |-> CandidateLines(f[p], p = Root)]
        = [p \in Documents(set) |-> CandidateLines(g[p], p = Root)]
  BY <1>1
<1>3. SemanticSources(set, f) = SemanticSources(set, g) BY <1>2 DEF SemanticSources
<1>4. f[Root] = g[Root] OBVIOUS
<1>5. Index(set, f) = Index(set, g) BY <1>3, <1>4 DEF Index
<1> QED BY <1>4, <1>5 DEF Validation

LEMMA BaseDepends ==
    ASSUME NEW set, NEW f, NEW g, Root \in Documents(set), \A p \in Documents(set) : f[p] = g[p]
    PROVE  BaseOf(set, f) = BaseOf(set, g)
<1>1. Content(set, f) = Content(set, g) BY DEF Content
<1>2. Index(set, f) = Index(set, g) BY SourcesDepend
<1>3. [p \in Documents(set) |-> Lines(f[p])] = [p \in Documents(set) |-> Lines(g[p])] OBVIOUS
<1> QED BY <1>1, <1>2, <1>3 DEF BaseOf

LEMMA BaseFields ==
    ASSUME NEW f
    PROVE  Base(f).set = Read(f) /\ Base(f).files = Content(Read(f), f)
BY DEF Base, BaseOf

(* A plan's base, read as a deck, is the base that the plan was made on.     *)
LEMMA BaseOfBase ==
    ASSUME NEW f, IsDeck(f)
    PROVE  Base(Base(f).files) = Base(f) /\ IsDeck(Base(f).files)
<1> DEFINE g == Content(Read(f), f)
<1>1. /\ Read(g) = Read(f) /\ IsFiniteSet(Documents(Read(f))) /\ Root \in Documents(Read(f))
  BY ReadAgain DEF IsDeck
<1>2. DOMAIN g = Documents(Read(f)) /\ \A p \in Documents(Read(f)) : g[p] = f[p] BY ContentOf
<1> HIDE DEF g
<1>3. BaseOf(Read(f), g) = BaseOf(Read(f), f) BY <1>1, <1>2, BaseDepends
<1>4. Base(g) = Base(f) BY <1>1, <1>3 DEF Base
<1> QED BY <1>1, <1>2, <1>4, BaseFields DEF IsDeck, g

(* Two decks with the same text in their source sets are one base.           *)
LEMMA SameBase ==
    ASSUME NEW f, NEW g, IsDeck(f), IsDeck(g), Base(f).files = Base(g).files
    PROVE  Base(f) = Base(g)
<1>1. Base(Base(f).files) = Base(f) /\ Base(Base(g).files) = Base(g) BY BaseOfBase
<1> QED BY <1>1

LEMMA DeckHoldsSet ==
    ASSUME NEW f, IsDeck(f)
    PROVE  Root \in Documents(Read(f)) /\ Documents(Read(f)) \subseteq DOMAIN f
BY ReadAgain DEF IsDeck

(* A proposal that replaces every file of the set does not depend on the     *)
(* deck whose other files it keeps.                                          *)
LEMMA ProposalAgain ==
    ASSUME NEW f, NEW g, IsDeck(f), IsDeck(g), NEW b, b = Base(f), b = Base(g),
           NEW patches, NEW proposed \in Proposals(f, b, patches)
    PROVE  \E again \in Proposals(g, b, patches) : Content(Read(g), again) = Content(Read(g), proposed)
<1>1. PICK out \in PatchedFiles(b.files, patches) :
        proposed = Replaced(f, out) /\ Validation(b.set, Replaced(f, out)) = <<>>
  BY DEF Proposals
<1>2. b.set = Read(f) /\ b.set = Read(g) /\ b.files = Content(Read(f), f) BY BaseFields
<1>3. DOMAIN out = Documents(b.set)
  <2>1. DOMAIN out = DOMAIN b.files BY <1>1 DEF PatchedFiles
  <2> QED BY <1>2, <2>1, ContentOf
<1>4. Root \in Documents(b.set) /\ Documents(b.set) \subseteq DOMAIN f /\ Documents(b.set) \subseteq DOMAIN g
  BY <1>2, DeckHoldsSet
<1> DEFINE again == Replaced(g, out)
<1>5. \A p \in Documents(b.set) : again[p] = out[p] /\ Replaced(f, out)[p] = out[p]
  BY <1>3, <1>4 DEF Replaced
<1> HIDE DEF again
<1>6. Validation(b.set, again) = Validation(b.set, Replaced(f, out)) BY <1>4, <1>5, SourcesDepend
<1>7. again \in Proposals(g, b, patches) BY <1>1, <1>6 DEF Proposals, again
<1>8. Content(Read(g), again) = Content(Read(g), proposed) BY <1>1, <1>2, <1>5 DEF Content
<1> QED BY <1>7, <1>8

-----------------------------------------------------------------------------
(* Replaying a request *)

\* x is a replay of the request a: it has the arguments of a, but a retarget may
\* have its occurrence filled in, and an import has some mesh.
Replays(x, a) ==
    /\ FieldsOf(a) \subseteq DOMAIN x
    /\ \A field \in FieldsOf(a) :
          \/ x[field] = a[field]
          \/ field = "occurrence" /\ Retargets(a) /\ a.occurrence = 0 /\ x.occurrence \in Nat
          \/ field = "mesh" /\ a.op = "import-mesh"

LEMMA FieldsHave ==
    ASSUME NEW r
    PROVE  /\ "op" \in FieldsOf(r)
           /\ r.op = "set-parameter" => "parameter" \in FieldsOf(r)
           /\ r.op = "set-parameter" /\ r.parameter \notin Flags => {"append", "occurrence"} \subseteq FieldsOf(r)
           /\ r.op = "import-mesh" => {"cluster", "mesh"} \subseteq FieldsOf(r)
           /\ Retargets(r) => {"cluster", "current", "new", "occurrence"} \subseteq FieldsOf(r)
           /\ r.op = "retarget-nodal-record" => "kind" \in FieldsOf(r)
<1>1. "op" \in FieldsOf(r) BY DEF FieldsOf
<1>2. ASSUME r.op = "set-parameter"
      PROVE  /\ "parameter" \in FieldsOf(r)
             /\ r.parameter \notin Flags => {"append", "occurrence"} \subseteq FieldsOf(r)
  BY <1>2 DEF FieldsOf
<1>3. ASSUME r.op = "import-mesh" PROVE {"cluster", "mesh"} \subseteq FieldsOf(r)
  BY <1>3 DEF FieldsOf
<1>4. ASSUME r.op = "retarget-nodal-record"
      PROVE  {"kind", "cluster", "current", "new", "occurrence"} \subseteq FieldsOf(r)
  BY <1>4 DEF FieldsOf
<1>5. ASSUME r.op \in {"retarget-section", "retarget-coordinate-operation"}
      PROVE  {"cluster", "current", "new", "occurrence"} \subseteq FieldsOf(r)
  BY <1>5 DEF FieldsOf
<1> QED BY <1>1, <1>2, <1>3, <1>4, <1>5 DEF Retargets

\* The operation, and for a parameter its name, say which arguments there are.
LEMMA SameFields ==
    ASSUME NEW x, NEW y, x.op = y.op, x.op = "set-parameter" => x.parameter = y.parameter
    PROVE  FieldsOf(x) = FieldsOf(y) /\ (Retargets(x) <=> Retargets(y))
<1>1. CASE x.op = "set-parameter"
  <2>1. y.op = "set-parameter" /\ x.parameter = y.parameter BY <1>1
  <2> QED BY <1>1, <2>1 DEF FieldsOf, Retargets
<1>2. CASE x.op # "set-parameter"
  <2>1. y.op # "set-parameter" BY <1>2
  <2> QED BY <1>2, <2>1 DEF FieldsOf, Retargets
<1> QED BY <1>1, <1>2

LEMMA SameArguments ==
    ASSUME NEW x, NEW y, FieldsOf(x) = FieldsOf(y), \A field \in FieldsOf(x) : x[field] = y[field]
    PROVE  Arguments(x) = Arguments(y)
BY DEF Arguments

LEMMA ArgumentsAre ==
    ASSUME NEW r
    PROVE  /\ DOMAIN Arguments(r) = FieldsOf(r)
           /\ \A field \in FieldsOf(r) : Arguments(r)[field] = r[field]
           /\ FieldsOf(Arguments(r)) = FieldsOf(r)
           /\ Arguments(r).op = r.op
           /\ Retargets(Arguments(r)) <=> Retargets(r)
           /\ Appends(Arguments(r)) <=> Appends(r)
<1>1. DOMAIN Arguments(r) = FieldsOf(r) /\ \A field \in FieldsOf(r) : Arguments(r)[field] = r[field]
  BY DEF Arguments
<1>2. Arguments(r).op = r.op /\ (r.op = "set-parameter" => Arguments(r).parameter = r.parameter)
  BY <1>1, FieldsHave
<1>3. FieldsOf(Arguments(r)) = FieldsOf(r) /\ (Retargets(Arguments(r)) <=> Retargets(r))
  BY <1>2, SameFields
<1>4. Appends(Arguments(r)) <=> Appends(r) BY <1>1, <1>2, FieldsHave DEF Appends
<1> QED BY <1>1, <1>2, <1>3, <1>4

LEMMA ReplayKeeps ==
    ASSUME NEW a, Fielded(a), NEW x, Replays(x, a)
    PROVE  /\ Fielded(x) /\ x.op = a.op /\ FieldsOf(x) = FieldsOf(a)
           /\ Retargets(x) <=> Retargets(a)
<1>1. x.op = a.op BY FieldsHave DEF Replays
<1>2. x.op = "set-parameter" => x.parameter = a.parameter BY <1>1, FieldsHave DEF Replays
<1>3. FieldsOf(x) = FieldsOf(a) /\ (Retargets(x) <=> Retargets(a)) BY <1>1, <1>2, SameFields
<1>4. "occurrence" \in FieldsOf(x) => x.occurrence \in Nat BY <1>3 DEF Replays, Fielded
<1> QED BY <1>1, <1>3, <1>4 DEF Replays, Fielded

LEMMA SelectedOne ==
    ASSUME NEW r, r.occurrence \in Nat, NEW n, NEW k \in Selected(r, n)
    PROVE  /\ Selected(r, n) = {k} /\ k \in Nat \ {0}
           /\ IF r.occurrence = 0 THEN n = 1 /\ k = 1 ELSE k = r.occurrence /\ k <= n
BY DEF Selected

\* The patches of a retarget: those of the record that is selected, which the
\* request's other fields determine.
LEMMA RetargetDepends ==
    ASSUME NEW b, NEW x, Retargets(x), NEW y, y.op = x.op, y.cluster = x.cluster,
           x.op = "retarget-nodal-record" => y.kind = x.kind,
           y.current = x.current, y.new = x.new,
           LET n == Len(Candidates(b, Kind(x), x)) IN Selected(y, n) = Selected(x, n)
    PROVE  Dispatch(b, y) = Dispatch(b, x)
<1>0. x.op \in {"retarget-nodal-record", "retarget-section", "retarget-coordinate-operation"}
  BY DEF Retargets
<1>1. ASSUME NEW kind PROVE Candidates(b, kind, y) = Candidates(b, kind, x) BY DEF Candidates
<1>2. ASSUME NEW kind, NEW set, NEW option,
             Selected(y, Len(Candidates(b, kind, x))) = Selected(x, Len(Candidates(b, kind, x)))
      PROVE  RetargetOption(b, y, kind, set, option) = RetargetOption(b, x, kind, set, option)
  BY <1>1, <1>2 DEF RetargetOption
<1>3. CASE x.op = "retarget-nodal-record"
  <2>1. Kind(x) = x.kind BY <1>3 DEF Kind
  <2>2. \A format : Admissible(b, y, format) = Admissible(b, x, format) BY <1>3 DEF Admissible
  <2>3. RetargetNodal(b, y) = RetargetNodal(b, x) BY <1>1, <1>3, <2>1, <2>2 DEF RetargetNodal
  <2>4. Dispatch(b, x) = RetargetNodal(b, x) /\ Dispatch(b, y) = RetargetNodal(b, y)
    BY <1>3 DEF Dispatch
  <2> QED BY <2>3, <2>4
<1>4. CASE x.op = "retarget-section"
  <2>1. Kind(x) = "section" BY <1>4 DEF Kind
  <2>2. RetargetSection(b, y) = RetargetSection(b, x) BY <1>2, <2>1 DEF RetargetSection
  <2>3. Dispatch(b, x) = RetargetSection(b, x) /\ Dispatch(b, y) = RetargetSection(b, y)
    BY <1>4 DEF Dispatch
  <2> QED BY <2>2, <2>3
<1>5. CASE x.op = "retarget-coordinate-operation"
  <2>1. Kind(x) = "coordinate-operation" BY <1>5 DEF Kind
  <2>2. RetargetCoordinates(b, y) = RetargetCoordinates(b, x) BY <1>2, <2>1 DEF RetargetCoordinates
  <2>3. Dispatch(b, x) = RetargetCoordinates(b, x) /\ Dispatch(b, y) = RetargetCoordinates(b, y)
    BY <1>5 DEF Dispatch
  <2> QED BY <2>2, <2>3
<1> QED BY <1>0, <1>3, <1>4, <1>5

\* A retarget that is planned has selected one record, and has one patch.
LEMMA RetargetSelects ==
    ASSUME NEW b, NEW x, Retargets(x), x.occurrence \in Nat, NEW patches \in Dispatch(b, x)
    PROVE  /\ \E k : k \in Selected(x, Len(Candidates(b, Kind(x), x)))
           /\ \A other \in Dispatch(b, x) : other = patches
<1>0. x.op \in {"retarget-nodal-record", "retarget-section", "retarget-coordinate-operation"}
  BY DEF Retargets
<1>1. ASSUME NEW kind, NEW set, NEW option, NEW p \in RetargetOption(b, x, kind, set, option)
      PROVE  /\ \E k : k \in Selected(x, Len(Candidates(b, kind, x)))
             /\ \A q \in RetargetOption(b, x, kind, set, option) : q = p
  <2>1. PICK k \in Selected(x, Len(Candidates(b, kind, x))) : TRUE BY <1>1 DEF RetargetOption
  <2>2. Selected(x, Len(Candidates(b, kind, x))) = {k} BY SelectedOne
  <2> QED BY <2>1, <2>2 DEF RetargetOption
<1>2. CASE x.op = "retarget-nodal-record"
  <2>1. Kind(x) = x.kind BY <1>2 DEF Kind
  <2>2. Dispatch(b, x) = RetargetNodal(b, x) BY <1>2 DEF Dispatch
  <2>3. PICK k \in Selected(x, Len(Candidates(b, x.kind, x))) : TRUE BY <2>2 DEF RetargetNodal
  <2>4. Selected(x, Len(Candidates(b, x.kind, x))) = {k} BY SelectedOne
  <2> QED BY <2>1, <2>2, <2>3, <2>4 DEF RetargetNodal
<1>3. CASE x.op = "retarget-section"
  <2>1. Kind(x) = "section" /\ Dispatch(b, x) = RetargetOption(b, x, "section", "element-set", "ELSET")
    BY <1>3 DEF Kind, Dispatch, RetargetSection
  <2> QED BY <1>1, <2>1
<1>4. CASE x.op = "retarget-coordinate-operation"
  <2>1. Kind(x) = "coordinate-operation"
        /\ Dispatch(b, x) = RetargetOption(b, x, "coordinate-operation", "node-set", "NSET")
    BY <1>4 DEF Kind, Dispatch, RetargetCoordinates
  <2> QED BY <1>1, <2>1
<1> QED BY <1>0, <1>2, <1>3, <1>4

LEMMA ReplaysLike ==
    ASSUME NEW a, NEW x, Replays(x, a), NEW y, FieldsOf(a) \subseteq DOMAIN y,
           \A field \in FieldsOf(a) : y[field] = x[field]
    PROVE  Replays(y, a)
BY DEF Replays

\* The selector of a planned request is replayed as the same call, but for a
\* retarget, where it selects the record that the request selected: it derives
\* the same patches.
LEMMA SelectorReplays ==
    ASSUME NEW b, NEW a, Fielded(a), NEW x, Replays(x, a), NEW patches \in Patches(b, x)
    PROVE  LET s == Selector(b, x) IN
           /\ Replays(Replay(s), a) /\ patches \in Patches(b, Replay(s))
           /\ s.op = a.op
           /\ IF Retargets(a) THEN Replay(s) = s ELSE Arguments(Replay(s)) = Arguments(x)
           /\ a.op = "import-mesh" => s.mesh = x.mesh
<1> DEFINE args == Arguments(x)
           s == Selector(b, x)
           y == Replay(s)
<1>1. Fielded(x) /\ x.op = a.op /\ FieldsOf(x) = FieldsOf(a) /\ (Retargets(x) <=> Retargets(a))
  BY ReplayKeeps
<1>2. /\ DOMAIN args = FieldsOf(x) /\ (\A field \in FieldsOf(x) : args[field] = x[field])
      /\ FieldsOf(args) = FieldsOf(x) /\ args.op = x.op
      /\ (Retargets(args) <=> Retargets(x)) /\ (Appends(args) <=> Appends(x))
  BY ArgumentsAre
<1>3. patches \in Dispatch(b, args) BY DEF Patches
<1> HIDE DEF args
<1>4. CASE ~Retargets(x) /\ ~Appends(x)
  <2>1. s = args BY <1>4 DEF Selector, args
  <2>2. y = args BY <1>2, <1>4, <2>1 DEF Replay
  <2>3. Arguments(args) = args BY <1>2, SameArguments DEF args
  <2>4. Replays(args, a) BY <1>1, <1>2, ReplaysLike
  <2>5. a.op = "import-mesh" => args.mesh = x.mesh BY <1>1, <1>2, FieldsHave
  <2> QED BY <1>1, <1>2, <1>3, <1>4, <2>1, <2>2, <2>3, <2>4, <2>5 DEF Patches, args
<1>5. CASE Appends(x)
  <2>1. x.op = "set-parameter" /\ x.parameter \notin Flags /\ x.append /\ ~Retargets(x)
    BY <1>5 DEF Appends, Retargets
  <2>2. {"op", "parameter", "append", "occurrence"} \subseteq FieldsOf(x) BY <2>1, FieldsHave
  <2>3. args.op = "set-parameter" /\ args.parameter \notin Flags /\ args.append
    BY <1>2, <2>1, <2>2
  <2>4. PICK c \in ConstructLines(b, args) : patches \in SetValue(b, c, args)
    <3>1. Dispatch(b, args) = SetParameter(b, args) BY <2>3 DEF Dispatch
    <3> QED BY <1>3, <2>3, <3>1 DEF SetParameter
  <2>5. args.occurrence = 0 BY <2>3, <2>4 DEF SetValue
  <2> DEFINE place == ValuesNow(b, x) + 1
  <2>6. s = [args EXCEPT !.occurrence = place] BY <1>5, <2>1 DEF Selector, args
  <2> HIDE DEF place, s
  <2>7. /\ DOMAIN s = FieldsOf(x) /\ s.op = "set-parameter" /\ s.parameter = args.parameter
        /\ s.append = args.append
        /\ \A field \in FieldsOf(x) : field # "occurrence" => s[field] = args[field]
    BY <1>2, <2>2, <2>3, <2>6
  <2>8. y = [s EXCEPT !.occurrence = 0] BY <2>3, <2>7 DEF Replay, Appends
  <2> HIDE DEF y
  <2>9. DOMAIN y = FieldsOf(x) /\ \A field \in FieldsOf(x) : y[field] = x[field]
    BY <1>2, <2>2, <2>5, <2>7, <2>8
  <2>10. FieldsOf(y) = FieldsOf(x) BY <2>2, <2>9, SameFields
  <2>11. Arguments(y) = args BY <2>9, <2>10, SameArguments DEF args
  <2>12. Replays(y, a) BY <1>1, <2>9, ReplaysLike
  <2> QED BY <1>1, <1>3, <2>1, <2>7, <2>11, <2>12 DEF Patches, args, y, s
<1>6. CASE Retargets(x)
  <2>0. {"op", "cluster", "current", "new", "occurrence"} \subseteq FieldsOf(x)
        /\ (x.op = "retarget-nodal-record" => "kind" \in FieldsOf(x))
    BY <1>6, FieldsHave
  <2> DEFINE n == Len(Candidates(b, Kind(x), x))
             k == CHOOSE i \in Selected(x, n) : TRUE
  <2>1. args.occurrence = x.occurrence /\ x.occurrence \in Nat BY <1>1, <1>2, <2>0 DEF Fielded
  <2>2. Kind(args) = Kind(x)
    BY <1>2, <1>6, <2>0 DEF Kind, Retargets
  <2>3. Candidates(b, Kind(args), args) = Candidates(b, Kind(x), x)
    BY <1>2, <2>0, <2>2 DEF Candidates
  <2>4. \E i : i \in Selected(args, n) BY <1>2, <1>3, <1>6, <2>1, <2>3, RetargetSelects
  <2>5. Selected(args, n) = Selected(x, n) BY <2>1 DEF Selected
  <2>6. k \in Selected(x, n) BY <2>4, <2>5
  <2>7. s = [args EXCEPT !.occurrence = k] BY <1>6 DEF Selector, SelectedRecord, args
  <2> HIDE DEF n, k, s
  <2>8. /\ Selected(x, n) = {k} /\ k \in Nat \ {0}
        /\ IF x.occurrence = 0 THEN n = 1 /\ k = 1 ELSE k = x.occurrence /\ k <= n
    BY <2>1, <2>6, SelectedOne
  <2>9. /\ DOMAIN s = FieldsOf(x) /\ s.occurrence = k
        /\ \A field \in FieldsOf(x) : field # "occurrence" => s[field] = x[field]
    BY <1>2, <2>0, <2>7
  <2>10. s.op = x.op /\ s.op # "set-parameter" BY <1>6, <2>0, <2>9 DEF Retargets
  <2>11. y = s BY <2>10 DEF Replay, Appends
  <2>12. FieldsOf(s) = FieldsOf(x) BY <2>10, SameFields
  <2>13. Arguments(s) = s /\ \A field \in FieldsOf(x) : s[field] = IF field = "occurrence" THEN k ELSE args[field]
    <3>1. Arguments(s) = [field \in FieldsOf(s) |-> s[field]] BY DEF Arguments
    <3>2. s = [field \in DOMAIN s |-> s[field]] BY <2>7
    <3> QED BY <1>2, <2>9, <2>12, <3>1, <3>2
  <2>14. Selected(s, n) = Selected(args, n) BY <2>5, <2>8, <2>9 DEF Selected
  <2>15. Dispatch(b, s) = Dispatch(b, args)
    <3>1. s.op = args.op /\ s.cluster = args.cluster /\ s.current = args.current /\ s.new = args.new
      BY <2>0, <2>13
    <3>2. args.op = "retarget-nodal-record" => s.kind = args.kind
      BY <1>2, <2>0, <2>13
    <3> QED BY <1>2, <1>6, <2>3, <2>14, <3>1, <3>2, RetargetDepends DEF n
  <2>16. Replays(s, a)
    <3>1. ASSUME NEW field \in FieldsOf(a), field # "occurrence"
          PROVE  s[field] = a[field] \/ (field = "mesh" /\ a.op = "import-mesh")
      BY <1>1, <2>9, <3>1 DEF Replays
    <3>2. s.occurrence = a.occurrence \/ (Retargets(a) /\ a.occurrence = 0 /\ s.occurrence \in Nat)
      BY <1>1, <1>6, <2>0, <2>8, <2>9 DEF Replays
    <3> QED BY <1>1, <2>9, <3>1, <3>2 DEF Replays
  <2>17. a.op # "import-mesh" BY <1>1, <1>6 DEF Retargets
  <2>18. patches \in Patches(b, s) BY <1>3, <2>13, <2>15 DEF Patches
  <2> QED BY <1>1, <1>6, <2>10, <2>11, <2>16, <2>17, <2>18 DEF y, s
<1> QED BY <1>4, <1>5, <1>6

-----------------------------------------------------------------------------
(* The invariant *)

\* The request that is planned: an import takes the mesh on disk.
Planned(r, meshFile) == IF r.op = "import-mesh" THEN [r EXCEPT !.mesh = meshFile] ELSE r

\* The decks and the requests of a session.
SessionDecks == {start[1] : start \in Starts} \cup {revision[2] : revision \in Revisions}
SessionRequests == Requests \cup {pair[2] : pair \in Pairs}

LEMMA SessionIsWell ==
    (\A f \in SessionDecks : IsDeck(f)) /\ (\A r \in SessionRequests : Fielded(r))
BY DecksAssumption, FieldsAssumption DEF SessionDecks, SessionRequests

\* A plan was made on some deck of the session, from a replay of what was asked.
DerivedFrom(plan, f, x) == Replays(x, plan.asked) /\ plan \in PlansOn(Base(f), f, plan.asked, x)
Derived(plan) == plan.asked \in SessionRequests /\ \E f \in SessionDecks : \E x : DerivedFrom(plan, f, x)

PlansDerived == \A n \in Names : plans[n].kind = "plan" => Derived(plans[n])
DeckIsKnown == deck \in SessionDecks
PlansSaved ==
    /\ plans = [n \in Names |-> plans[n]]
    /\ \A n \in Names : plans[n] = Nothing \/ plans[n].kind \in {"plan", "joint"}
PlansInv == DeckIsKnown /\ PlansSaved /\ PlansDerived

LEMMA PlanFields ==
    ASSUME NEW b, NEW f, NEW r, NEW x, NEW plan \in PlansOn(b, f, r, x)
    PROVE  /\ plan.kind = "plan" /\ plan.asked = r /\ plan.request = Selector(b, x)
           /\ plan.base = b.files /\ plan.patches \in Patches(b, x)
           /\ plan.proposed \in Proposals(f, b, plan.patches)
BY DEF PlansOn

LEMMA PlanExists ==
    ASSUME NEW b, NEW f, NEW r, NEW x, NEW patches \in Patches(b, x),
           NEW proposed \in Proposals(f, b, patches)
    PROVE  \E plan \in PlansOn(b, f, r, x) : plan.patches = patches /\ plan.proposed = proposed
<1> DEFINE plan == [kind |-> "plan", asked |-> r, request |-> Selector(b, x), parts |-> <<>>,
                    base |-> b.files, patches |-> patches, proposed |-> proposed]
<1>1. plan \in PlansOn(b, f, r, x) BY DEF PlansOn
<1>2. plan.patches = patches /\ plan.proposed = proposed OBVIOUS
<1> QED BY <1>1, <1>2

LEMMA MakesPlansOn ==
    ASSUME NEW f, NEW meshFile, NEW r
    PROVE  MakePlan(f, meshFile, r) = PlansOn(Base(f), f, r, Planned(r, meshFile))
BY DEF MakePlan, Planned

\* What an earlier plan kept is replayed for a later deck and mesh.
LEMMA PlannedReplays ==
    ASSUME NEW a, Fielded(a), NEW x, Replays(x, a), NEW meshFile
    PROVE  Replays(Planned(x, meshFile), a)
<1>1. Fielded(x) /\ x.op = a.op /\ FieldsOf(x) = FieldsOf(a) BY ReplayKeeps
<1>2. CASE x.op = "import-mesh"
  <2> DEFINE y == Planned(x, meshFile)
  <2>1. y = [x EXCEPT !.mesh = meshFile] BY <1>2 DEF Planned
  <2> HIDE DEF y
  <2>2. DOMAIN y = DOMAIN x /\ \A field \in DOMAIN x : field # "mesh" => y[field] = x[field]
    BY <2>1
  <2>3. ~Retargets(a) BY <1>1, <1>2 DEF Retargets
  <2> QED BY <1>1, <1>2, <2>2, <2>3 DEF Replays, y
<1>3. CASE x.op # "import-mesh" BY <1>3 DEF Planned
<1> QED BY <1>2, <1>3

\* A call with the mesh that its selector names is that call.
LEMMA PlannedPatches ==
    ASSUME NEW b, NEW x, FieldsOf(x) \subseteq DOMAIN x, NEW m, x.op = "import-mesh" => x.mesh = m
    PROVE  Patches(b, Planned(x, m)) = Patches(b, x)
<1>1. CASE x.op = "import-mesh"
  <2> DEFINE y == Planned(x, m)
  <2>1. y = [x EXCEPT !.mesh = m] BY <1>1 DEF Planned
  <2> HIDE DEF y
  <2>2. \A field \in FieldsOf(x) : y[field] = x[field] BY <1>1, <2>1
  <2>3. FieldsOf(y) = FieldsOf(x) BY <1>1, <2>2, FieldsHave, SameFields
  <2>4. Arguments(y) = Arguments(x) BY <2>2, <2>3, SameArguments
  <2> QED BY <2>4 DEF Patches, y
<1>2. CASE x.op # "import-mesh" BY <1>2 DEF Planned
<1> QED BY <1>1, <1>2

\* The request that was asked, of the record that the plan names, is planned as
\* the same patch.
LEMMA PinnedPatches ==
    ASSUME NEW b, NEW a, Fielded(a), NEW x, Replays(x, a), NEW patches \in Patches(b, x)
    PROVE  LET s == Selector(b, x) IN patches \in Patches(b, Planned(Pinned(a, s), MeshFor(s)))
<1> DEFINE s == Selector(b, x)
           z == Planned(Pinned(a, s), MeshFor(s))
<1>1. x.op = a.op /\ FieldsOf(x) = FieldsOf(a) /\ (Retargets(x) <=> Retargets(a)) BY ReplayKeeps
<1>2. /\ Replays(Replay(s), a) /\ patches \in Patches(b, Replay(s))
      /\ s.op = a.op
      /\ IF Retargets(a) THEN Replay(s) = s ELSE Arguments(Replay(s)) = Arguments(x)
      /\ a.op = "import-mesh" => s.mesh = x.mesh
  BY SelectorReplays
<1> HIDE DEF s
<1>3. CASE Retargets(a)
  <2>1. a.op # "import-mesh" /\ a.op # "set-parameter" BY <1>3 DEF Retargets
  <2>2. {"op", "occurrence"} \subseteq FieldsOf(a) /\ FieldsOf(a) \subseteq DOMAIN a
    BY <1>3, FieldsHave DEF Fielded
  <2> DEFINE pinned == [a EXCEPT !.occurrence = s.occurrence]
  <2>3. Pinned(a, s) = pinned BY <1>3 DEF Pinned
  <2>4. pinned.op = a.op /\ \A field \in FieldsOf(a) :
            pinned[field] = IF field = "occurrence" THEN s.occurrence ELSE a[field]
    BY <2>2
  <2> HIDE DEF pinned
  <2>5. z = pinned BY <2>1, <2>3, <2>4 DEF Planned
  <2>6. Replays(s, a) /\ patches \in Patches(b, s) BY <1>2, <1>3
  <2>7. \A field \in FieldsOf(a) : pinned[field] = s[field] BY <2>1, <2>4, <2>6 DEF Replays
  <2>8. FieldsOf(s) = FieldsOf(a) /\ FieldsOf(pinned) = FieldsOf(a)
    BY <1>2, <2>1, <2>4, SameFields
  <2>9. Arguments(pinned) = Arguments(s) BY <2>7, <2>8, SameArguments
  <2> QED BY <2>5, <2>6, <2>9 DEF Patches, z, s
<1>4. CASE ~Retargets(a)
  <2>1. Pinned(a, s) = a BY <1>4 DEF Pinned
  <2>2. \A field \in FieldsOf(a) : x[field] = a[field] \/ (field = "mesh" /\ a.op = "import-mesh")
    BY <1>4 DEF Replays
  <2>3. FieldsOf(a) \subseteq DOMAIN a BY DEF Fielded
  <2>4. z = IF a.op = "import-mesh" THEN [a EXCEPT !.mesh = x.mesh] ELSE a
    BY <1>2, <2>1 DEF Planned, MeshFor
  <2> HIDE DEF z
  <2>5. \A field \in FieldsOf(a) : z[field] = x[field] BY <2>2, <2>3, <2>4
  <2>6. z.op = a.op BY <1>1, <2>5, FieldsHave
  <2>7. FieldsOf(z) = FieldsOf(a)
    <3>1. a.op = "set-parameter" => z = a BY <2>4
    <3> QED BY <2>6, <3>1, SameFields
  <2>8. Arguments(z) = Arguments(x) BY <1>1, <2>5, <2>7, SameArguments
  <2> QED BY <2>8 DEF Patches, z, s
<1> QED BY <1>3, <1>4

LEMMA ReplaysItself ==
    ASSUME NEW a, Fielded(a) PROVE Replays(a, a)
BY DEF Replays, Fielded

LEMMA Reasked ==
    ASSUME NEW b, NEW f, NEW r, NEW x, NEW plan \in PlansOn(b, f, r, x), NEW a
    PROVE  [plan EXCEPT !.asked = a] \in PlansOn(b, f, a, x)
<1>0. PICK patches \in Patches(b, x) : \E proposed \in Proposals(f, b, patches) :
        plan = [kind |-> "plan", asked |-> r, request |-> Selector(b, x), parts |-> <<>>,
                base |-> b.files, patches |-> patches, proposed |-> proposed]
  BY DEF PlansOn
<1>1. PICK proposed \in Proposals(f, b, patches) :
        plan = [kind |-> "plan", asked |-> r, request |-> Selector(b, x), parts |-> <<>>,
                base |-> b.files, patches |-> patches, proposed |-> proposed]
  BY <1>0
<1>2. [plan EXCEPT !.asked = a] =
        [kind |-> "plan", asked |-> a, request |-> Selector(b, x), parts |-> <<>>,
         base |-> b.files, patches |-> patches, proposed |-> proposed]
  BY <1>1
<1> QED BY <1>2 DEF PlansOn

LEMMA InitPlans == Init => PlansInv
<1> SUFFICES ASSUME Init PROVE PlansInv OBVIOUS
<1>1. deck \in SessionDecks BY DEF Init, SessionDecks
<1>2. \A n \in Names : plans[n] = Nothing BY DEF Init
<1>3. Nothing.kind # "plan" BY DEF Nothing
<1>4. PlansSaved BY <1>2 DEF Init, PlansSaved
<1> QED BY <1>1, <1>2, <1>3, <1>4 DEF PlansInv, DeckIsKnown, PlansDerived

LEMMA AskKeeps ==
    ASSUME PlansInv, NEW name \in Names, NEW r \in SessionRequests, Ask(name, r)
    PROVE  PlansInv'
<1>1. PICK plan \in MakePlan(deck, mesh, r) : plans' = [plans EXCEPT ![name] = plan] BY DEF Ask
<1>2. deck' = deck BY DEF Ask
<1>3. plan \in PlansOn(Base(deck), deck, r, Planned(r, mesh)) BY <1>1, MakesPlansOn
<1>4. plan.asked = r /\ plan.kind = "plan" BY <1>3, PlanFields
<1>5. Replays(Planned(r, mesh), r) BY SessionIsWell, ReplaysItself, PlannedReplays
<1>6. Derived(plan) BY <1>3, <1>4, <1>5 DEF Derived, DerivedFrom, PlansInv, DeckIsKnown
<1>7. \A n \in Names : plans'[n] = IF n = name THEN plan ELSE plans[n]
  BY <1>1 DEF PlansInv, PlansSaved
<1>8. PlansDerived' BY <1>6, <1>7 DEF PlansInv, PlansDerived
<1>9. PlansSaved' BY <1>1, <1>4, <1>7 DEF PlansInv, PlansSaved
<1> QED BY <1>2, <1>8, <1>9 DEF PlansInv, DeckIsKnown

LEMMA RefreshKeeps ==
    ASSUME PlansInv, NEW name \in Names, Refresh(name)
    PROVE  PlansInv'
<1> DEFINE old == plans[name]
<1>1. PICK plan \in MakePlan(deck, mesh, Replay(old.request)) :
        plans' = [plans EXCEPT ![name] = [plan EXCEPT !.asked = old.asked]]
  BY DEF Refresh
<1>2. deck' = deck BY DEF Refresh
<1>3. Derived(old) BY DEF Refresh, PlansInv, PlansDerived
<1> HIDE DEF old
<1>4. PICK f \in SessionDecks : \E x : DerivedFrom(old, f, x) BY <1>3 DEF Derived
<1>04. PICK x : Replays(x, old.asked) /\ old \in PlansOn(Base(f), f, old.asked, x)
  BY <1>4 DEF DerivedFrom
<1>05. Fielded(old.asked) BY <1>3, SessionIsWell DEF Derived
<1>5. old.request = Selector(Base(f), x) /\ old.patches \in Patches(Base(f), x) BY <1>04, PlanFields
<1>6. Replays(Replay(old.request), old.asked) BY <1>04, <1>05, <1>5, SelectorReplays
<1> DEFINE y == Planned(Replay(old.request), mesh)
           new == [plan EXCEPT !.asked = old.asked]
<1>7. Replays(y, old.asked) BY <1>05, <1>6, PlannedReplays
<1>8. plan \in PlansOn(Base(deck), deck, Replay(old.request), y) BY <1>1, MakesPlansOn
<1> HIDE DEF y
<1>9. new \in PlansOn(Base(deck), deck, old.asked, y) BY <1>8, Reasked
<1> HIDE DEF new
<1>10. new.asked = old.asked /\ new.kind = "plan" BY <1>9, PlanFields
<1>11. Derived(new) BY <1>3, <1>7, <1>9, <1>10 DEF Derived, DerivedFrom, PlansInv, DeckIsKnown
<1>12. plans' = [plans EXCEPT ![name] = new] BY <1>1 DEF new
<1>13. \A n \in Names : plans'[n] = IF n = name THEN new ELSE plans[n]
  BY <1>12 DEF PlansInv, PlansSaved
<1>14. PlansDerived' BY <1>11, <1>13 DEF PlansInv, PlansDerived
<1>15. PlansSaved' BY <1>10, <1>12, <1>13 DEF PlansInv, PlansSaved
<1> QED BY <1>2, <1>14, <1>15 DEF PlansInv, DeckIsKnown

LEMMA JoinedFields ==
    ASSUME NEW p, NEW q, NEW plan \in Joined(p, q)
    PROVE  /\ plan.kind = "joint"
           /\ plan.proposed \in Proposals(deck, [set |-> Read(deck), files |-> p.base], p.patches \o q.patches)
           /\ IsCurrent(p)
<1> DEFINE from == Proposals(deck, [set |-> Read(deck), files |-> p.base], p.patches \o q.patches)
<1>1. /\ IsCurrent(p)
      /\ plan \in {[kind |-> "joint", asked |-> <<p.asked, q.asked>>, request |-> Nothing,
                    parts |-> <<p, q>>, base |-> p.base, patches |-> p.patches \o q.patches,
                    proposed |-> proposed] : proposed \in from}
  BY DEF Joined
<1> HIDE DEF from
<1>2. PICK proposed \in from :
        plan = [kind |-> "joint", asked |-> <<p.asked, q.asked>>, request |-> Nothing,
                parts |-> <<p, q>>, base |-> p.base, patches |-> p.patches \o q.patches,
                proposed |-> proposed]
  BY <1>1
<1> QED BY <1>1, <1>2 DEF from

LEMMA ComposeKeeps ==
    ASSUME PlansInv, Compose PROVE PlansInv'
<1>1. PICK plan \in Joined(plans["first"], plans["second"]) :
        plans' = [plans EXCEPT !["first"] = plan, !["second"] = Nothing]
  BY DEF Compose
<1>2. deck' = deck BY DEF Compose
<1>3. plan.kind = "joint" BY JoinedFields
<1>4. Nothing.kind # "plan" BY DEF Nothing
<1>5. Names = {"first", "second"} BY DEF Names
<1>6. plans'["first"] = plan /\ plans'["second"] = Nothing BY <1>1, <1>5 DEF PlansInv, PlansSaved
<1>7. PlansDerived' BY <1>3, <1>4, <1>5, <1>6 DEF PlansDerived
<1>8. PlansSaved' BY <1>1, <1>3, <1>5, <1>6 DEF PlansInv, PlansSaved
<1> QED BY <1>2, <1>7, <1>8 DEF PlansInv, DeckIsKnown

LEMMA SaveKeeps ==
    ASSUME PlansInv, Save PROVE PlansInv'
<1>1. plans' = plans BY DEF Save
<1>2. deck' \in SessionDecks BY DEF Save, PlansInv, DeckIsKnown, SessionDecks
<1> QED BY <1>1, <1>2 DEF PlansInv, DeckIsKnown, PlansDerived, PlansSaved

LEMMA NextKeepsPlans == PlansInv /\ [Next]_vars => PlansInv'
<1> SUFFICES ASSUME PlansInv, [Next]_vars PROVE PlansInv' OBVIOUS
<1>1. "first" \in Names /\ "second" \in Names BY DEF Names
<1>2. ASSUME NEW r \in Requests, Ask("first", r) PROVE PlansInv'
  BY <1>1, <1>2, AskKeeps DEF SessionRequests
<1>3. ASSUME NEW pair \in Pairs, Ask("second", pair[2]) PROVE PlansInv'
  BY <1>1, <1>3, AskKeeps DEF SessionRequests
<1>4. ASSUME NEW name \in Names, Refresh(name) PROVE PlansInv' BY <1>4, RefreshKeeps
<1>5. ASSUME UNCHANGED <<deck, plans>> PROVE PlansInv'
  BY <1>5 DEF PlansInv, DeckIsKnown, PlansDerived, PlansSaved
<1>6. ASSUME NEW name \in Names, Apply(name) PROVE PlansInv' BY <1>5, <1>6 DEF Apply
<1>7. ASSUME NEW intent \in Intents, Generate(intent) PROVE PlansInv' BY <1>5, <1>7 DEF Generate
<1>8. CASE Compose BY <1>8, ComposeKeeps
<1>9. CASE Save BY <1>9, SaveKeeps
<1>10. CASE UNCHANGED vars BY <1>5, <1>10 DEF vars
<1>11. CASE Next BY <1>2, <1>3, <1>4, <1>6, <1>7, <1>8, <1>9, <1>11 DEF Next
<1> QED BY <1>10, <1>11

\* Every saved plan was made on some deck of the session from a replay of the
\* request that was asked (the selector of a plan, and what _replay_plan does
\* with it).
THEOREM PlansAreDerived == Spec => []PlansInv
<1>1. Init => PlansInv BY InitPlans
<1>2. PlansInv /\ [Next]_vars => PlansInv' BY NextKeepsPlans
<1> QED BY <1>1, <1>2, PTL DEF Spec

-----------------------------------------------------------------------------
(* The properties *)

\* The source set of the deck is what its includes reach, each file once, and a
\* cycle among the includes is an error (SourceSet.read, the diagnostics of the
\* include graph).
THEOREM CyclesAreReported == Spec => []CycleIsReported
<1>1. PlansInv => CycleIsReported
  <2> SUFFICES ASSUME IsDeck(deck) PROVE CycleIsReported BY SessionIsWell DEF PlansInv, DeckIsKnown
  <2>1. /\ Documents(Read(deck)) = Reachable(deck, {Root})
        /\ Len(Read(deck).documents) = Cardinality(Reachable(deck, {Root}))
        /\ (\E k \in DOMAIN Read(deck).errors : Read(deck).errors[k].code = "E204")
              <=> \E f \in Reachable(deck, {Root}) : f \in Reachable(deck, Includes(deck, f))
    BY ReadingFindsGraph DEF IsDeck
  <2>2. GraphErrors(Read(deck)) = Read(deck).errors BY DEF GraphErrors
  <2> QED BY <2>1, <2>2 DEF CycleIsReported
<1> QED BY <1>1, PlansAreDerived, PTL

\* A plan whose files and mesh are unchanged is confirmed, with the text that
\* was reviewed (_validated_plan_proposal derives it again from its selector).
THEOREM CurrentPlansAreConfirmed == Spec => []CurrentIsConfirmed
<1>1. PlansInv => CurrentIsConfirmed
  <2> SUFFICES ASSUME PlansInv, NEW n \in Names, plans[n].kind = "plan", IsCurrent(plans[n]),
                      plans[n].request.op = "import-mesh" => plans[n].request.mesh = mesh
               PROVE  \E p \in Confirmed(plans[n]) :
                         Content(Read(deck), p.proposed) = Content(Read(deck), plans[n].proposed)
    BY DEF CurrentIsConfirmed
  <2> DEFINE plan == plans[n]
             a == plan.asked
             r == plan.request
  <2>1. Derived(plan) /\ IsDeck(deck) BY SessionIsWell DEF PlansInv, PlansDerived, DeckIsKnown
  <2>2. plan.base = Content(Read(deck), deck) /\ plan.kind = "plan"
        /\ (r.op = "import-mesh" => r.mesh = mesh)
    BY DEF IsCurrent
  <2> HIDE DEF plan
  <2>01. PICK f \in SessionDecks : \E x : DerivedFrom(plan, f, x) BY <2>1 DEF Derived
  <2>3. PICK x : IsDeck(f) /\ Replays(x, a) /\ plan \in PlansOn(Base(f), f, a, x)
    BY <2>01, SessionIsWell DEF DerivedFrom
  <2>4. /\ r = Selector(Base(f), x) /\ plan.base = Base(f).files
        /\ plan.patches \in Patches(Base(f), x)
        /\ plan.proposed \in Proposals(f, Base(f), plan.patches)
    BY <2>3, PlanFields
  <2>5. Base(f) = Base(deck)
    <3>1. Base(f).files = Base(deck).files BY <2>2, <2>4, BaseFields
    <3> QED BY <2>1, <2>3, <3>1, SameBase
  <2> DEFINE z == Replay(r)
             m == MeshFor(r)
  <2>6. plan.patches \in Patches(Base(deck), Planned(z, m))
    <3>1. Fielded(a) BY <2>1, SessionIsWell DEF Derived
    <3> HIDE DEF a, r
    <3>2. /\ Replays(z, a) /\ plan.patches \in Patches(Base(deck), z) /\ r.op = a.op
      BY <2>3, <2>4, <2>5, <3>1, SelectorReplays
    <3>3. Fielded(z) /\ z.op = a.op BY <3>1, <3>2, ReplayKeeps
    <3>4. z.op = "import-mesh" => z.mesh = m BY <3>2, <3>3 DEF Replay, Appends, MeshFor
    <3> QED BY <3>2, <3>3, <3>4, PlannedPatches DEF Fielded
  <2>9. PICK again \in Proposals(deck, Base(deck), plan.patches) :
          Content(Read(deck), again) = Content(Read(deck), plan.proposed)
    BY <2>1, <2>3, <2>4, <2>5, ProposalAgain
  <2> HIDE DEF r, a, z, m
  <2>10. PICK p \in PlansOn(Base(deck), deck, z, Planned(z, m)) : p.patches = plan.patches /\ p.proposed = again
    BY <2>6, <2>9, PlanExists
  <2>11. p \in MakePlan(deck, m, z) BY <2>10, MakesPlansOn
  <2>12. p \in Rederived(plan) BY <2>2, <2>10, <2>11 DEF Rederived, r, z, m
  <2>13. IsCurrent(plan) BY <2>2 DEF IsCurrent
  <2>14. p \in Confirmed(plan) BY <2>2, <2>12, <2>13 DEF Confirmed
  <2> QED BY <2>9, <2>10, <2>14 DEF plan
<1> QED BY <1>1, PlansAreDerived, PTL

\* However often a plan was refreshed, for whatever revisions, it makes on its
\* base the change that was asked at first, of the record that it names
\* (plan_refresh_change replays the selector that the stale plan kept).
THEOREM RefreshesAreAsAsked == Spec => []RefreshAsAsked
<1>1. PlansInv => RefreshAsAsked
  <2> SUFFICES ASSUME PlansInv, NEW n \in Names, plans[n].kind = "plan"
               PROVE  \E p \in MakePlan(plans[n].base, MeshFor(plans[n].request),
                                        Pinned(plans[n].asked, plans[n].request)) :
                         p.patches = plans[n].patches
    BY DEF RefreshAsAsked
  <2> DEFINE plan == plans[n]
             a == plan.asked
             r == plan.request
             pinned == Pinned(a, r)
             z == Planned(pinned, MeshFor(r))
  <2>1. Derived(plan) BY DEF PlansInv, PlansDerived
  <2> HIDE DEF plan
  <2>2. PICK f \in SessionDecks : \E x : DerivedFrom(plan, f, x) BY <2>1 DEF Derived
  <2>3. PICK x : IsDeck(f) /\ Replays(x, a) /\ plan \in PlansOn(Base(f), f, a, x)
    BY <2>2, SessionIsWell DEF DerivedFrom
  <2>4. /\ r = Selector(Base(f), x) /\ plan.base = Base(f).files
        /\ plan.patches \in Patches(Base(f), x)
        /\ plan.proposed \in Proposals(f, Base(f), plan.patches)
    BY <2>3, PlanFields
  <2>5. Fielded(a) BY <2>1, SessionIsWell DEF Derived
  <2>6. plan.patches \in Patches(Base(f), z)
    <3> HIDE DEF a, r
    <3> QED BY <2>3, <2>4, <2>5, PinnedPatches DEF pinned
  <2>7. IsDeck(plan.base) /\ Base(plan.base) = Base(f) BY <2>3, <2>4, BaseOfBase
  <2>8. PICK again \in Proposals(plan.base, Base(f), plan.patches) : TRUE
    BY <2>3, <2>4, <2>7, ProposalAgain
  <2> HIDE DEF a, r, z, pinned
  <2>9. \E p \in PlansOn(Base(f), plan.base, pinned, z) : p.patches = plan.patches
    BY <2>6, <2>8, PlanExists
  <2>10. MakePlan(plan.base, MeshFor(r), pinned) = PlansOn(Base(f), plan.base, pinned, z)
    BY <2>7, MakesPlansOn DEF z
  <2> QED BY <2>9, <2>10 DEF plan, r, a, pinned
<1> QED BY <1>1, PlansAreDerived, PTL
-----------------------------------------------------------------------------
(* What is written *)

\* What _typed_plan makes of some patches on a deck.
ProposedOn(f, patches) == Proposals(f, [set |-> Read(f), files |-> Content(Read(f), f)], patches)

\* The written deck is the source set of a proposal of the patches of its plan,
\* on the deck of the moment of the application; a generated deck has no errors.
AppliedSound ==
    output.kind = "applied" =>
        /\ output.deck \in SessionDecks
        /\ output.plan.proposed \in ProposedOn(output.deck, output.plan.patches)
        /\ output.text = Content(Read(output.deck), output.plan.proposed)
GeneratedSound == output.kind = "generated" => Validation(Read(output.text), output.text) = <<>>
OutputKinds == output = Nothing \/ output.kind \in {"applied", "generated"}
OutputInv == OutputKinds /\ AppliedSound /\ GeneratedSound

LEMMA ProposalsAreOn ==
    ASSUME NEW f, NEW b, b.set = Read(f), b.files = Content(Read(f), f), NEW patches
    PROVE  Proposals(f, b, patches) = ProposedOn(f, patches)
BY DEF Proposals, ProposedOn

LEMMA JoinedPatches ==
    ASSUME NEW p, NEW q, NEW plan \in Joined(p, q)
    PROVE  /\ plan.patches = p.patches \o q.patches
           /\ p.base = Content(Read(deck), deck)
<1> DEFINE from == Proposals(deck, [set |-> Read(deck), files |-> p.base], p.patches \o q.patches)
           both == p.patches \o q.patches
<1>1. /\ IsCurrent(p)
      /\ plan \in {[kind |-> "joint", asked |-> <<p.asked, q.asked>>, request |-> Nothing,
                    parts |-> <<p, q>>, base |-> p.base, patches |-> both,
                    proposed |-> proposed] : proposed \in from}
  BY DEF Joined
<1> HIDE DEF from
<1>2. PICK proposed \in from :
        plan = [kind |-> "joint", asked |-> <<p.asked, q.asked>>, request |-> Nothing,
                parts |-> <<p, q>>, base |-> p.base, patches |-> both,
                proposed |-> proposed]
  BY <1>1
<1> HIDE DEF both
<1>3. plan.patches = both BY <1>2
<1> QED BY <1>1, <1>3 DEF IsCurrent, both

\* A confirmed plan is a proposal of its patches on the deck as it is.
LEMMA ConfirmedIsProposed ==
    ASSUME NEW plan, NEW p \in Confirmed(plan)
    PROVE  p.proposed \in ProposedOn(deck, p.patches)
<1>1. IsCurrent(plan)
      /\ IF plan.kind = "joint" THEN p \in Joined(plan.parts[1], plan.parts[2]) ELSE p \in Rederived(plan)
  BY DEF Confirmed
<1>2. CASE plan.kind = "joint"
  <2> DEFINE a == plan.parts[1]
             c == plan.parts[2]
  <2>1. p \in Joined(a, c) BY <1>1, <1>2
  <2> HIDE DEF a, c
  <2>2. p.proposed \in Proposals(deck, [set |-> Read(deck), files |-> a.base], a.patches \o c.patches)
    BY <2>1, JoinedFields
  <2>3. p.patches = a.patches \o c.patches /\ a.base = Content(Read(deck), deck)
    BY <2>1, JoinedPatches
  <2> QED BY <2>2, <2>3 DEF ProposedOn
<1>3. CASE plan.kind # "joint"
  <2>1. p \in MakePlan(deck, MeshFor(plan.request), Replay(plan.request)) BY <1>1, <1>3 DEF Rederived
  <2>2. p.proposed \in Proposals(deck, Base(deck), p.patches) BY <2>1, MakesPlansOn, PlanFields
  <2> QED BY <2>2, BaseFields, ProposalsAreOn
<1> QED BY <1>2, <1>3

LEMMA ApplyKeeps ==
    ASSUME PlansInv, NEW name \in Names, Apply(name)
    PROVE  OutputInv'
<1>1. PICK p \in Confirmed(plans[name]) :
        output' = [kind |-> "applied", plan |-> p, deck |-> deck, text |-> Written(p)]
  BY DEF Apply
<1>2. /\ output'.kind = "applied" /\ output'.plan = p /\ output'.deck = deck
      /\ output'.text = Content(Read(deck), p.proposed)
  BY <1>1 DEF Written
<1>3. p.proposed \in ProposedOn(deck, p.patches) BY ConfirmedIsProposed
<1>4. AppliedSound' BY <1>2, <1>3 DEF AppliedSound, PlansInv, DeckIsKnown
<1>5. GeneratedSound' /\ OutputKinds' BY <1>2 DEF GeneratedSound, OutputKinds
<1> QED BY <1>4, <1>5 DEF OutputInv

LEMMA GenerateKeeps ==
    ASSUME NEW intent, Generate(intent)
    PROVE  OutputInv'
<1>1. PICK read \in ImportEle(mesh) : \E text \in Generated(read, intent) :
        output' = [kind |-> "generated", mesh |-> read, intent |-> intent, text |-> text]
  BY DEF Generate
<1>2. PICK text \in Generated(read, intent) :
        output' = [kind |-> "generated", mesh |-> read, intent |-> intent, text |-> text]
  BY <1>1
<1>3. output'.kind = "generated" /\ output'.text = text BY <1>2
<1>4. Validation(Read(text), text) = <<>> BY DEF Generated
<1> QED BY <1>3, <1>4 DEF OutputInv, OutputKinds, AppliedSound, GeneratedSound

LEMMA NextKeepsOutput == PlansInv /\ OutputInv /\ [Next]_vars => OutputInv'
<1> SUFFICES ASSUME PlansInv, OutputInv, [Next]_vars PROVE OutputInv' OBVIOUS
<1>1. ASSUME UNCHANGED output PROVE OutputInv'
  BY <1>1 DEF OutputInv, OutputKinds, AppliedSound, GeneratedSound
<1>2. ASSUME NEW name, NEW r, Ask(name, r) PROVE OutputInv' BY <1>1, <1>2 DEF Ask
<1>3. ASSUME NEW name, Refresh(name) PROVE OutputInv' BY <1>1, <1>3 DEF Refresh
<1>4. CASE Compose BY <1>1, <1>4 DEF Compose
<1>5. CASE Save BY <1>1, <1>5 DEF Save
<1>6. CASE UNCHANGED vars BY <1>1, <1>6 DEF vars
<1>7. ASSUME NEW name \in Names, Apply(name) PROVE OutputInv' BY <1>7, ApplyKeeps
<1>8. ASSUME NEW intent \in Intents, Generate(intent) PROVE OutputInv' BY <1>8, GenerateKeeps
<1>9. CASE Next BY <1>2, <1>3, <1>4, <1>5, <1>7, <1>8, <1>9 DEF Next
<1> QED BY <1>6, <1>9

\* What is written is a proposal on the deck of that moment.
THEOREM OutputsAreProposed == Spec => []OutputInv
<1>1. Init => OutputInv
  BY DEF Init, Nothing, OutputInv, OutputKinds, AppliedSound, GeneratedSound
<1>2. PlansInv /\ OutputInv /\ [Next]_vars => OutputInv' BY NextKeepsOutput
<1> QED BY <1>1, <1>2, PlansAreDerived, PTL DEF Spec

\* The files of a proposal: the deck's own, but for the patched ones.
LEMMA ProposedFiles ==
    ASSUME NEW f, IsDeck(f), NEW patches, NEW text \in ProposedOn(f, patches), NEW p \in DOMAIN f
    PROVE  IF \A k \in DOMAIN patches : patches[k].file # p THEN text[p] = f[p]
           ELSE text[p] \in PatchedMany(f[p], PatchesFor(patches, p))
<1> DEFINE D == Documents(Read(f))
           files == Content(Read(f), f)
           touched == {patches[k].file : k \in DOMAIN patches}
           many == [x \in touched |-> PatchedMany(files[x], PatchesFor(patches, x))]
<1>1. DOMAIN files = D /\ (\A x \in D : files[x] = f[x]) BY ContentOf
<1>2. PICK out \in PatchedFiles(files, patches) : text = Replaced(f, out)
  BY DEF ProposedOn, Proposals
<1>3. /\ touched \subseteq DOMAIN files /\ \A x \in touched : many[x] # {}
      /\ out = [x \in DOMAIN files |-> IF x \in touched THEN CHOOSE r \in many[x] : TRUE ELSE files[x]]
  BY <1>2 DEF PatchedFiles
<1>4. D \subseteq DOMAIN f BY DeckHoldsSet
<1>5. text[p] = IF p \in D THEN out[p] ELSE f[p] BY <1>1, <1>2, <1>3 DEF Replaced
<1> HIDE DEF files, D
<1>6. CASE \A k \in DOMAIN patches : patches[k].file # p
  <2>1. p \notin touched BY <1>6
  <2>2. p \in D => out[p] = f[p] BY <1>1, <1>3, <2>1
  <2> QED BY <1>5, <1>6, <2>2
<1>7. CASE \E k \in DOMAIN patches : patches[k].file = p
  <2>1. p \in touched BY <1>7
  <2>2. p \in D /\ files[p] = f[p] BY <1>1, <1>3, <2>1
  <2>3. out[p] \in many[p]
    <3> HIDE DEF touched, many
    <3> QED BY <1>1, <1>3, <2>1, <2>2
  <2>4. many[p] = PatchedMany(f[p], PatchesFor(patches, p)) BY <2>1, <2>2
  <2> QED BY <1>5, <1>7, <2>2, <2>3, <2>4
<1> QED BY <1>6, <1>7

\* What apply_plan writes is the source set of that moment with the patches of
\* the plan in the files they are for, and every other file as it was.
THEOREM AppliesToDeck == Spec => []AppliedToDeck
<1>1. OutputInv => AppliedToDeck
  <2> SUFFICES ASSUME OutputInv, output.kind = "applied" PROVE AppliedToDeck BY DEF AppliedToDeck
  <2> DEFINE D == Documents(Read(output.deck))
             proposed == output.plan.proposed
  <2>1. IsDeck(output.deck) /\ proposed \in ProposedOn(output.deck, output.plan.patches)
    BY SessionIsWell DEF OutputInv, AppliedSound
  <2>2. output.text = Content(Read(output.deck), proposed) BY DEF OutputInv, AppliedSound
  <2>3. DOMAIN output.text = D /\ \A f \in D : output.text[f] = proposed[f] BY <2>2, ContentOf
  <2>4. D \subseteq DOMAIN output.deck BY <2>1, DeckHoldsSet
  <2> DEFINE patches == output.plan.patches
  <2>5. ASSUME NEW f \in D
        PROVE  IF \A k \in DOMAIN patches : patches[k].file # f THEN proposed[f] = output.deck[f]
               ELSE proposed[f] \in PatchedMany(output.deck[f], PatchesFor(patches, f))
    <3>1. f \in DOMAIN output.deck BY <2>4
    <3> HIDE DEF patches, proposed, D
    <3>2. IsDeck(output.deck) /\ proposed \in ProposedOn(output.deck, patches) BY <2>1 DEF patches
    <3> QED BY <3>1, <3>2, ProposedFiles
  <2> HIDE DEF proposed, D
  <2> QED BY <2>3, <2>5 DEF AppliedToDeck, D
<1> QED BY <1>1, OutputsAreProposed, PTL

\* What is written has no errors when it is read again, if its includes are
\* those of the deck it was made of: apply_plan compares the files that the
\* copy reads, not the references by which it reads them.
WithSameIncludes == output.kind = "applied" => Read(output.text) = Read(output.deck)
THEOREM WrittenWasValidated == Spec => [](WithSameIncludes => OutputSound)
<1>1. OutputInv => (WithSameIncludes => OutputSound)
  <2> SUFFICES ASSUME OutputInv, WithSameIncludes, output # Nothing
               PROVE  Validation(Read(output.text), output.text) = <<>>
    BY DEF OutputSound
  <2>1. CASE output.kind = "applied"
    <3> DEFINE set == Read(output.deck)
               proposed == output.plan.proposed
    <3>1. /\ proposed \in ProposedOn(output.deck, output.plan.patches) /\ IsDeck(output.deck)
          /\ output.text = Content(set, proposed)
      BY <2>1, SessionIsWell DEF OutputInv, AppliedSound
    <3>2. Validation(set, proposed) = <<>> BY <3>1 DEF ProposedOn, Proposals
    <3>3. Root \in Documents(set) BY <3>1, DeckHoldsSet
    <3>4. \A p \in Documents(set) : output.text[p] = proposed[p] BY <3>1, ContentOf
    <3>5. Read(output.text) = set BY <2>1 DEF WithSameIncludes
    <3> HIDE DEF set, proposed
    <3>6. Validation(set, output.text) = Validation(set, proposed) BY <3>3, <3>4, SourcesDepend
    <3> QED BY <3>2, <3>5, <3>6
  <2>2. CASE output.kind = "generated" BY <2>2 DEF OutputInv, GeneratedSound
  <2> QED BY <2>1, <2>2 DEF OutputInv, OutputKinds
<1> QED BY <1>1, OutputsAreProposed, PTL
=============================================================================
