-------------------------- MODULE SourceSetsProofs --------------------------
(***************************************************************************)
(* What the reading of a source set finds, for any number of files with    *)
(* any text that include one another in any way.                           *)
(***************************************************************************)
EXTENDS SourceSets, DocumentsProofs, FiniteSetTheorems

-----------------------------------------------------------------------------
(* The reading as a sequence of steps *)

StepsOf(files) == Cardinality(IncludePlaces(files))

LEMMA IncludesAreFinite ==
    ASSUME NEW files, IsFiniteSet(DOMAIN files)
    PROVE  /\ \A f \in DOMAIN files : Len(IncludeLines(files, f)) \in Nat
           /\ IsFiniteSet(IncludePlaces(files)) /\ StepsOf(files) \in Nat
<1>1. ASSUME NEW f PROVE Len(IncludeLines(files, f)) \in Nat BY DEF IncludeLines
<1> DEFINE Of(f) == {f} \X (1 .. Len(IncludeLines(files, f)))
           All == {Of(f) : f \in DOMAIN files}
<1>2. ASSUME NEW f PROVE IsFiniteSet(Of(f))
  <2>1. IsFiniteSet({f}) BY FS_Singleton
  <2>2. IsFiniteSet(1 .. Len(IncludeLines(files, f))) BY <1>1, FS_Interval
  <2> QED BY <2>1, <2>2, FS_Product
<1>3. IsFiniteSet(All)
  <2> DEFINE g == [f \in DOMAIN files |-> Of(f)]
  <2>1. g \in Surjection(DOMAIN files, All)
    <3> HIDE DEF Of
    <3> QED BY DEF Surjection
  <2> QED BY <2>1, FS_Surjection
<1>4. \A S \in All : IsFiniteSet(S) BY <1>2
<1>5. IncludePlaces(files) = UNION All BY DEF IncludePlaces
<1>6. IsFiniteSet(IncludePlaces(files)) BY <1>3, <1>4, <1>5, FS_UNION
<1> QED BY <1>1, <1>6, FS_CardinalityType DEF StepsOf

(* Reading is what a sequence of steps ends in.                              *)
LEMMA ReadingUnfolds ==
    ASSUME NEW files, StepsOf(files) \in Nat
    PROVE  \E r : /\ r[0] = Opening(files)
                  /\ \A n \in 1 .. StepsOf(files) : r[n] = Meet(files, r[n - 1])
                  /\ Reading(files) = r[StepsOf(files)]
<1> DEFINE Run(n) == \E r : r = [i \in 0 .. n |-> IF i = 0 THEN Opening(files) ELSE Meet(files, r[i - 1])]
           S == {n \in Nat : Run(n)}
<1>1. 0 \in S
  <2> DEFINE r == [i \in 0 .. 0 |-> Opening(files)]
  <2>1. r = [i \in 0 .. 0 |-> IF i = 0 THEN Opening(files) ELSE Meet(files, r[i - 1])] OBVIOUS
  <2> QED BY <2>1
<1>2. ASSUME NEW m \in Nat, m \in S PROVE m + 1 \in S
  <2>1. PICK r : r = [i \in 0 .. m |-> IF i = 0 THEN Opening(files) ELSE Meet(files, r[i - 1])]
    BY <1>2
  <2> DEFINE g == [i \in 0 .. m + 1 |-> IF i = m + 1 THEN Meet(files, r[m]) ELSE r[i]]
             h == [i \in 0 .. m + 1 |-> IF i = 0 THEN Opening(files) ELSE Meet(files, g[i - 1])]
  <2>2. ASSUME NEW i \in 0 .. m + 1 PROVE g[i] = h[i]
    <3>1. CASE i = 0 BY <2>1, <3>1
    <3>2. CASE i = m + 1
      <4>1. (m + 1) - 1 = m /\ m \in 0 .. m + 1 /\ m # m + 1 /\ i # 0 BY <3>2
      <4>2. g[m] = r[m] BY <4>1
      <4> QED BY <3>2, <4>1, <4>2
    <3>3. CASE i # 0 /\ i # m + 1
      <4>1. i \in 0 .. m /\ i - 1 \in 0 .. m + 1 /\ i - 1 # m + 1 BY <3>3
      <4>2. g[i] = r[i] /\ g[i - 1] = r[i - 1] BY <3>3, <4>1
      <4>3. r[i] = Meet(files, r[i - 1]) BY <2>1, <3>3, <4>1
      <4> QED BY <3>3, <4>2, <4>3
    <3> QED BY <3>1, <3>2, <3>3
  <2>3. g = h BY <2>2
  <2>4. g = [i \in 0 .. m + 1 |-> IF i = 0 THEN Opening(files) ELSE Meet(files, g[i - 1])] BY <2>3
  <2> HIDE DEF g
  <2>5. Run(m + 1) BY <2>4
  <2> HIDE DEF Run
  <2> QED BY <2>5
<1> DEFINE N == StepsOf(files)
<1>3. Run(N)
  <2> HIDE DEF Run
  <2>1. \A n \in Nat : n \in S BY <1>1, <1>2, SetInduction
  <2> QED BY <2>1
<1> DEFINE Only(x) == CHOOSE next \in {Meet(files, y) : y \in {x}} : TRUE
           r == CHOOSE r : r = [i \in 0 .. N |-> IF i = 0 THEN Opening(files) ELSE Only(r[i - 1])]
<1>4. ASSUME NEW x PROVE Only(x) = Meet(files, x)
  <2>1. {Meet(files, y) : y \in {x}} = {Meet(files, x)} OBVIOUS
  <2>2. Meet(files, x) \in {Meet(files, y) : y \in {x}} BY <2>1
  <2>3. Only(x) \in {Meet(files, y) : y \in {x}} BY <2>2
  <2> QED BY <2>1, <2>3
<1>5. Reading(files) = r[N] BY DEF Reading, Over, StepsOf
<1>6. r = [i \in 0 .. N |-> IF i = 0 THEN Opening(files) ELSE Meet(files, r[i - 1])]
  <2> HIDE DEF Only
  <2>1. PICK g : g = [i \in 0 .. N |-> IF i = 0 THEN Opening(files) ELSE Meet(files, g[i - 1])] BY <1>3
  <2>2. g = [i \in 0 .. N |-> IF i = 0 THEN Opening(files) ELSE Only(g[i - 1])] BY <2>1, <1>4
  <2>3. r = [i \in 0 .. N |-> IF i = 0 THEN Opening(files) ELSE Only(r[i - 1])] BY <2>2
  <2> QED BY <2>3, <1>4
<1> HIDE DEF r
<1>7. r[0] = Opening(files) /\ \A n \in 1 .. N : r[n] = Meet(files, r[n - 1]) BY <1>6
<1> QED BY <1>5, <1>7

-----------------------------------------------------------------------------
(* The include graph *)

LEMMA IncludesAreFiles ==
    ASSUME NEW files, NEW f
    PROVE  /\ Includes(files, f) \subseteq Resolvable(files)
           /\ Resolvable(files) \subseteq DOMAIN files
BY DEF Includes, Resolvable

(* Reachable is the least set with the given files that includes lead out of *)
(* nowhere.                                                                  *)
LEMMA ReachableCloses ==
    ASSUME NEW files, NEW from \in SUBSET DOMAIN files
    PROVE  /\ Reachable(files, from) \subseteq DOMAIN files
           /\ from \subseteq Reachable(files, from)
           /\ \A f \in Reachable(files, from) : Includes(files, f) \subseteq Reachable(files, from)
<1> DEFINE next == [f \in DOMAIN files |-> Includes(files, f)]
<1>1. \A f \in DOMAIN files : next[f] = Includes(files, f) /\ next[f] \subseteq DOMAIN files
  BY IncludesAreFiles
<1>2. Reachable(files, from) = ReachedBy(files, next, from) BY DEF Reachable
<1> HIDE DEF next
<1>3. ReachedBy(files, next, from) \subseteq DOMAIN files BY DEF ReachedBy
<1>4. from \subseteq ReachedBy(files, next, from) BY DEF ReachedBy
<1>5. ASSUME NEW f \in ReachedBy(files, next, from) PROVE next[f] \subseteq ReachedBy(files, next, from)
  <2> SUFFICES ASSUME NEW g \in next[f], NEW S \in Closed(files, next), from \subseteq S PROVE g \in S
    BY <1>1, <1>3 DEF ReachedBy
  <2>1. f \in S BY DEF ReachedBy
  <2> QED BY <2>1 DEF Closed
<1> QED BY <1>1, <1>2, <1>3, <1>4, <1>5

LEMMA ReachableIsLeast ==
    ASSUME NEW files, NEW from, NEW S \in SUBSET DOMAIN files, from \subseteq S,
           \A f \in S : Includes(files, f) \subseteq S
    PROVE  Reachable(files, from) \subseteq S
<1> DEFINE next == [f \in DOMAIN files |-> Includes(files, f)]
<1>1. \A f \in S : next[f] \subseteq S OBVIOUS
<1>2. Reachable(files, from) = ReachedBy(files, next, from) BY DEF Reachable
<1> HIDE DEF next
<1>3. S \in Closed(files, next) BY <1>1 DEF Closed
<1> QED BY <1>2, <1>3 DEF ReachedBy

(* Along a chain of includes every later file is reached from every earlier. *)
Chain(files, path) == \A i \in 1 .. Len(path) - 1 : path[i + 1] \in Includes(files, path[i])

LEMMA ChainReaches ==
    ASSUME NEW files, NEW path \in Seq(DOMAIN files), Chain(files, path)
    PROVE  \A i, j \in 1 .. Len(path) : i < j => path[j] \in Reachable(files, Includes(files, path[i]))
<1> SUFFICES ASSUME NEW i \in 1 .. Len(path)
             PROVE  \A j \in 1 .. Len(path) : i < j => path[j] \in Reachable(files, Includes(files, path[i]))
  OBVIOUS
<1> DEFINE R == Reachable(files, Includes(files, path[i]))
           S == {d \in Nat : i + d + 1 <= Len(path) => path[i + d + 1] \in R}
<1>1. /\ Includes(files, path[i]) \subseteq R
      /\ \A f \in R : Includes(files, f) \subseteq R
  BY IncludesAreFiles, ReachableCloses
<1>2. Len(path) \in Nat /\ i \in Nat OBVIOUS
<1> HIDE DEF R
<1>3. 0 \in S
  <2> SUFFICES ASSUME i + 0 + 1 <= Len(path) PROVE path[i + 0 + 1] \in R OBVIOUS
  <2>1. i \in 1 .. Len(path) - 1 /\ i + 0 + 1 = i + 1 BY <1>2
  <2> QED BY <1>1, <2>1 DEF Chain
<1>4. ASSUME NEW d \in Nat, d \in S PROVE d + 1 \in S
  <2> SUFFICES ASSUME i + (d + 1) + 1 <= Len(path) PROVE path[i + (d + 1) + 1] \in R OBVIOUS
  <2>1. i + d + 1 \in 1 .. Len(path) - 1 /\ i + (d + 1) + 1 = (i + d + 1) + 1 /\ i + d + 1 <= Len(path)
    BY <1>2
  <2>2. path[i + d + 1] \in R BY <1>4, <2>1
  <2> QED BY <1>1, <2>1, <2>2 DEF Chain
<1>5. \A d \in Nat : d \in S
  <2> HIDE DEF S
  <2> QED BY <1>3, <1>4, SetInduction
<1>6. ASSUME NEW j \in 1 .. Len(path), i < j PROVE path[j] \in R
  <2>1. j - i - 1 \in Nat /\ i + (j - i - 1) + 1 = j /\ j <= Len(path) BY <1>2, <1>6
  <2> QED BY <1>5, <2>1
<1> QED BY <1>6 DEF R

-----------------------------------------------------------------------------
(* The lines that are to be met *)

ItemsOfFile(files, p, a) == {ToMeet(files, p, a)[k] : k \in 1 .. Len(IncludeLines(files, p))}
Item(files) ==
    UNION {UNION {ItemsOfFile(files, p, a) : a \in Seq(DOMAIN files)} : p \in DOMAIN files}
Codes == {"E200", "E201", "E202", "E203", "E204"}
Told(files) == {[code |-> c, file |-> i.source, line |-> i.line] : c \in Codes, i \in Item(files)}
Cyclic(r) == \E k \in DOMAIN r.errors : r.errors[k].code = "E204"

LEMMA ItemFacts ==
    ASSUME NEW files, NEW i \in Item(files)
    PROVE  /\ i.source \in DOMAIN files /\ i.ancestry \in Seq(DOMAIN files)
           /\ i.target \in Resolvable(files) => i.target \in Includes(files, i.source)
<1>0. PICK p \in DOMAIN files, a \in Seq(DOMAIN files) : i \in ItemsOfFile(files, p, a)
  BY DEF Item
<1>1. PICK k \in 1 .. Len(IncludeLines(files, p)) : i = ToMeet(files, p, a)[k]
  BY <1>0 DEF ItemsOfFile
<1> DEFINE lines == IncludeLines(files, p)
<1>2. i = [source |-> p, line |-> lines[k].number, target |-> Spelling(lines[k]), ancestry |-> a]
  BY <1>1 DEF ToMeet
<1>3. i.source = p /\ i.ancestry = a /\ i.target = Spelling(lines[k]) BY <1>2
<1>4. i.target \in {Spelling(lines[n]) : n \in 1 .. Len(lines)} BY <1>1, <1>3
<1> QED BY <1>1, <1>3, <1>4 DEF Includes

(* Every file that a file includes is met in one of its lines.               *)
LEMMA ToMeetItems ==
    ASSUME NEW files, NEW p \in DOMAIN files, NEW a \in Seq(DOMAIN files)
    PROVE  /\ ToMeet(files, p, a) \in Seq(Item(files))
           /\ Len(ToMeet(files, p, a)) = Len(IncludeLines(files, p))
           /\ \A k \in 1 .. Len(ToMeet(files, p, a)) :
                 ToMeet(files, p, a)[k].source = p /\ ToMeet(files, p, a)[k].ancestry = a
           /\ \A y \in Includes(files, p) :
                 \E k \in 1 .. Len(ToMeet(files, p, a)) : ToMeet(files, p, a)[k].target = y
<1> DEFINE lines == IncludeLines(files, p)
           N == Len(lines)
           t == ToMeet(files, p, a)
<1>1. N \in Nat BY DEF IncludeLines
<1>2. t = [k \in 1 .. N |-> [source |-> p, line |-> lines[k].number,
                             target |-> Spelling(lines[k]), ancestry |-> a]]
  BY DEF ToMeet
<1>3. \A k \in 1 .. N : /\ t[k].source = p /\ t[k].ancestry = a
                        /\ t[k].target = Spelling(lines[k])
  BY <1>2
<1>4. \A y \in Includes(files, p) : \E k \in 1 .. N : Spelling(lines[k]) = y BY DEF Includes
<1>5. ASSUME NEW k \in 1 .. N PROVE t[k] \in Item(files)
  <2>1. t[k] \in ItemsOfFile(files, p, a) BY DEF ItemsOfFile
  <2> QED BY <2>1 DEF Item
<1>6. DOMAIN t = 1 .. N BY <1>2
<1>7. t = [k \in 1 .. N |-> t[k]] BY <1>2
<1> HIDE DEF t, N
<1>8. Len(t) = N /\ t \in Seq(Item(files)) BY <1>1, <1>5, <1>6, <1>7
<1> QED BY <1>3, <1>4, <1>8 DEF t, N

(* The outcome of a line that can be resolved.                               *)
LEMMA StatusCases ==
    ASSUME NEW files, NEW loaded, NEW ancestry, NEW spelling
    PROVE  LET s == Status(files, loaded, ancestry, spelling)
               open == \E k \in DOMAIN ancestry : ancestry[k] = spelling
               read == \E k \in DOMAIN loaded : loaded[k] = spelling
           IN  /\ spelling \notin Resolvable(files) =>
                     s \in {"missing-file-option", "unsupported-path", "outside-workspace", "missing"}
               /\ spelling \in Resolvable(files) =>
                     /\ open => s = "cycle"
                     /\ ~open /\ read => s = "already-loaded"
                     /\ ~open /\ ~read => s = "resolved"
<1> DEFINE open == \E k \in DOMAIN ancestry : ancestry[k] = spelling
           read == \E k \in DOMAIN loaded : loaded[k] = spelling
<1>1. Status(files, loaded, ancestry, spelling) =
        IF spelling = "" THEN "missing-file-option"
        ELSE IF spelling \in AbsoluteNames THEN "unsupported-path"
        ELSE IF spelling \in OutsideNames THEN "outside-workspace"
        ELSE IF spelling \notin DOMAIN files THEN "missing"
        ELSE IF open THEN "cycle" ELSE IF read THEN "already-loaded" ELSE "resolved"
  BY DEF Status
<1> HIDE DEF open, read
<1>2. spelling \in Resolvable(files) <=> /\ spelling # "" /\ spelling \notin AbsoluteNames
                                         /\ spelling \notin OutsideNames /\ spelling \in DOMAIN files
  BY DEF Resolvable
<1> QED BY <1>1, <1>2 DEF open, read

LEMMA GraphCodes ==
    /\ DOMAIN GraphCode = {"missing-file-option", "unsupported-path", "outside-workspace", "missing", "cycle"}
    /\ \A s \in DOMAIN GraphCode : GraphCode[s] \in Codes /\ (GraphCode[s] = "E204" <=> s = "cycle")
BY DEF GraphCode, Codes

(* What one step does, by the file that its line names.                      *)
Typed(files, r) ==
    /\ r.documents \in Seq(DOMAIN files) /\ r.todo \in Seq(Item(files))
    /\ r.errors \in Seq(Told(files))

LEMMA MeetCases ==
    ASSUME NEW files, NEW r, Typed(files, r), r.todo # <<>>
    PROVE  LET h == Head(r.todo)
               m == Meet(files, r)
               open == \E k \in 1 .. Len(h.ancestry) : h.ancestry[k] = h.target
               read == \E k \in 1 .. Len(r.documents) : r.documents[k] = h.target
               resolves == h.target \in Resolvable(files)
           IN  /\ Typed(files, m)
               /\ resolves /\ ~open /\ ~read =>
                     /\ m.documents = Append(r.documents, h.target)
                     /\ m.todo = ToMeet(files, h.target, Append(h.ancestry, h.target)) \o Tail(r.todo)
               /\ ~(resolves /\ ~open /\ ~read) =>
                     m.documents = r.documents /\ m.todo = Tail(r.todo)
               /\ Cyclic(m) <=> Cyclic(r) \/ (resolves /\ open)
<1> DEFINE h == Head(r.todo)
           rest == Tail(r.todo)
           m == Meet(files, r)
           s == Status(files, r.documents, h.ancestry, h.target)
           open == \E k \in 1 .. Len(h.ancestry) : h.ancestry[k] = h.target
           read == \E k \in 1 .. Len(r.documents) : r.documents[k] = h.target
           resolves == h.target \in Resolvable(files)
           e == [code |-> GraphCode[s], file |-> h.source, line |-> h.line]
<1>1. h \in Item(files) /\ rest \in Seq(Item(files)) BY DEF Typed
<1>2. h.ancestry \in Seq(DOMAIN files) BY <1>1, ItemFacts
<1>3. DOMAIN h.ancestry = 1 .. Len(h.ancestry) /\ DOMAIN r.documents = 1 .. Len(r.documents)
  BY <1>2 DEF Typed
<1>4. /\ ~resolves => s \in DOMAIN GraphCode /\ s # "cycle" /\ s # "resolved"
      /\ resolves /\ open => s = "cycle"
      /\ resolves /\ ~open /\ read => s = "already-loaded"
      /\ resolves /\ ~open /\ ~read => s = "resolved"
  <2> HIDE DEF s, h
  <2> QED BY <1>3, StatusCases, GraphCodes DEF s
<1>5. m = Noted(files, r, h, rest, s)
  BY DEF Meet, MeetItem
<1> HIDE DEF s, h, rest, m
<1>6. m.documents = IF s = "resolved" THEN Append(r.documents, h.target) ELSE r.documents
  BY <1>5 DEF Noted
<1>7. m.errors = IF s \in DOMAIN GraphCode THEN Append(r.errors, e) ELSE r.errors
  BY <1>5 DEF Noted
<1>8. m.todo = IF s = "resolved" THEN ToMeet(files, h.target, Append(h.ancestry, h.target)) \o rest
               ELSE <<>> \o rest
  BY <1>5 DEF Noted, Opened
<1>9. <<>> \o rest = rest BY <1>1
<1>10. s = "resolved" <=> (resolves /\ ~open /\ ~read)
  <2> HIDE DEF open, read, resolves
  <2> QED BY <1>4
<1>11. s = "cycle" <=> (resolves /\ open)
  <2> HIDE DEF open, read, resolves
  <2> QED BY <1>4
<1>12. Cyclic(m) <=> Cyclic(r) \/ s = "cycle"
  <2>1. CASE s \in DOMAIN GraphCode
    <3>1. m.errors = Append(r.errors, e) /\ r.errors \in Seq(Told(files)) BY <1>7, <2>1 DEF Typed
    <3>2. e.code = "E204" <=> s = "cycle" BY <2>1, GraphCodes
    <3> HIDE DEF e
    <3>3. Len(m.errors) = Len(r.errors) + 1 /\ m.errors[Len(r.errors) + 1] = e
          /\ (\A k \in 1 .. Len(r.errors) : m.errors[k] = r.errors[k])
          /\ DOMAIN m.errors = 1 .. Len(r.errors) + 1 /\ DOMAIN r.errors = 1 .. Len(r.errors)
          /\ Len(r.errors) \in Nat
      BY <3>1
    <3>4. \A k \in DOMAIN m.errors : k \in DOMAIN r.errors \/ k = Len(r.errors) + 1 BY <3>3
    <3> QED BY <3>2, <3>3, <3>4 DEF Cyclic
  <2>2. CASE s \notin DOMAIN GraphCode BY <1>7, <2>2, GraphCodes DEF Cyclic
  <2> QED BY <2>1, <2>2
<1>13. Typed(files, m)
  <2>1. m.documents \in Seq(DOMAIN files)
    <3>1. s = "resolved" => h.target \in DOMAIN files BY <1>10, IncludesAreFiles
    <3>2. r.documents \in Seq(DOMAIN files) BY DEF Typed
    <3>3. CASE s = "resolved"
      <4>1. m.documents = Append(r.documents, h.target) BY <1>6, <3>3
      <4> QED BY <3>1, <3>2, <3>3, <4>1
    <3>4. CASE s # "resolved" BY <1>6, <3>2, <3>4
    <3> QED BY <3>3, <3>4
  <2>2. m.todo \in Seq(Item(files))
    <3>1. CASE s = "resolved"
      <4>1. h.target \in DOMAIN files BY <1>10, <3>1, IncludesAreFiles
      <4>2. Append(h.ancestry, h.target) \in Seq(DOMAIN files) BY <1>2, <4>1
      <4> DEFINE t == ToMeet(files, h.target, Append(h.ancestry, h.target))
      <4>3. t \in Seq(Item(files)) BY <4>1, <4>2, ToMeetItems
      <4>4. m.todo = t \o rest BY <1>8, <3>1
      <4> HIDE DEF t
      <4> QED BY <1>1, <4>3, <4>4
    <3>2. CASE s # "resolved" BY <1>1, <1>8, <1>9, <3>2
    <3> QED BY <3>1, <3>2
  <2>3. m.errors \in Seq(Told(files))
    <3>1. ASSUME s \in DOMAIN GraphCode PROVE e \in Told(files)
      <4>1. GraphCode[s] \in Codes BY <3>1, GraphCodes
      <4> QED BY <1>1, <4>1 DEF Told
    <3>2. r.errors \in Seq(Told(files)) BY DEF Typed
    <3> HIDE DEF e
    <3>3. CASE s \in DOMAIN GraphCode
      <4>1. m.errors = Append(r.errors, e) BY <1>7, <3>3
      <4> QED BY <3>1, <3>2, <3>3, <4>1
    <3>4. CASE s \notin DOMAIN GraphCode BY <1>7, <3>2, <3>4
    <3> QED BY <3>3, <3>4
  <2> QED BY <2>1, <2>2, <2>3 DEF Typed
<1>14. (resolves /\ ~open /\ ~read) =>
           /\ m.documents = Append(r.documents, h.target)
           /\ m.todo = ToMeet(files, h.target, Append(h.ancestry, h.target)) \o rest
  BY <1>6, <1>8, <1>10
<1>15. ~(resolves /\ ~open /\ ~read) => m.documents = r.documents /\ m.todo = rest
  BY <1>6, <1>8, <1>9, <1>10
<1> HIDE DEF open, read, resolves
<1> QED BY <1>11, <1>12, <1>13, <1>14, <1>15 DEF h, rest, m, open, read, resolves

-----------------------------------------------------------------------------
(* What is known while the files are read.  The path is the files that are   *)
(* being read, from the root; the other documents are finished.              *)

Waits(todo, x, y) == \E k \in 1 .. Len(todo) : todo[k].source = x /\ todo[k].target = y
PrefixOf(a, path) == Len(a) <= Len(path) /\ \A i \in 1 .. Len(a) : a[i] = path[i]
OnCycle(files, f) == f \in Reachable(files, Includes(files, f))
Finished(r, path) == Documents(r) \ {path[i] : i \in 1 .. Len(path)}

EachOnce(r) == \A i, j \in 1 .. Len(r.documents) : r.documents[i] = r.documents[j] => i = j
OnPath(files, r, path) ==
    /\ path \in Seq(DOMAIN files) /\ Chain(files, path)
    /\ \A i \in 1 .. Len(path) : path[i] \in Documents(r)
    /\ \A i, j \in 1 .. Len(path) : path[i] = path[j] => i = j
Stacked(r, path) ==
    /\ \A k \in 1 .. Len(r.todo) :
          /\ Len(r.todo[k].ancestry) >= 1
          /\ r.todo[k].source = r.todo[k].ancestry[Len(r.todo[k].ancestry)]
          /\ PrefixOf(r.todo[k].ancestry, path)
    /\ \A j, k \in 1 .. Len(r.todo) : j <= k => Len(r.todo[k].ancestry) <= Len(r.todo[j].ancestry)
Covered(files, r) ==
    \A x \in Documents(r) : \A y \in Includes(files, x) : y \in Documents(r) \/ Waits(r.todo, x, y)
ReachedOnly(files, r) == Root \in Documents(r) /\ Documents(r) \subseteq Reachable(files, {Root})
CyclesExist(files, r) == Cyclic(r) => \E f \in Reachable(files, {Root}) : OnCycle(files, f)
Clear(files, r, path) ==
    ~Cyclic(r) =>
        /\ \A x \in Finished(r, path) :
              Includes(files, x) \subseteq Finished(r, path) /\ ~OnCycle(files, x)
        /\ \A i \in 1 .. Len(path) : \A y \in Includes(files, path[i]) :
              \/ Waits(r.todo, path[i], y)
              \/ y \in Finished(r, path)
              \/ \E j \in 1 .. Len(path) : i < j /\ y = path[j]

Good(files, r, path) ==
    /\ Typed(files, r) /\ EachOnce(r) /\ OnPath(files, r, path) /\ Stacked(r, path)
    /\ Covered(files, r) /\ ReachedOnly(files, r) /\ CyclesExist(files, r) /\ Clear(files, r, path)

LEMMA DocumentsAre ==
    ASSUME NEW files, NEW r, Typed(files, r)
    PROVE  /\ Len(r.documents) \in Nat /\ DOMAIN r.documents = 1 .. Len(r.documents)
           /\ Documents(r) = {r.documents[k] : k \in 1 .. Len(r.documents)}
           /\ Documents(r) \subseteq DOMAIN files
BY DEF Typed, Documents

(* The last file of the path is finished when none of its lines waits.       *)
LEMMA PopKeeps ==
    ASSUME NEW files, NEW r, NEW path, Good(files, r, path), NEW n \in Nat, Len(path) = n + 1,
           \A k \in 1 .. Len(r.todo) : Len(r.todo[k].ancestry) <= n
    PROVE  \E q : Good(files, r, q) /\ Len(q) = n
<1> DEFINE q == [i \in 1 .. n |-> path[i]]
           top == path[n + 1]
           D == Documents(r)
           old == Finished(r, path)
           new == Finished(r, q)
<1>0. Typed(files, r) /\ OnPath(files, r, path) /\ Stacked(r, path) /\ Clear(files, r, path)
  BY DEF Good
<1>1. q \in Seq(DOMAIN files) /\ Len(q) = n /\ \A i \in 1 .. n : q[i] = path[i]
  <2>1. path \in Seq(DOMAIN files) BY <1>0 DEF OnPath
  <2>2. \A i \in 1 .. n : path[i] \in DOMAIN files BY <2>1
  <2> QED BY <2>2
<1>2. D \subseteq DOMAIN files BY <1>0, DocumentsAre
<1> HIDE DEF q
<1>3. OnPath(files, r, q)
  <2>1. Chain(files, q)
    <3>1. ASSUME NEW i \in 1 .. n - 1 PROVE q[i + 1] \in Includes(files, q[i])
      <4>1. i \in 1 .. Len(path) - 1 /\ i \in 1 .. n /\ i + 1 \in 1 .. n OBVIOUS
      <4>2. path[i + 1] \in Includes(files, path[i]) BY <1>0, <4>1 DEF OnPath, Chain
      <4> QED BY <1>1, <4>1, <4>2
    <3> QED BY <1>1, <3>1 DEF Chain
  <2>2. \A i \in 1 .. n : i \in 1 .. Len(path) OBVIOUS
  <2> QED BY <1>0, <1>1, <2>1, <2>2 DEF OnPath
<1>4. ASSUME NEW k \in 1 .. Len(r.todo)
      PROVE  /\ Len(r.todo[k].ancestry) \in 1 .. n
             /\ r.todo[k].source = path[Len(r.todo[k].ancestry)]
             /\ PrefixOf(r.todo[k].ancestry, q)
  <2> DEFINE a == r.todo[k].ancestry
  <2>1. Len(a) >= 1 /\ r.todo[k].source = a[Len(a)] /\ PrefixOf(a, path) /\ Len(a) <= n
    BY <1>0 DEF Stacked
  <2>2. r.todo[k] \in Item(files) BY <1>0 DEF Typed
  <2>3. Len(a) \in Nat
    <3>1. a \in Seq(DOMAIN files) BY <2>2, ItemFacts
    <3> QED BY <3>1
  <2> HIDE DEF a
  <2>4. Len(a) \in 1 .. n BY <2>1, <2>3
  <2>5. \A i \in 1 .. Len(a) : a[i] = path[i] /\ i \in 1 .. n BY <2>1, <2>3 DEF PrefixOf
  <2>6. a[Len(a)] = path[Len(a)] BY <2>4, <2>5
  <2>7. PrefixOf(a, q) BY <1>1, <2>1, <2>5 DEF PrefixOf
  <2> QED BY <2>1, <2>4, <2>6, <2>7 DEF a
<1>5. Stacked(r, q) BY <1>0, <1>4 DEF Stacked
<1>6. ASSUME NEW y PROVE ~Waits(r.todo, top, y)
  <2> SUFFICES ASSUME NEW k \in 1 .. Len(r.todo), r.todo[k].source = top PROVE FALSE BY DEF Waits
  <2> DEFINE l == Len(r.todo[k].ancestry)
  <2>1. l \in 1 .. n /\ path[l] = path[n + 1] BY <1>4
  <2> HIDE DEF l
  <2>2. l \in 1 .. Len(path) /\ n + 1 \in 1 .. Len(path) /\ l # n + 1 BY <2>1
  <2> QED BY <1>0, <2>1, <2>2 DEF OnPath
<1>7. top \in D /\ top \notin old
  <2>1. n + 1 \in 1 .. Len(path) OBVIOUS
  <2> QED BY <1>0, <2>1 DEF OnPath, Finished
<1>8. new = old \cup {top}
  <2>1. {path[i] : i \in 1 .. Len(path)} = {q[i] : i \in 1 .. Len(q)} \cup {top}
    <3>1. \A i \in 1 .. Len(path) : i = n + 1 \/ (i \in 1 .. n /\ path[i] = q[i]) BY <1>1
    <3>2. \A i \in 1 .. Len(q) : i \in 1 .. Len(path) /\ q[i] = path[i] BY <1>1
    <3>3. n + 1 \in 1 .. Len(path) OBVIOUS
    <3> QED BY <1>1, <3>1, <3>2, <3>3
  <2>2. top \notin {q[i] : i \in 1 .. Len(q)}
    <3>1. \A i \in 1 .. n : i \in 1 .. Len(path) /\ n + 1 \in 1 .. Len(path) /\ i # n + 1 OBVIOUS
    <3> QED BY <1>0, <1>1, <3>1 DEF OnPath
  <2> QED BY <1>7, <2>1, <2>2 DEF Finished
<1>9. Clear(files, r, q)
  <2> SUFFICES ASSUME ~Cyclic(r)
               PROVE  /\ \A x \in new : Includes(files, x) \subseteq new /\ ~OnCycle(files, x)
                      /\ \A i \in 1 .. n : \A y \in Includes(files, q[i]) :
                            \/ Waits(r.todo, q[i], y)
                            \/ y \in new
                            \/ \E j \in 1 .. n : i < j /\ y = q[j]
    BY <1>1 DEF Clear
  <2>1. /\ \A x \in old : Includes(files, x) \subseteq old /\ ~OnCycle(files, x)
        /\ \A i \in 1 .. n + 1 : \A y \in Includes(files, path[i]) :
              \/ Waits(r.todo, path[i], y)
              \/ y \in old
              \/ \E j \in 1 .. n + 1 : i < j /\ y = path[j]
    BY <1>0 DEF Clear
  <2>2. Includes(files, top) \subseteq old
    <3> SUFFICES ASSUME NEW y \in Includes(files, top) PROVE y \in old OBVIOUS
    <3>1. n + 1 \in 1 .. n + 1 /\ \A j \in 1 .. n + 1 : ~(n + 1 < j) OBVIOUS
    <3> QED BY <1>6, <2>1, <3>1
  <2>3. ~OnCycle(files, top)
    <3>1. old \in SUBSET DOMAIN files BY <1>2 DEF Finished
    <3>2. Reachable(files, Includes(files, top)) \subseteq old BY <2>1, <2>2, <3>1, ReachableIsLeast
    <3> QED BY <1>7, <3>2 DEF OnCycle
  <2>4. ASSUME NEW i \in 1 .. n, NEW y \in Includes(files, q[i])
        PROVE  Waits(r.todo, q[i], y) \/ y \in new \/ \E j \in 1 .. n : i < j /\ y = q[j]
    <3>1. i \in 1 .. n + 1 /\ q[i] = path[i] BY <1>1
    <3>2. CASE Waits(r.todo, path[i], y) BY <3>1, <3>2
    <3>3. CASE y \in old BY <1>8, <3>3
    <3>4. ASSUME NEW j \in 1 .. n + 1, i < j, y = path[j]
          PROVE  y \in new \/ \E l \in 1 .. n : i < l /\ y = q[l]
      <4>1. CASE j = n + 1 BY <1>8, <3>4, <4>1
      <4>2. CASE j # n + 1
        <5>1. j \in 1 .. n BY <4>2
        <5> QED BY <1>1, <3>4, <5>1
      <4> QED BY <4>1, <4>2
    <3> QED BY <2>1, <3>1, <3>2, <3>3, <3>4
  <2> HIDE DEF new, old, top
  <2> QED BY <1>8, <2>1, <2>2, <2>3, <2>4
<1> QED BY <1>1, <1>3, <1>5, <1>9 DEF Good

(* So is every file below the last ancestry that waits.                      *)
LEMMA PopTo ==
    ASSUME NEW files, NEW r, NEW path, Good(files, r, path), NEW m \in Nat, m <= Len(path),
           \A k \in 1 .. Len(r.todo) : Len(r.todo[k].ancestry) <= m
    PROVE  \E q : Good(files, r, q) /\ Len(q) = m
<1> DEFINE S == {d \in Nat : \A p : Good(files, r, p) /\ Len(p) = m + d =>
                                \E q : Good(files, r, q) /\ Len(q) = m}
<1>1. 0 \in S OBVIOUS
<1>2. ASSUME NEW d \in Nat, d \in S PROVE d + 1 \in S
  <2> SUFFICES ASSUME NEW p, Good(files, r, p), Len(p) = m + (d + 1)
               PROVE  \E q : Good(files, r, q) /\ Len(q) = m
    OBVIOUS
  <2>1. \A k \in 1 .. Len(r.todo) : Len(r.todo[k].ancestry) <= m + d
    <3> SUFFICES ASSUME NEW k \in 1 .. Len(r.todo) PROVE Len(r.todo[k].ancestry) <= m + d OBVIOUS
    <3>1. r.todo \in Seq(Item(files)) BY DEF Good, Typed
    <3>2. r.todo[k] \in Item(files) BY <3>1
    <3>3. Len(r.todo[k].ancestry) \in Nat
      <4>1. r.todo[k].ancestry \in Seq(DOMAIN files) BY <3>2, ItemFacts
      <4> QED BY <4>1
    <3> QED BY <3>3
  <2>2. m + d \in Nat /\ Len(p) = (m + d) + 1 OBVIOUS
  <2>3. PICK q : Good(files, r, q) /\ Len(q) = m + d BY <2>1, <2>2, PopKeeps
  <2> QED BY <1>2, <2>3
<1>3. \A d \in Nat : d \in S
  <2> HIDE DEF S
  <2> QED BY <1>1, <1>2, SetInduction
<1>4. Len(path) \in Nat
  <2>1. path \in Seq(DOMAIN files) BY DEF Good, OnPath
  <2> QED BY <2>1
<1>5. Len(path) - m \in Nat /\ Len(path) = m + (Len(path) - m) BY <1>4
<1> QED BY <1>3, <1>5

LEMMA QueueFacts ==
    ASSUME NEW files, NEW todo \in Seq(Item(files)), todo # <<>>
    PROVE  /\ Head(todo) \in Item(files) /\ Tail(todo) \in Seq(Item(files))
           /\ Len(todo) \in Nat \ {0} /\ Len(Tail(todo)) = Len(todo) - 1 /\ Head(todo) = todo[1]
           /\ \A k \in 1 .. Len(todo) - 1 : Tail(todo)[k] = todo[k + 1]
           /\ \A x, y : Waits(todo, x, y) =>
                 Waits(Tail(todo), x, y) \/ (x = Head(todo).source /\ y = Head(todo).target)
<1>1. /\ Head(todo) \in Item(files) /\ Tail(todo) \in Seq(Item(files))
      /\ Len(todo) \in Nat \ {0} /\ Len(Tail(todo)) = Len(todo) - 1 /\ Head(todo) = todo[1]
      /\ \A k \in 1 .. Len(todo) - 1 : Tail(todo)[k] = todo[k + 1]
  OBVIOUS
<1>2. ASSUME NEW x, NEW y, Waits(todo, x, y)
      PROVE  Waits(Tail(todo), x, y) \/ (x = Head(todo).source /\ y = Head(todo).target)
  <2>1. PICK k \in 1 .. Len(todo) : todo[k].source = x /\ todo[k].target = y BY <1>2 DEF Waits
  <2>2. CASE k = 1 BY <1>1, <2>1, <2>2
  <2>3. CASE k # 1
    <3>1. k - 1 \in 1 .. Len(todo) - 1 /\ (k - 1) + 1 = k BY <1>1, <2>3
    <3>2. Tail(todo)[k - 1] = todo[k] BY <1>1, <3>1
    <3> QED BY <1>1, <2>1, <3>1, <3>2 DEF Waits
  <2> QED BY <2>2, <2>3
<1> QED BY <1>1, <1>2

(* A file that is a target of a line of the last file of the path, and stands *)
(* on the path, is on a cycle.                                               *)
LEMMA BackOnPath ==
    ASSUME NEW files, NEW path \in Seq(DOMAIN files), Chain(files, path), NEW i \in 1 .. Len(path),
           path[i] \in Includes(files, path[Len(path)])
    PROVE  OnCycle(files, path[i])
<1> DEFINE R == Reachable(files, Includes(files, path[i]))
           n == Len(path)
<1>1. Includes(files, path[i]) \in SUBSET DOMAIN files BY IncludesAreFiles
<1>2. Includes(files, path[i]) \subseteq R /\ \A f \in R : Includes(files, f) \subseteq R
  BY <1>1, ReachableCloses
<1>3. CASE i = n BY <1>2, <1>3 DEF OnCycle
<1>4. CASE i # n
  <2>1. n \in 1 .. Len(path) /\ i < n BY <1>4
  <2>2. path[n] \in R BY <2>1, ChainReaches
  <2> HIDE DEF R
  <2> QED BY <1>2, <2>2 DEF OnCycle, R
<1> QED BY <1>3, <1>4

(* A line that opens no file.                                                *)
LEMMA PassKeeps ==
    ASSUME NEW files, NEW r, NEW path, Good(files, r, path), r.todo # <<>>, NEW m,
           Typed(files, m), m.documents = r.documents, m.todo = Tail(r.todo),
           Head(r.todo).source = path[Len(path)], Len(path) >= 1,
           LET t == Head(r.todo).target
               open == \E i \in 1 .. Len(path) : path[i] = t
           IN  /\ Cyclic(m) <=> Cyclic(r) \/ (t \in Resolvable(files) /\ open)
               /\ t \in Resolvable(files) /\ ~open => t \in Documents(r)
    PROVE  Good(files, m, path)
<1> DEFINE h == Head(r.todo)
           t == h.target
           open == \E i \in 1 .. Len(path) : path[i] = t
<1>0. /\ Typed(files, r) /\ EachOnce(r) /\ OnPath(files, r, path) /\ Stacked(r, path)
      /\ Covered(files, r) /\ ReachedOnly(files, r) /\ CyclesExist(files, r) /\ Clear(files, r, path)
  BY DEF Good
<1>1. r.todo \in Seq(Item(files)) BY <1>0 DEF Typed
<1>2. /\ h \in Item(files) /\ Len(r.todo) \in Nat \ {0} /\ Len(m.todo) = Len(r.todo) - 1
      /\ \A k \in 1 .. Len(m.todo) : m.todo[k] = r.todo[k + 1]
      /\ \A x, y : Waits(r.todo, x, y) => Waits(m.todo, x, y) \/ (x = h.source /\ y = t)
  BY <1>1, QueueFacts
<1>3. Documents(m) = Documents(r) /\ Finished(m, path) = Finished(r, path) BY DEF Documents, Finished
<1>4. t \in Resolvable(files) => t \in Includes(files, path[Len(path)]) BY <1>2, ItemFacts
<1>5. path \in Seq(DOMAIN files) /\ Chain(files, path) BY <1>0 DEF OnPath
<1>6. Documents(r) \subseteq DOMAIN files BY <1>0, DocumentsAre
<1>7. \A x \in Documents(r) : Includes(files, x) \subseteq Resolvable(files) BY IncludesAreFiles
<1>8. Len(path) \in Nat /\ Len(path) \in 1 .. Len(path) BY <1>5
<1> HIDE DEF h
<1>9. EachOnce(m) /\ OnPath(files, m, path) BY <1>0, <1>3 DEF EachOnce, OnPath
<1>10. Stacked(m, path)
  <2>1. \A k \in 1 .. Len(m.todo) : k + 1 \in 1 .. Len(r.todo) BY <1>2
  <2>2. \A j, k \in 1 .. Len(m.todo) : j <= k => j + 1 <= k + 1 OBVIOUS
  <2> QED BY <1>0, <1>2, <2>1, <2>2 DEF Stacked
<1>11. open /\ t \in Resolvable(files) => Cyclic(m)
  BY DEF h
<1>12. Covered(files, m)
  <2> SUFFICES ASSUME NEW x \in Documents(r), NEW y \in Includes(files, x)
               PROVE  y \in Documents(r) \/ Waits(m.todo, x, y)
    BY <1>3 DEF Covered
  <2>1. CASE y \in Documents(r) BY <2>1
  <2>2. CASE Waits(r.todo, x, y)
    <3>1. CASE y = t
      <4>1. t \in Resolvable(files) BY <1>7, <3>1
      <4>2. open => t \in Documents(r) BY <1>0 DEF OnPath
      <4> QED BY <3>1, <4>1, <4>2 DEF h
    <3> QED BY <1>2, <2>2, <3>1
  <2> QED BY <1>0, <2>1, <2>2 DEF Covered
<1>13. ReachedOnly(files, m) BY <1>0, <1>3 DEF ReachedOnly
<1>14. CyclesExist(files, m)
  <2>1. ASSUME t \in Resolvable(files), open PROVE \E f \in Reachable(files, {Root}) : OnCycle(files, f)
    <3>1. PICK i \in 1 .. Len(path) : path[i] = t BY <2>1
    <3>2. OnCycle(files, path[i]) BY <1>4, <1>5, <2>1, <3>1, BackOnPath
    <3>3. path[i] \in Reachable(files, {Root}) BY <1>0 DEF OnPath, ReachedOnly
    <3> QED BY <3>2, <3>3
  <2>2. Cyclic(m) => Cyclic(r) \/ (t \in Resolvable(files) /\ open) BY DEF h
  <2> QED BY <1>0, <2>1, <2>2 DEF CyclesExist
<1>15. Clear(files, m, path)
  <2> SUFFICES ASSUME ~Cyclic(m), NEW i \in 1 .. Len(path), NEW y \in Includes(files, path[i])
               PROVE  \/ Waits(m.todo, path[i], y)
                      \/ y \in Finished(r, path)
                      \/ \E j \in 1 .. Len(path) : i < j /\ y = path[j]
    <3>1. ~Cyclic(m) => ~Cyclic(r) BY DEF h
    <3>2. ~Cyclic(m) => \A x \in Finished(r, path) :
              Includes(files, x) \subseteq Finished(r, path) /\ ~OnCycle(files, x)
      BY <1>0, <3>1 DEF Clear
    <3> QED BY <1>3, <3>2 DEF Clear
  <2>1. ~Cyclic(r) BY DEF h
  <2>2. \/ Waits(r.todo, path[i], y) \/ y \in Finished(r, path)
        \/ \E j \in 1 .. Len(path) : i < j /\ y = path[j]
    BY <1>0, <2>1 DEF Clear
  <2>3. ASSUME Waits(r.todo, path[i], y), y = t PROVE y \in Finished(r, path)
    <3>1. t \in Resolvable(files) BY <2>3, IncludesAreFiles
    <3>2. ~open BY <1>11, <3>1
    <3>3. t \in Documents(r) BY <3>1, <3>2 DEF h
    <3> QED BY <2>3, <3>2, <3>3 DEF Finished
  <2> QED BY <1>2, <2>2, <2>3
<1> QED BY <1>9, <1>10, <1>12, <1>13, <1>14, <1>15 DEF Good

(* A line that opens a file: the file goes on the path, its lines wait first. *)
Opens(files, r, path, m, a) ==
    LET h == Head(r.todo)
        t == h.target
    IN  /\ h.source = path[Len(path)] /\ Len(path) >= 1
        /\ a \in Seq(DOMAIN files) /\ Len(a) = Len(path) + 1 /\ a[Len(path) + 1] = t
        /\ \A i \in 1 .. Len(path) : a[i] = path[i]
        /\ t \in Resolvable(files) /\ t \notin Documents(r)
        /\ m.documents = Append(r.documents, t) /\ m.todo = ToMeet(files, t, a) \o Tail(r.todo)

LEMMA OpenKeeps ==
    ASSUME NEW files, NEW r, NEW path, Good(files, r, path), r.todo # <<>>, NEW m,
           Typed(files, m), Cyclic(m) <=> Cyclic(r), NEW a, Opens(files, r, path, m, a),
           \A k \in 1 .. Len(r.todo) : Len(r.todo[k].ancestry) <= Len(path)
    PROVE  Good(files, m, a)
<1> DEFINE h == Head(r.todo)
           t == h.target
           T == ToMeet(files, t, a)
           rest == Tail(r.todo)
           n == Len(path)
<1>0. /\ Typed(files, r) /\ EachOnce(r) /\ OnPath(files, r, path) /\ Stacked(r, path)
      /\ Covered(files, r) /\ ReachedOnly(files, r) /\ CyclesExist(files, r) /\ Clear(files, r, path)
  BY DEF Good
<1>1. r.todo \in Seq(Item(files)) BY <1>0 DEF Typed
<1>01. /\ h.source = path[n] /\ n >= 1
       /\ a \in Seq(DOMAIN files) /\ Len(a) = n + 1 /\ a[n + 1] = t
       /\ \A i \in 1 .. n : a[i] = path[i]
       /\ t \in Resolvable(files) /\ t \notin Documents(r)
  BY DEF Opens
<1>02. m.documents = Append(r.documents, t) /\ m.todo = T \o rest BY DEF Opens
<1>2. /\ h \in Item(files) /\ Len(r.todo) \in Nat \ {0} /\ Len(rest) = Len(r.todo) - 1
      /\ rest \in Seq(Item(files)) /\ \A k \in 1 .. Len(rest) : rest[k] = r.todo[k + 1]
      /\ \A x, y : Waits(r.todo, x, y) => Waits(rest, x, y) \/ (x = path[n] /\ y = t)
  BY <1>01, <1>1, QueueFacts
<1>3. path \in Seq(DOMAIN files) /\ Chain(files, path) /\ n \in Nat /\ n \in 1 .. n
  <2>1. path \in Seq(DOMAIN files) /\ Chain(files, path) BY <1>0 DEF OnPath
  <2> HIDE DEF n
  <2>2. n \in Nat BY <2>1 DEF n
  <2> QED BY <1>01, <2>1, <2>2
<1> HIDE DEF h, t
<1>4. t \in DOMAIN files /\ t \in Includes(files, path[n])
  BY <1>01, <1>2, ItemFacts, IncludesAreFiles DEF t
<1>5. /\ T \in Seq(Item(files)) /\ Len(T) \in Nat
      /\ \A k \in 1 .. Len(T) : T[k].source = t /\ T[k].ancestry = a
      /\ \A y \in Includes(files, t) : Waits(T, t, y)
  <2>0. a \in Seq(DOMAIN files) BY <1>01
  <2>1. T \in Seq(Item(files)) BY <1>4, <2>0, ToMeetItems
  <2>2. \A k \in 1 .. Len(T) : T[k].source = t /\ T[k].ancestry = a BY <1>4, <2>0, ToMeetItems
  <2>3. \A y \in Includes(files, t) : \E k \in 1 .. Len(T) : T[k].target = y BY <1>4, <2>0, ToMeetItems
  <2> HIDE DEF T
  <2>4. Len(T) \in Nat BY <2>1
  <2> QED BY <2>1, <2>2, <2>3, <2>4 DEF Waits
<1>6. /\ Len(m.todo) = Len(T) + Len(rest) /\ Len(rest) \in Nat
      /\ \A k \in 1 .. Len(T) : m.todo[k] = T[k]
      /\ \A k \in 1 .. Len(rest) : m.todo[Len(T) + k] = rest[k]
      /\ \A k \in 1 .. Len(m.todo) : k \in 1 .. Len(T) \/
            (k - Len(T) \in 1 .. Len(rest) /\ m.todo[k] = rest[k - Len(T)])
  <2> HIDE DEF T, rest
  <2>1. m.todo = T \o rest BY <1>02
  <2>2. Len(rest) \in Nat /\ Len(T) \in Nat BY <1>2, <1>5
  <2>3. /\ Len(m.todo) = Len(T) + Len(rest)
        /\ \A k \in 1 .. Len(T) + Len(rest) :
              m.todo[k] = IF k <= Len(T) THEN T[k] ELSE rest[k - Len(T)]
    BY <1>2, <1>5, <2>1, JoinedAt
  <2>4. /\ \A k \in 1 .. Len(T) : k \in 1 .. Len(T) + Len(rest) /\ k <= Len(T)
        /\ \A k \in 1 .. Len(rest) : /\ Len(T) + k \in 1 .. Len(T) + Len(rest)
                                     /\ ~(Len(T) + k <= Len(T)) /\ (Len(T) + k) - Len(T) = k
        /\ \A k \in 1 .. Len(T) + Len(rest) : k <= Len(T) => k \in 1 .. Len(T)
        /\ \A k \in 1 .. Len(T) + Len(rest) : ~(k <= Len(T)) => k - Len(T) \in 1 .. Len(rest)
    BY <2>2
  <2> QED BY <2>2, <2>3, <2>4
<1> HIDE DEF T, rest, n
<1>7. \A x, y : Waits(T, x, y) \/ Waits(rest, x, y) => Waits(m.todo, x, y)
  <2>0. Len(T) \in Nat /\ Len(rest) \in Nat /\ Len(m.todo) = Len(T) + Len(rest) BY <1>5, <1>6
  <2>1. \A k \in 1 .. Len(T) : k \in 1 .. Len(m.todo) BY <2>0
  <2>2. \A k \in 1 .. Len(rest) : Len(T) + k \in 1 .. Len(m.todo) BY <2>0
  <2>3. ASSUME NEW x, NEW y, Waits(T, x, y) PROVE Waits(m.todo, x, y) BY <1>6, <2>1, <2>3 DEF Waits
  <2>4. ASSUME NEW x, NEW y, Waits(rest, x, y) PROVE Waits(m.todo, x, y) BY <1>6, <2>2, <2>4 DEF Waits
  <2> QED BY <2>3, <2>4
<1>8. \A i \in 1 .. n + 1 : i = n + 1 \/ i \in 1 .. n BY <1>3
<1>9. Len(a) = n + 1 /\ a[n + 1] = t /\ (\A i \in 1 .. n : a[i] = path[i]) /\ n + 1 \in 1 .. n + 1
  BY <1>01, <1>3
<1>10. /\ Len(r.documents) \in Nat
       /\ Len(m.documents) = Len(r.documents) + 1 /\ m.documents[Len(r.documents) + 1] = t
       /\ \A k \in 1 .. Len(r.documents) : m.documents[k] = r.documents[k]
  <2>1. r.documents \in Seq(DOMAIN files) BY <1>0 DEF Typed
  <2> QED BY <1>02, <1>4, <2>1
<1>11. \A k \in 1 .. Len(m.documents) : k = Len(m.documents) \/ k \in 1 .. Len(r.documents) BY <1>10
<1>12. /\ \A k \in 1 .. Len(r.documents) : k \in 1 .. Len(m.documents)
       /\ Len(m.documents) \in 1 .. Len(m.documents)
  BY <1>10
<1>13. /\ Documents(r) = {r.documents[k] : k \in 1 .. Len(r.documents)}
       /\ Documents(m) = {m.documents[k] : k \in 1 .. Len(m.documents)}
  <2>1. Typed(files, m) OBVIOUS
  <2> QED BY <1>0, <2>1, DocumentsAre
<1>14. Documents(m) = Documents(r) \cup {t} BY <1>10, <1>11, <1>12, <1>13
<1>15. EachOnce(m)
  <2>1. \A k \in 1 .. Len(r.documents) : r.documents[k] # t BY <1>01, <1>13
  <2> QED BY <1>0, <1>10, <1>11, <2>1 DEF EachOnce
<1>16. \A i \in 1 .. n : path[i] \in Documents(r) /\ path[i] # t BY <1>0, <1>01 DEF OnPath, n
<1>17. OnPath(files, m, a)
  <2>1. Chain(files, a)
    <3>1. ASSUME NEW i \in 1 .. Len(a) - 1 PROVE a[i + 1] \in Includes(files, a[i])
      <4>1. i \in 1 .. n /\ a[i] = path[i] BY <1>3, <1>9
      <4>2. CASE i = n BY <1>4, <1>9, <4>1, <4>2
      <4>3. CASE i # n
        <5>1. i \in 1 .. n - 1 /\ i + 1 \in 1 .. n BY <1>3, <4>1, <4>3
        <5> QED BY <1>3, <1>9, <4>1, <5>1 DEF Chain, n
      <4> QED BY <4>2, <4>3
    <3> QED BY <3>1 DEF Chain
  <2>2. \A i \in 1 .. Len(a) : a[i] \in Documents(m) BY <1>8, <1>9, <1>14, <1>16
  <2>3. ASSUME NEW i \in 1 .. Len(a), NEW j \in 1 .. Len(a), a[i] = a[j] PROVE i = j
    <3>1. CASE i \in 1 .. n /\ j \in 1 .. n BY <1>0, <1>9, <2>3, <3>1 DEF OnPath, n
    <3> QED BY <1>8, <1>9, <1>16, <2>3, <3>1
  <2> QED BY <1>01, <2>1, <2>2, <2>3 DEF OnPath
<1>18. \A k \in 1 .. Len(rest) : k + 1 \in 1 .. Len(r.todo) BY <1>2
<1>19. Stacked(m, a)
  <2>1. ASSUME NEW k \in 1 .. Len(T)
        PROVE  Len(T[k].ancestry) = n + 1 /\ T[k].source = T[k].ancestry[n + 1] /\ PrefixOf(T[k].ancestry, a)
    BY <1>3, <1>5, <1>9 DEF PrefixOf
  <2>2. ASSUME NEW k \in 1 .. Len(rest)
        PROVE  /\ Len(rest[k].ancestry) \in 1 .. n
               /\ rest[k].source = rest[k].ancestry[Len(rest[k].ancestry)]
               /\ PrefixOf(rest[k].ancestry, a)
    <3> DEFINE b == rest[k].ancestry
    <3>1. rest[k] = r.todo[k + 1] /\ k + 1 \in 1 .. Len(r.todo) BY <1>2, <1>18
    <3>2. Len(b) >= 1 /\ rest[k].source = b[Len(b)] /\ PrefixOf(b, path) /\ Len(b) <= n
      BY <1>0, <3>1 DEF Stacked, n
    <3>3. b \in Seq(DOMAIN files) BY <1>2, ItemFacts
    <3> HIDE DEF b
    <3>4. Len(b) \in 1 .. n BY <1>3, <3>2, <3>3
    <3>5. \A i \in 1 .. Len(b) : i \in 1 .. n BY <1>3, <3>4
    <3>6. Len(b) <= Len(a) BY <1>3, <1>9, <3>4
    <3>7. PrefixOf(b, a) BY <1>9, <3>2, <3>5, <3>6 DEF PrefixOf
    <3> QED BY <3>2, <3>4, <3>7 DEF b
  <2>3. ASSUME NEW k \in 1 .. Len(m.todo)
        PROVE  /\ Len(m.todo[k].ancestry) >= 1
               /\ m.todo[k].source = m.todo[k].ancestry[Len(m.todo[k].ancestry)]
               /\ PrefixOf(m.todo[k].ancestry, a)
    <3>1. CASE k \in 1 .. Len(T)
      <4>1. m.todo[k] = T[k] BY <1>6, <3>1
      <4>2. n + 1 >= 1 BY <1>3
      <4> QED BY <2>1, <3>1, <4>1, <4>2
    <3>2. CASE k \notin 1 .. Len(T)
      <4> DEFINE l == k - Len(T)
      <4>1. l \in 1 .. Len(rest) /\ m.todo[k] = rest[l] BY <1>6, <3>2
      <4> HIDE DEF l
      <4>2. Len(rest[l].ancestry) >= 1 BY <1>3, <2>2, <4>1
      <4> QED BY <2>2, <4>1, <4>2
    <3> QED BY <3>1, <3>2
  <2>4. ASSUME NEW j \in 1 .. Len(m.todo), NEW k \in 1 .. Len(m.todo), j <= k
        PROVE  Len(m.todo[k].ancestry) <= Len(m.todo[j].ancestry)
    <3>1. CASE k \in 1 .. Len(T)
      <4>1. j \in 1 .. Len(T) BY <1>5, <1>6, <2>4, <3>1
      <4>2. Len(m.todo[k].ancestry) = n + 1 /\ Len(m.todo[j].ancestry) = n + 1
        BY <1>6, <2>1, <3>1, <4>1
      <4>3. n + 1 <= n + 1 BY <1>3
      <4> QED BY <4>2, <4>3
    <3>2. CASE k \notin 1 .. Len(T)
      <4> DEFINE l == k - Len(T)
      <4>1. l \in 1 .. Len(rest) /\ m.todo[k] = rest[l] BY <1>6, <3>2
      <4>2. CASE j \in 1 .. Len(T)
        <5> HIDE DEF l
        <5>1. Len(m.todo[j].ancestry) = n + 1 BY <1>6, <2>1, <4>2
        <5>2. Len(m.todo[k].ancestry) \in 1 .. n BY <2>2, <4>1
        <5>3. \A x \in 1 .. n : x <= n + 1 BY <1>3
        <5> QED BY <5>1, <5>2, <5>3
      <4>3. CASE j \notin 1 .. Len(T)
        <5> DEFINE i == j - Len(T)
        <5>1. i \in 1 .. Len(rest) /\ m.todo[j] = rest[i] BY <1>6, <4>3
        <5>2. i <= l /\ i + 1 <= l + 1 /\ i + 1 \in 1 .. Len(r.todo) /\ l + 1 \in 1 .. Len(r.todo)
          <6>1. j \in Int /\ k \in Int /\ j <= k /\ Len(T) \in Int BY <1>5, <2>4
          <6>2. i <= l /\ i + 1 <= l + 1 BY <6>1
          <6> QED BY <1>18, <4>1, <5>1, <6>2
        <5> HIDE DEF i, l
        <5>3. rest[i] = r.todo[i + 1] /\ rest[l] = r.todo[l + 1] BY <1>2, <4>1, <5>1
        <5> QED BY <1>0, <4>1, <5>1, <5>2, <5>3 DEF Stacked
      <4> QED BY <4>2, <4>3
    <3> QED BY <3>1, <3>2
  <2> QED BY <2>3, <2>4 DEF Stacked
<1>20. Covered(files, m)
  <2> SUFFICES ASSUME NEW x \in Documents(m), NEW y \in Includes(files, x)
               PROVE  y \in Documents(m) \/ Waits(m.todo, x, y)
    BY DEF Covered
  <2>1. CASE x = t BY <1>5, <1>7, <2>1
  <2>2. CASE x \in Documents(r)
    <3>1. y \in Documents(r) \/ Waits(r.todo, x, y) BY <1>0, <2>2 DEF Covered
    <3> QED BY <1>2, <1>7, <1>14, <3>1
  <2> QED BY <1>14, <2>1, <2>2
<1>21. ReachedOnly(files, m)
  <2>1. path[n] \in Reachable(files, {Root}) BY <1>0, <1>3, <1>16 DEF ReachedOnly
  <2>2. {Root} \in SUBSET DOMAIN files BY <1>0, DocumentsAre DEF ReachedOnly
  <2>3. t \in Reachable(files, {Root}) BY <1>4, <2>1, <2>2, ReachableCloses
  <2> QED BY <1>0, <1>14, <2>3 DEF ReachedOnly
<1>22. CyclesExist(files, m) BY <1>0 DEF CyclesExist
<1>23. Finished(m, a) = Finished(r, path)
  <2>1. {a[i] : i \in 1 .. Len(a)} = {path[i] : i \in 1 .. Len(path)} \cup {t}
    <3>1. \A i \in 1 .. n : i \in 1 .. n + 1 BY <1>3
    <3>2. \A x : x \in {a[i] : i \in 1 .. Len(a)} <=> x \in {path[i] : i \in 1 .. n} \cup {t}
      BY <1>8, <1>9, <3>1
    <3> QED BY <3>2 DEF n
  <2> QED BY <1>01, <1>14, <2>1 DEF Finished
<1>24. Clear(files, m, a)
  <2> SUFFICES ASSUME ~Cyclic(m)
               PROVE  /\ \A x \in Finished(r, path) :
                            Includes(files, x) \subseteq Finished(r, path) /\ ~OnCycle(files, x)
                      /\ \A i \in 1 .. n + 1 : \A y \in Includes(files, a[i]) :
                            \/ Waits(m.todo, a[i], y)
                            \/ y \in Finished(r, path)
                            \/ \E j \in 1 .. n + 1 : i < j /\ y = a[j]
    BY <1>9, <1>23 DEF Clear
  <2>1. /\ \A x \in Finished(r, path) :
              Includes(files, x) \subseteq Finished(r, path) /\ ~OnCycle(files, x)
        /\ \A i \in 1 .. n : \A y \in Includes(files, path[i]) :
              \/ Waits(r.todo, path[i], y)
              \/ y \in Finished(r, path)
              \/ \E j \in 1 .. n : i < j /\ y = path[j]
    BY <1>0 DEF Clear, n
  <2>2. ASSUME NEW i \in 1 .. n, NEW y \in Includes(files, a[i])
        PROVE  \/ Waits(m.todo, a[i], y) \/ y \in Finished(r, path)
               \/ \E j \in 1 .. n + 1 : i < j /\ y = a[j]
    <3>1. a[i] = path[i] /\ i < n + 1 BY <1>3, <1>9
    <3>2. \A j \in 1 .. n : j \in 1 .. n + 1 BY <1>3
    <3>3. CASE Waits(r.todo, path[i], y) BY <1>2, <1>7, <1>9, <3>1, <3>3
    <3> QED BY <1>9, <2>1, <3>1, <3>2, <3>3
  <2>3. \A y \in Includes(files, t) : Waits(m.todo, t, y) BY <1>5, <1>7
  <2> QED BY <1>8, <1>9, <2>1, <2>2, <2>3
<1> QED BY <1>15, <1>17, <1>19, <1>20, <1>21, <1>22, <1>24 DEF Good

(* Meeting a line keeps what is known, with some path.                       *)
LEMMA MeetKeeps ==
    ASSUME NEW files, NEW r, NEW path, Good(files, r, path), r.todo # <<>>
    PROVE  \E q : Good(files, Meet(files, r), q)
<1> DEFINE h == Head(r.todo)
           t == h.target
           m == Meet(files, r)
           n == Len(h.ancestry)
<1>1. Typed(files, r) /\ Stacked(r, path) BY DEF Good
<1>2. r.todo \in Seq(Item(files)) BY <1>1 DEF Typed
<1>3. h \in Item(files) /\ Len(r.todo) \in Nat \ {0} /\ h = r.todo[1] BY <1>2, QueueFacts
<1>4. 1 \in 1 .. Len(r.todo) /\ \A k \in 1 .. Len(r.todo) : 1 <= k BY <1>3
<1>5. h.ancestry \in Seq(DOMAIN files) /\ n \in Nat
  <2>1. h.ancestry \in Seq(DOMAIN files) BY <1>3, ItemFacts
  <2> QED BY <2>1
<1>6. n <= Len(path) BY <1>1, <1>3, <1>4 DEF Stacked, PrefixOf
<1>7. \A k \in 1 .. Len(r.todo) : Len(r.todo[k].ancestry) <= n BY <1>1, <1>3, <1>4 DEF Stacked
<1> HIDE DEF n
<1>8. PICK p : Good(files, r, p) /\ Len(p) = n BY <1>5, <1>6, <1>7, PopTo
<1>9. OnPath(files, r, p) /\ Stacked(r, p) BY <1>8 DEF Good
<1>10. n >= 1 /\ h.source = h.ancestry[n] /\ \A i \in 1 .. n : h.ancestry[i] = p[i]
  BY <1>3, <1>4, <1>9 DEF Stacked, PrefixOf, n
<1>11. n \in 1 .. n /\ h.source = p[n] BY <1>5, <1>10
<1> DEFINE open == \E k \in 1 .. n : h.ancestry[k] = t
           read == \E k \in 1 .. Len(r.documents) : r.documents[k] = t
           resolves == t \in Resolvable(files)
<1>12. /\ Typed(files, m)
       /\ resolves /\ ~open /\ ~read =>
             /\ m.documents = Append(r.documents, t)
             /\ m.todo = ToMeet(files, t, Append(h.ancestry, t)) \o Tail(r.todo)
       /\ ~(resolves /\ ~open /\ ~read) => m.documents = r.documents /\ m.todo = Tail(r.todo)
       /\ Cyclic(m) <=> Cyclic(r) \/ (resolves /\ open)
  BY <1>1, MeetCases DEF n
<1>13. read <=> t \in Documents(r) BY <1>1, DocumentsAre
<1>14. open <=> \E i \in 1 .. Len(p) : p[i] = t BY <1>8, <1>10
<1> HIDE DEF m, h, read, open
<1>15. CASE resolves /\ ~open /\ ~read
  <2> DEFINE a == Append(h.ancestry, t)
  <2>1. t \in DOMAIN files BY <1>15, IncludesAreFiles
  <2>2. a \in Seq(DOMAIN files) /\ Len(a) = n + 1 /\ a[n + 1] = t
        /\ \A i \in 1 .. n : a[i] = h.ancestry[i]
    BY <1>5, <2>1 DEF n
  <2>3. m.documents = Append(r.documents, t) /\ m.todo = ToMeet(files, t, a) \o Tail(r.todo)
        /\ Typed(files, m) /\ (Cyclic(m) <=> Cyclic(r))
    BY <1>12, <1>15
  <2> HIDE DEF a
  <2>4. Opens(files, r, p, m, a) BY <1>8, <1>10, <1>11, <1>13, <1>15, <2>2, <2>3 DEF Opens, h
  <2> QED BY <1>7, <1>8, <2>3, <2>4, OpenKeeps DEF m
<1>16. CASE ~(resolves /\ ~open /\ ~read)
  <2>1. m.documents = r.documents /\ m.todo = Tail(r.todo) /\ Typed(files, m) BY <1>12, <1>16
  <2>2. Len(p) >= 1 /\ Head(r.todo).source = p[Len(p)] BY <1>8, <1>10, <1>11 DEF h
  <2>3. /\ Cyclic(m) <=> Cyclic(r) \/ (Head(r.todo).target \in Resolvable(files)
                                        /\ \E i \in 1 .. Len(p) : p[i] = Head(r.todo).target)
    BY <1>12, <1>14 DEF h
  <2>4. Head(r.todo).target \in Resolvable(files) /\ ~(\E i \in 1 .. Len(p) : p[i] = Head(r.todo).target)
           => Head(r.todo).target \in Documents(r)
    BY <1>13, <1>14, <1>16 DEF h
  <2>5. Good(files, m, p) BY <1>8, <2>1, <2>2, <2>3, <2>4, PassKeeps
  <2> QED BY <2>5 DEF m
<1> QED BY <1>15, <1>16

LEMMA OpeningIsGood ==
    ASSUME NEW files, Root \in DOMAIN files
    PROVE  Good(files, Opening(files), <<Root>>)
<1> DEFINE r == Opening(files)
           T == ToMeet(files, Root, <<Root>>)
<1>1. r.documents = <<Root>> /\ r.errors = <<>> /\ r.todo = T BY DEF Opening
<1>2. <<Root>> \in Seq(DOMAIN files) /\ Len(<<Root>>) = 1 /\ <<Root>>[1] = Root OBVIOUS
<1>3. /\ T \in Seq(Item(files))
      /\ \A k \in 1 .. Len(T) : T[k].source = Root /\ T[k].ancestry = <<Root>>
      /\ \A y \in Includes(files, Root) : Waits(T, Root, y)
  <2>1. T \in Seq(Item(files)) BY <1>2, ToMeetItems
  <2>2. \A k \in 1 .. Len(T) : T[k].source = Root /\ T[k].ancestry = <<Root>> BY <1>2, ToMeetItems
  <2>3. ASSUME NEW p \in DOMAIN files, NEW a \in Seq(DOMAIN files), NEW y \in Includes(files, p)
        PROVE  Waits(ToMeet(files, p, a), p, y)
    BY ToMeetItems DEF Waits
  <2> QED BY <1>2, <2>1, <2>2, <2>3
<1> HIDE DEF r, T
<1>4. Documents(r) = {Root} BY <1>1, <1>2 DEF Documents
<1>5. \A i \in 1 .. 1 : i = 1 OBVIOUS
<1>6. Typed(files, r) /\ ~Cyclic(r) BY <1>1, <1>2, <1>3 DEF Typed, Cyclic
<1>7. EachOnce(r) BY <1>1, <1>2, <1>5 DEF EachOnce
<1>8. OnPath(files, r, <<Root>>) BY <1>2, <1>4, <1>5 DEF OnPath, Chain
<1>9. Stacked(r, <<Root>>)
  <2>1. PrefixOf(<<Root>>, <<Root>>) BY <1>2 DEF PrefixOf
  <2> HIDE DEF PrefixOf
  <2>2. \A k \in 1 .. Len(T) : /\ Len(T[k].ancestry) = 1 /\ T[k].source = T[k].ancestry[1]
                               /\ PrefixOf(T[k].ancestry, <<Root>>)
    BY <1>2, <1>3, <2>1
  <2>3. 1 <= 1 /\ 1 >= 1 OBVIOUS
  <2> QED BY <1>1, <2>2, <2>3 DEF Stacked
<1>10. Covered(files, r) BY <1>1, <1>3, <1>4 DEF Covered
<1>11. ReachedOnly(files, r)
  <2>1. {Root} \in SUBSET DOMAIN files OBVIOUS
  <2> QED BY <1>4, <2>1, ReachableCloses DEF ReachedOnly
<1>12. CyclesExist(files, r) BY <1>6 DEF CyclesExist
<1>13. Finished(r, <<Root>>) = {} BY <1>2, <1>4 DEF Finished
<1>14. Clear(files, r, <<Root>>) BY <1>1, <1>2, <1>3, <1>5, <1>13 DEF Clear
<1> QED BY <1>6, <1>7, <1>8, <1>9, <1>10, <1>11, <1>12, <1>14 DEF Good, r

-----------------------------------------------------------------------------
(* The reading ends: the lines that wait and those of the files that were    *)
(* not read become fewer with every step.                                    *)

Unread(files, read) == {p \in IncludePlaces(files) : p[1] \notin read}

LEMMA PlacesSplit ==
    ASSUME NEW files, IsFiniteSet(DOMAIN files), NEW D, NEW t \in DOMAIN files, t \notin D
    PROVE  /\ Cardinality(Unread(files, D)) \in Nat /\ Cardinality(Unread(files, D \cup {t})) \in Nat
           /\ Cardinality(Unread(files, D)) =
                 Cardinality(Unread(files, D \cup {t})) + Len(IncludeLines(files, t))
<1> DEFINE n == Len(IncludeLines(files, t))
           A == Unread(files, D)
           B == Unread(files, D \cup {t})
           C == {t} \X (1 .. n)
<1>1. n \in Nat /\ IsFiniteSet(IncludePlaces(files)) BY IncludesAreFinite
<1>2. A \subseteq IncludePlaces(files) /\ B \subseteq IncludePlaces(files) BY DEF Unread
<1>3. IsFiniteSet(A) /\ IsFiniteSet(B) BY <1>1, <1>2, FS_Subset
<1>4. IsFiniteSet({t}) /\ Cardinality({t}) = 1 BY FS_Singleton
<1>5. IsFiniteSet(1 .. n) /\ Cardinality(1 .. n) = n
  <2> HIDE DEF n
  <2>1. IsFiniteSet(1 .. n) BY <1>1, FS_Interval
  <2>2. Cardinality(1 .. n) = (IF 1 > n THEN 0 ELSE n - 1 + 1) BY <1>1, FS_Interval
  <2> QED BY <1>1, <2>1, <2>2
<1>6. IsFiniteSet(C) /\ Cardinality(C) = n
  <2>1. IsFiniteSet(C) /\ Cardinality(C) = Cardinality({t}) * Cardinality(1 .. n)
    <3> HIDE DEF n
    <3> QED BY <1>4, <1>5, FS_Product
  <2> QED BY <1>1, <1>4, <1>5, <2>1
<1>7. A = B \cup C /\ B \cap C = {}
  <2>1. ASSUME NEW p PROVE p \in IncludePlaces(files) /\ p[1] = t <=> p \in C
    <3>1. p \in C => p[1] = t OBVIOUS
    <3>2. p \in C => p \in IncludePlaces(files) BY DEF IncludePlaces
    <3>3. ASSUME p \in IncludePlaces(files), p[1] = t PROVE p \in C
      <4>1. PICK f \in DOMAIN files : p \in {f} \X (1 .. Len(IncludeLines(files, f)))
        BY <3>3 DEF IncludePlaces
      <4>2. p[1] = f BY <4>1
      <4> QED BY <3>3, <4>1, <4>2
    <3> QED BY <3>1, <3>2, <3>3
  <2> HIDE DEF C
  <2> QED BY <2>1 DEF Unread
<1> HIDE DEF A, B, C, n
<1>8. Cardinality(A) = Cardinality(B) + Cardinality(C) - Cardinality(B \cap C)
  BY <1>3, <1>6, <1>7, FS_Union
<1>9. Cardinality({}) = 0 BY FS_EmptySet
<1>10. Cardinality(A) \in Nat /\ Cardinality(B) \in Nat BY <1>3, FS_CardinalityType
<1>11. Cardinality(A) = Cardinality(B) + n
  <2>1. Cardinality(B \cap C) = 0 BY <1>7, <1>9
  <2>2. n \in Nat BY <1>1 DEF n
  <2> QED BY <1>6, <1>8, <1>10, <2>1, <2>2
<1> QED BY <1>10, <1>11 DEF A, B, n

Left(files, r) == Len(r.todo) + Cardinality(Unread(files, Documents(r)))

LEMMA MeetLeavesLess ==
    ASSUME NEW files, IsFiniteSet(DOMAIN files), NEW r, Typed(files, r), r.todo # <<>>
    PROVE  /\ Left(files, r) \in Nat /\ Left(files, Meet(files, r)) \in Nat
           /\ Left(files, Meet(files, r)) = Left(files, r) - 1
<1> DEFINE h == Head(r.todo)
           t == h.target
           m == Meet(files, r)
           D == Documents(r)
           open == \E k \in 1 .. Len(h.ancestry) : h.ancestry[k] = t
           read == \E k \in 1 .. Len(r.documents) : r.documents[k] = t
           new == t \in Resolvable(files) /\ ~open /\ ~read
<1>1. /\ Typed(files, m)
      /\ new => /\ m.documents = Append(r.documents, t)
                /\ m.todo = ToMeet(files, t, Append(h.ancestry, t)) \o Tail(r.todo)
      /\ ~new => m.documents = r.documents /\ m.todo = Tail(r.todo)
  BY MeetCases
<1>2. r.todo \in Seq(Item(files)) BY DEF Typed
<1>3. h \in Item(files) /\ Tail(r.todo) \in Seq(Item(files)) /\ Len(r.todo) \in Nat \ {0}
      /\ Len(Tail(r.todo)) = Len(r.todo) - 1
  BY <1>2, QueueFacts
<1>4. h.ancestry \in Seq(DOMAIN files) BY <1>3, ItemFacts
<1>5. read <=> t \in D BY DocumentsAre
<1>6. ASSUME NEW S PROVE Cardinality(Unread(files, S)) \in Nat
  <2>1. IsFiniteSet(IncludePlaces(files)) BY IncludesAreFinite
  <2>2. IsFiniteSet(Unread(files, S)) BY <2>1, FS_Subset DEF Unread
  <2> QED BY <2>2, FS_CardinalityType
<1> HIDE DEF h, m, read, open
<1>7. CASE new
  <2> DEFINE T == ToMeet(files, t, Append(h.ancestry, t))
             rest == Tail(r.todo)
             n == Len(IncludeLines(files, t))
  <2>1. t \in DOMAIN files /\ t \notin D BY <1>5, <1>7, IncludesAreFiles
  <2>2. Append(h.ancestry, t) \in Seq(DOMAIN files) BY <1>4, <2>1
  <2>3. T \in Seq(Item(files)) /\ Len(T) = n
    <3>1. T \in Seq(Item(files)) BY <2>1, <2>2, ToMeetItems
    <3>2. ASSUME NEW p \in DOMAIN files, NEW a \in Seq(DOMAIN files)
          PROVE  Len(ToMeet(files, p, a)) = Len(IncludeLines(files, p))
      BY ToMeetItems
    <3> QED BY <2>1, <2>2, <3>1, <3>2
  <2>4. m.todo = T \o rest /\ m.documents = Append(r.documents, t) BY <1>1, <1>7
  <2>5. Documents(m) = D \cup {t}
    <3>1. r.documents \in Seq(DOMAIN files) BY DEF Typed
    <3>2. /\ Len(r.documents) \in Nat /\ Len(m.documents) = Len(r.documents) + 1
          /\ m.documents[Len(r.documents) + 1] = t
          /\ \A k \in 1 .. Len(r.documents) : m.documents[k] = r.documents[k]
      BY <2>1, <2>4, <3>1
    <3>3. /\ Documents(m) = {m.documents[k] : k \in 1 .. Len(m.documents)}
          /\ D = {r.documents[k] : k \in 1 .. Len(r.documents)}
      BY <1>1, DocumentsAre
    <3>4. /\ \A k \in 1 .. Len(m.documents) : k = Len(r.documents) + 1 \/ k \in 1 .. Len(r.documents)
          /\ \A k \in 1 .. Len(r.documents) : k \in 1 .. Len(m.documents)
          /\ Len(r.documents) + 1 \in 1 .. Len(m.documents)
      BY <3>2
    <3> HIDE DEF D
    <3> QED BY <3>2, <3>3, <3>4
  <2>6. Cardinality(Unread(files, D)) = Cardinality(Unread(files, Documents(m))) + n
    BY <2>1, <2>5, PlacesSplit
  <2>7. Len(m.todo) = n + (Len(r.todo) - 1)
    <3>1. rest \in Seq(Item(files)) /\ Len(rest) = Len(r.todo) - 1 BY <1>3
    <3> HIDE DEF T, rest, n
    <3>2. m.todo = T \o rest BY <2>4
    <3>3. Len(T \o rest) = Len(T) + Len(rest) BY <2>3, <3>1
    <3> QED BY <2>3, <3>1, <3>2, <3>3
  <2>8. n \in Nat
    <3> HIDE DEF T, n
    <3>1. Len(T) \in Nat BY <2>3
    <3> QED BY <2>3, <3>1
  <2> HIDE DEF n, T, rest
  <2>9. Cardinality(Unread(files, D)) \in Nat /\ Cardinality(Unread(files, Documents(m))) \in Nat
    BY <1>6
  <2> QED BY <1>3, <2>6, <2>7, <2>8, <2>9 DEF Left, m
<1>8. CASE ~new
  <2>1. Documents(m) = D /\ m.todo = Tail(r.todo) BY <1>1, <1>8 DEF Documents
  <2>2. Cardinality(Unread(files, D)) \in Nat BY <1>6
  <2> QED BY <1>3, <2>1, <2>2 DEF Left, m
<1> QED BY <1>7, <1>8

(* What is known holds in every step, and the last one leaves no line.       *)
LEMMA ReadingMeetsAll ==
    ASSUME NEW files, IsFiniteSet(DOMAIN files), Root \in DOMAIN files
    PROVE  /\ StepsOf(files) \in Nat
           /\ \E r : /\ r[0] = Opening(files)
                     /\ \A n \in 1 .. StepsOf(files) : r[n] = Meet(files, r[n - 1])
                     /\ Reading(files) = r[StepsOf(files)]
                     /\ \A n \in 0 .. StepsOf(files) : \E path : Good(files, r[n], path)
                     /\ r[StepsOf(files)].todo = <<>>
<1> DEFINE N == StepsOf(files)
<1>1. N \in Nat BY IncludesAreFinite
<1>2. PICK r : /\ r[0] = Opening(files)
               /\ \A n \in 1 .. N : r[n] = Meet(files, r[n - 1])
               /\ Reading(files) = r[N]
  BY <1>1, ReadingUnfolds
<1> DEFINE At(n) == /\ \E path : Good(files, r[n], path)
                    /\ r[n].todo = <<>> \/ n + Left(files, r[n]) = N
           S == {n \in Nat : n <= N => At(n)}
<1> HIDE DEF N
<1>3. 0 \in S
  <2>1. Good(files, r[0], <<Root>>) BY <1>2, OpeningIsGood
  <2>2. Left(files, r[0]) = N
    <3> DEFINE T == ToMeet(files, Root, <<Root>>)
    <3>1. r[0].documents = <<Root>> /\ r[0].todo = T BY <1>2 DEF Opening
    <3>2. Documents(r[0]) = {Root} BY <3>1 DEF Documents
    <3>3. <<Root>> \in Seq(DOMAIN files) OBVIOUS
    <3>4. Len(T) = Len(IncludeLines(files, Root)) BY <3>3, ToMeetItems
    <3>5. Cardinality(Unread(files, {})) =
            Cardinality(Unread(files, {} \cup {Root})) + Len(IncludeLines(files, Root))
          /\ Cardinality(Unread(files, {} \cup {Root})) \in Nat
      BY PlacesSplit
    <3>6. Unread(files, {}) = IncludePlaces(files) BY DEF Unread
    <3>7. {} \cup {Root} = {Root} OBVIOUS
    <3>8. Len(IncludeLines(files, Root)) \in Nat BY IncludesAreFinite
    <3> HIDE DEF T
    <3> QED BY <3>1, <3>2, <3>4, <3>5, <3>6, <3>7, <3>8 DEF Left, N, StepsOf
  <2> QED BY <1>1, <2>1, <2>2
<1>4. ASSUME NEW n \in Nat, n \in S PROVE n + 1 \in S
  <2> SUFFICES ASSUME n + 1 <= N PROVE At(n + 1) OBVIOUS
  <2>1. n <= N BY <1>1
  <2>2. PICK path : Good(files, r[n], path) BY <1>4, <2>1
  <2>3. r[n + 1] = Meet(files, r[n])
    <3>1. n + 1 \in 1 .. N /\ (n + 1) - 1 = n BY <1>1
    <3> QED BY <1>2, <3>1
  <2>4. CASE r[n].todo = <<>>
    <3>1. r[n + 1] = r[n] BY <2>3, <2>4 DEF Meet
    <3> QED BY <2>2, <2>4, <3>1
  <2>5. CASE r[n].todo # <<>>
    <3>1. \E q : Good(files, r[n + 1], q) BY <2>2, <2>3, <2>5, MeetKeeps
    <3>2. n + Left(files, r[n]) = N BY <1>4, <2>1, <2>5
    <3>3. Typed(files, r[n]) BY <2>2 DEF Good
    <3>4. /\ Left(files, r[n]) \in Nat /\ Left(files, r[n + 1]) \in Nat
          /\ Left(files, r[n + 1]) = Left(files, r[n]) - 1
      BY <2>3, <2>5, <3>3, MeetLeavesLess
    <3>5. (n + 1) + Left(files, r[n + 1]) = N BY <1>1, <3>2, <3>4
    <3> QED BY <3>1, <3>5
  <2> QED BY <2>4, <2>5
<1>5. \A n \in Nat : n \in S
  <2> HIDE DEF S
  <2> QED BY <1>3, <1>4, SetInduction
<1>6. At(N) BY <1>1, <1>5
<1>7. PICK path : Good(files, r[N], path) BY <1>6
<1>8. Typed(files, r[N]) BY <1>7 DEF Good
<1>9. r[N].todo = <<>>
  <2> SUFFICES ASSUME r[N].todo # <<>> PROVE FALSE OBVIOUS
  <2>1. N + Left(files, r[N]) = N BY <1>6
  <2>2. Left(files, r[N]) \in Nat /\ Left(files, Meet(files, r[N])) \in Nat
        /\ Left(files, Meet(files, r[N])) = Left(files, r[N]) - 1
    BY <1>8, MeetLeavesLess
  <2> QED BY <1>1, <2>1, <2>2
<1>10. \A n \in 0 .. N : \E q : Good(files, r[n], q) BY <1>1, <1>5
<1> QED BY <1>1, <1>2, <1>9, <1>10 DEF N

LEMMA ReadingIsGood ==
    ASSUME NEW files, IsFiniteSet(DOMAIN files), Root \in DOMAIN files
    PROVE  \E q : /\ Good(files, Reading(files), q) /\ Len(q) = 0
                  /\ Reading(files).todo = <<>>
<1> DEFINE N == StepsOf(files)
<1>1. /\ N \in Nat
      /\ \E r : /\ Reading(files) = r[N] /\ r[N].todo = <<>>
                /\ \A n \in 0 .. N : \E path : Good(files, r[n], path)
  BY ReadingMeetsAll
<1>2. PICK path : Good(files, Reading(files), path) /\ Reading(files).todo = <<>>
  <2> HIDE DEF N
  <2> QED BY <1>1
<1>3. 0 \in Nat /\ 0 <= Len(path)
  <2>1. path \in Seq(DOMAIN files) BY <1>2 DEF Good, OnPath
  <2> QED BY <2>1
<1>4. \A k \in 1 .. Len(Reading(files).todo) : Len(Reading(files).todo[k].ancestry) <= 0 BY <1>2
<1> QED BY <1>2, <1>3, <1>4, PopTo

(* SourceSet.read gives the files that the includes of the root reach, each  *)
(* once, and reports a cycle exactly when one of them includes itself,       *)
(* directly or through others.                                               *)
THEOREM ReadingFindsGraph ==
    ASSUME NEW files, IsFiniteSet(DOMAIN files), Root \in DOMAIN files
    PROVE  LET set == Read(files)
               reached == Reachable(files, {Root})
           IN  /\ Documents(set) = reached /\ Len(set.documents) = Cardinality(reached)
               /\ (\E k \in DOMAIN set.errors : set.errors[k].code = "E204")
                     <=> \E f \in reached : f \in Reachable(files, Includes(files, f))
<1> DEFINE set == Read(files)
           reached == Reachable(files, {Root})
           r == Reading(files)
           D == Documents(r)
           n == Len(r.documents)
<1>1. PICK q : Good(files, r, q) /\ Len(q) = 0 /\ r.todo = <<>> BY ReadingIsGood
<1>2. set.documents = r.documents /\ set.errors = r.errors BY DEF Read, SetRead
<1> HIDE DEF set, r
<1>3. /\ Typed(files, r) /\ EachOnce(r) /\ Covered(files, r) /\ ReachedOnly(files, r)
      /\ CyclesExist(files, r) /\ Clear(files, r, q)
  BY <1>1 DEF Good
<1>4. /\ n \in Nat /\ DOMAIN r.documents = 1 .. n
      /\ D = {r.documents[k] : k \in 1 .. n} /\ D \subseteq DOMAIN files
  BY <1>3, DocumentsAre
<1> HIDE DEF n
<1>5. D = reached
  <2>1. \A x, y : ~Waits(r.todo, x, y) BY <1>1 DEF Waits
  <2>2. \A x \in D : Includes(files, x) \subseteq D BY <1>3, <2>1 DEF Covered
  <2>3. reached \subseteq D BY <1>3, <1>4, <2>2, ReachableIsLeast DEF ReachedOnly
  <2> QED BY <1>3, <2>3 DEF ReachedOnly
<1>6. Documents(set) = D BY <1>2 DEF Documents
<1>7. Len(set.documents) = Cardinality(reached)
  <2>1. r.documents \in Bijection(1 .. n, D)
    <3>1. r.documents \in [1 .. n -> D]
      <4>1. r.documents \in Seq(DOMAIN files) BY <1>3 DEF Typed
      <4>2. r.documents = [k \in 1 .. n |-> r.documents[k]] BY <1>4, <4>1
      <4>3. \A k \in 1 .. n : r.documents[k] \in D BY <1>4
      <4> HIDE DEF D
      <4> QED BY <4>2, <4>3
    <3>2. \A i, j \in 1 .. n : r.documents[i] = r.documents[j] => i = j BY <1>3 DEF EachOnce, n
    <3>3. \A d \in D : \E k \in 1 .. n : r.documents[k] = d BY <1>4
    <3> HIDE DEF D
    <3> QED BY <3>1, <3>2, <3>3 DEF Bijection, Injection, Surjection, IsInjective
  <2>2. ExistsBijection(1 .. n, D) BY <2>1 DEF ExistsBijection
  <2>3. IsFiniteSet(1 .. n) BY <1>4, FS_Interval
  <2>4. Cardinality(1 .. n) = (IF 1 > n THEN 0 ELSE n - 1 + 1) BY <1>4, FS_Interval
  <2>5. Cardinality(1 .. n) = n BY <1>4, <2>4
  <2>6. Cardinality(D) = Cardinality(1 .. n) BY <2>2, <2>3, FS_Bijection
  <2> QED BY <1>2, <1>5, <2>5, <2>6 DEF n
<1>8. Cyclic(r) <=> \E f \in reached : OnCycle(files, f)
  <2>1. Cyclic(r) => \E f \in reached : OnCycle(files, f) BY <1>3 DEF CyclesExist
  <2>2. Finished(r, q) = D BY <1>1 DEF Finished
  <2>3. ~Cyclic(r) => \A f \in D : ~OnCycle(files, f) BY <1>3, <2>2 DEF Clear
  <2> QED BY <1>5, <2>1, <2>3
<1>9. (\E k \in DOMAIN set.errors : set.errors[k].code = "E204")
         <=> \E f \in reached : f \in Reachable(files, Includes(files, f))
  BY <1>2, <1>8 DEF Cyclic, OnCycle
<1> HIDE DEF reached
<1>10. Documents(set) = reached /\ Len(set.documents) = Cardinality(reached) BY <1>5, <1>6, <1>7
<1> QED BY <1>9, <1>10 DEF set, reached

-----------------------------------------------------------------------------
(* The files of the set determine how it reads: files beside them are of no  *)
(* concern.                                                                  *)

(* The head of a queue: its ancestors were read, and a file that its line    *)
(* can resolve to is read afterwards.                                        *)
LEMMA MeetReads ==
    ASSUME NEW files, NEW r, NEW path, Good(files, r, path), r.todo # <<>>
    PROVE  /\ Documents(r) \subseteq Documents(Meet(files, r))
           /\ Head(r.todo).target \in Resolvable(files)
                 => Head(r.todo).target \in Documents(Meet(files, r))
<1> DEFINE h == Head(r.todo)
           t == h.target
           m == Meet(files, r)
           open == \E k \in 1 .. Len(h.ancestry) : h.ancestry[k] = t
           read == \E k \in 1 .. Len(r.documents) : r.documents[k] = t
           resolves == t \in Resolvable(files)
<1>1. Typed(files, r) /\ Stacked(r, path) /\ OnPath(files, r, path) BY DEF Good
<1>2. /\ Typed(files, m)
      /\ resolves /\ ~open /\ ~read => m.documents = Append(r.documents, t)
      /\ ~(resolves /\ ~open /\ ~read) => m.documents = r.documents
  BY <1>1, MeetCases
<1>3. r.todo \in Seq(Item(files)) BY <1>1 DEF Typed
<1>4. h \in Item(files) /\ Len(r.todo) \in Nat \ {0} /\ h = r.todo[1] BY <1>3, QueueFacts
<1>5. h.ancestry \in Seq(DOMAIN files) BY <1>4, ItemFacts
<1>6. open => t \in Documents(r)
  <2> SUFFICES ASSUME NEW k \in 1 .. Len(h.ancestry), h.ancestry[k] = t PROVE t \in Documents(r)
    OBVIOUS
  <2>1. 1 \in 1 .. Len(r.todo) BY <1>4
  <2>2. PrefixOf(h.ancestry, path) BY <1>1, <1>4, <2>1 DEF Stacked
  <2>3. path \in Seq(DOMAIN files) BY <1>1 DEF OnPath
  <2> HIDE DEF h
  <2>4. Len(path) \in Nat /\ Len(h.ancestry) \in Nat BY <1>5, <2>3
  <2>5. k \in 1 .. Len(path) /\ h.ancestry[k] = path[k] BY <2>2, <2>4 DEF PrefixOf
  <2> QED BY <1>1, <2>5 DEF OnPath
<1>7. read => t \in Documents(r) BY <1>1, DocumentsAre
<1> HIDE DEF h, m, open, read
<1>8. CASE resolves /\ ~open /\ ~read
  <2>1. t \in DOMAIN files /\ r.documents \in Seq(DOMAIN files)
    BY <1>1, <1>8, IncludesAreFiles DEF Typed
  <2>2. /\ Len(r.documents) \in Nat /\ Len(m.documents) = Len(r.documents) + 1
        /\ m.documents[Len(r.documents) + 1] = t
        /\ \A k \in 1 .. Len(r.documents) : m.documents[k] = r.documents[k]
    BY <1>2, <1>8, <2>1
  <2>3. /\ Documents(m) = {m.documents[k] : k \in 1 .. Len(m.documents)}
        /\ Documents(r) = {r.documents[k] : k \in 1 .. Len(r.documents)}
    BY <1>1, <1>2, DocumentsAre
  <2>4. /\ \A k \in 1 .. Len(r.documents) : k \in 1 .. Len(m.documents)
        /\ Len(r.documents) + 1 \in 1 .. Len(m.documents)
    BY <2>2
  <2>5. Documents(r) \subseteq Documents(m) /\ t \in Documents(m) BY <2>2, <2>3, <2>4
  <2> QED BY <2>5 DEF m, h
<1>9. CASE ~(resolves /\ ~open /\ ~read)
  <2>1. Documents(m) = Documents(r) BY <1>2, <1>9 DEF Documents
  <2>2. resolves => t \in Documents(m) BY <1>6, <1>7, <1>9, <2>1
  <2> QED BY <2>1, <2>2 DEF m, h
<1> QED BY <1>8, <1>9

(* Two directories whose files are the same where the line looks.            *)
LEMMA MeetIsSame ==
    ASSUME NEW f, NEW g, DOMAIN g \subseteq DOMAIN f, \A p \in DOMAIN g : g[p] = f[p], NEW r,
           r.todo # <<>> /\ Head(r.todo).target \in Resolvable(f) => Head(r.todo).target \in DOMAIN g
    PROVE  Meet(f, r) = Meet(g, r)
<1>1. CASE r.todo = <<>> BY <1>1 DEF Meet
<1>2. CASE r.todo # <<>>
  <2> DEFINE h == Head(r.todo)
             t == h.target
             s == Status(f, r.documents, h.ancestry, t)
  <2>1. s = Status(g, r.documents, h.ancestry, t)
    <3>1. t = "" \/ t \in AbsoluteNames \/ t \in OutsideNames \/ (t \notin DOMAIN f <=> t \notin DOMAIN g)
      BY <1>2 DEF Resolvable
    <3> DEFINE open == \E k \in DOMAIN h.ancestry : h.ancestry[k] = t
               read == \E k \in DOMAIN r.documents : r.documents[k] = t
    <3>2. ASSUME NEW files
          PROVE  Status(files, r.documents, h.ancestry, t) =
                    IF t = "" THEN "missing-file-option"
                    ELSE IF t \in AbsoluteNames THEN "unsupported-path"
                    ELSE IF t \in OutsideNames THEN "outside-workspace"
                    ELSE IF t \notin DOMAIN files THEN "missing"
                    ELSE IF open THEN "cycle" ELSE IF read THEN "already-loaded" ELSE "resolved"
      BY DEF Status
    <3> HIDE DEF open, read, h
    <3> QED BY <3>1, <3>2
  <2>2. s = "resolved" => t \in DOMAIN g
    <3>1. t \notin Resolvable(f) => s # "resolved" BY StatusCases
    <3> QED BY <1>2, <3>1
  <2>3. Opened(f, h, s) = Opened(g, h, s)
    <3>1. CASE s = "resolved"
      <4>1. g[t] = f[t] BY <2>2, <3>1
      <4>2. IncludeLines(f, t) = IncludeLines(g, t) BY <4>1 DEF IncludeLines
      <4>3. ASSUME NEW a PROVE ToMeet(f, t, a) = ToMeet(g, t, a) BY <4>2 DEF ToMeet
      <4> QED BY <4>3 DEF Opened
    <3>2. CASE s # "resolved" BY <3>2 DEF Opened
    <3> QED BY <3>1, <3>2
  <2>4. Noted(f, r, h, Tail(r.todo), s) = Noted(g, r, h, Tail(r.todo), s)
    <3> HIDE DEF s, h
    <3> QED BY <2>3 DEF Noted
  <2> QED BY <1>2, <2>1, <2>4 DEF Meet, MeetItem
<1> QED BY <1>1, <1>2

LEMMA ReadAgain ==
    ASSUME NEW f, IsFiniteSet(DOMAIN f), Root \in DOMAIN f
    PROVE  /\ Read(Content(Read(f), f)) = Read(f)
           /\ IsFiniteSet(Documents(Read(f))) /\ Root \in Documents(Read(f))
           /\ Documents(Read(f)) \subseteq DOMAIN f
<1> DEFINE g == Content(Read(f), f)
           N == StepsOf(f)
           M == StepsOf(g)
<1>1. /\ N \in Nat
      /\ \E r : /\ r[0] = Opening(f)
                /\ \A n \in 1 .. N : r[n] = Meet(f, r[n - 1])
                /\ Reading(f) = r[N]
                /\ \A n \in 0 .. N : \E path : Good(f, r[n], path)
                /\ r[N].todo = <<>>
  BY ReadingMeetsAll
<1> HIDE DEF g, N, M
<1>2. PICK r : /\ r[0] = Opening(f)
               /\ \A n \in 1 .. N : r[n] = Meet(f, r[n - 1])
               /\ Reading(f) = r[N]
               /\ \A n \in 0 .. N : \E path : Good(f, r[n], path)
               /\ r[N].todo = <<>>
  BY <1>1
<1>3. Documents(Read(f)) = Documents(r[N]) BY <1>2 DEF Read, SetRead, Documents
<1>4. N \in 0 .. N BY <1>1
<1>5. PICK path : Good(f, r[N], path) BY <1>2, <1>4
<1>6. Documents(r[N]) \subseteq DOMAIN f /\ Root \in Documents(r[N])
  <2>1. Typed(f, r[N]) /\ ReachedOnly(f, r[N]) BY <1>5 DEF Good
  <2> QED BY <2>1, DocumentsAre DEF ReachedOnly
<1>7. IsFiniteSet(Documents(r[N])) BY <1>6, FS_Subset
<1>8. DOMAIN g = Documents(r[N]) /\ \A p \in DOMAIN g : g[p] = f[p] BY <1>3 DEF g, Content
<1>9. /\ M \in Nat
      /\ \E s : /\ s[0] = Opening(g)
                /\ \A n \in 1 .. M : s[n] = Meet(g, s[n - 1])
                /\ Reading(g) = s[M]
                /\ s[M].todo = <<>>
  <2>1. IsFiniteSet(DOMAIN g) /\ Root \in DOMAIN g BY <1>6, <1>7, <1>8
  <2> QED BY <2>1, ReadingMeetsAll DEF M
<1>10. PICK s : /\ s[0] = Opening(g)
                /\ \A n \in 1 .. M : s[n] = Meet(g, s[n - 1])
                /\ Reading(g) = s[M]
                /\ s[M].todo = <<>>
  BY <1>9
(* The documents only grow. *)
<1>11. ASSUME NEW n \in Nat, n + 1 <= N PROVE Documents(r[n]) \subseteq Documents(r[n + 1])
  <2>1. n \in 0 .. N /\ n + 1 \in 1 .. N /\ (n + 1) - 1 = n BY <1>1, <1>11
  <2>2. r[n + 1] = Meet(f, r[n]) BY <1>2, <2>1
  <2>3. PICK p : Good(f, r[n], p) BY <1>2, <2>1
  <2>4. CASE r[n].todo = <<>>
    <3>1. r[n + 1] = r[n] BY <2>2, <2>4 DEF Meet
    <3> QED BY <3>1
  <2>5. CASE r[n].todo # <<>> BY <2>2, <2>3, <2>5, MeetReads
  <2> QED BY <2>4, <2>5
<1>12. ASSUME NEW n \in 0 .. N PROVE Documents(r[n]) \subseteq Documents(r[N])
  <2> DEFINE S == {d \in Nat : d <= N => Documents(r[N - d]) \subseteq Documents(r[N])}
  <2>1. 0 \in S
    <3>1. N - 0 = N BY <1>1
    <3> QED BY <3>1
  <2>2. ASSUME NEW d \in Nat, d \in S PROVE d + 1 \in S
    <3> SUFFICES ASSUME d + 1 <= N PROVE Documents(r[N - (d + 1)]) \subseteq Documents(r[N]) OBVIOUS
    <3>1. N - (d + 1) \in Nat /\ (N - (d + 1)) + 1 = N - d /\ N - d <= N /\ d <= N BY <1>1
    <3>2. Documents(r[N - (d + 1)]) \subseteq Documents(r[N - d]) BY <1>11, <3>1
    <3> QED BY <2>2, <3>1, <3>2
  <2>3. \A d \in Nat : d \in S
    <3> HIDE DEF S
    <3> QED BY <2>1, <2>2, SetInduction
  <2>4. N - n \in Nat /\ N - n <= N /\ N - (N - n) = n BY <1>1
  <2>5. N - n \in S BY <2>3, <2>4
  <2> QED BY <2>4, <2>5
(* The two readings go side by side, until nothing waits. *)
<1>13. r[0] = s[0]
  <2>1. f[Root] = g[Root] BY <1>6, <1>8
  <2>2. IncludeLines(f, Root) = IncludeLines(g, Root) BY <2>1 DEF IncludeLines
  <2>3. ToMeet(f, Root, <<Root>>) = ToMeet(g, Root, <<Root>>) BY <2>2 DEF ToMeet
  <2> QED BY <1>2, <1>10, <2>3 DEF Opening
<1>14. M <= N
  <2>1. IncludePlaces(g) \subseteq IncludePlaces(f)
    <3>1. ASSUME NEW p \in DOMAIN g
          PROVE  p \in DOMAIN f /\ IncludeLines(g, p) = IncludeLines(f, p)
      BY <1>6, <1>8 DEF IncludeLines
    <3> QED BY <3>1 DEF IncludePlaces
  <2>2. IsFiniteSet(IncludePlaces(f)) BY IncludesAreFinite
  <2>3. Cardinality(IncludePlaces(g)) <= Cardinality(IncludePlaces(f)) BY <2>1, <2>2, FS_Subset
  <2> QED BY <2>3 DEF M, N, StepsOf
<1>15. ASSUME NEW n \in 0 .. M PROVE r[n] = s[n]
  <2> DEFINE S == {d \in Nat : d <= M => r[d] = s[d]}
  <2>1. 0 \in S BY <1>13
  <2>2. ASSUME NEW d \in Nat, d \in S PROVE d + 1 \in S
    <3> SUFFICES ASSUME d + 1 <= M PROVE r[d + 1] = s[d + 1] OBVIOUS
    <3>1. /\ d + 1 \in 1 .. M /\ d + 1 \in 1 .. N /\ (d + 1) - 1 = d /\ d <= M
          /\ d \in 0 .. N /\ d + 1 \in 0 .. N
      BY <1>1, <1>9, <1>14
    <3>2. r[d] = s[d] BY <2>2, <3>1
    <3>3. r[d + 1] = Meet(f, r[d]) BY <1>2, <3>1
    <3>4. s[d + 1] = Meet(g, s[d]) BY <1>10, <3>1
    <3>5. PICK p : Good(f, r[d], p) BY <1>2, <3>1
    <3>6. ASSUME r[d].todo # <<>>, Head(r[d].todo).target \in Resolvable(f)
          PROVE  Head(r[d].todo).target \in DOMAIN g
      <4>1. Head(r[d].todo).target \in Documents(r[d + 1]) BY <3>3, <3>5, <3>6, MeetReads
      <4> QED BY <1>8, <1>12, <3>1, <4>1
    <3>7. Meet(f, r[d]) = Meet(g, r[d]) BY <1>6, <1>8, <3>6, MeetIsSame
    <3> QED BY <3>2, <3>3, <3>4, <3>7
  <2>3. \A d \in Nat : d \in S
    <3> HIDE DEF S
    <3> QED BY <2>1, <2>2, SetInduction
  <2>4. n \in Nat /\ n <= M BY <1>9
  <2> QED BY <2>3, <2>4
<1>16. r[N] = r[M]
  <2> DEFINE S == {d \in Nat : M + d <= N => r[M + d] = r[M]}
  <2>0. M \in 0 .. M BY <1>9
  <2>1. r[M].todo = <<>> BY <1>10, <1>15, <2>0
  <2>2. 0 \in S
    <3>1. M + 0 = M BY <1>9
    <3> QED BY <3>1
  <2>3. ASSUME NEW d \in Nat, d \in S PROVE d + 1 \in S
    <3> SUFFICES ASSUME M + (d + 1) <= N PROVE r[M + (d + 1)] = r[M] OBVIOUS
    <3>1. M + (d + 1) \in 1 .. N /\ (M + (d + 1)) - 1 = M + d /\ M + d <= N BY <1>1, <1>9
    <3>2. r[M + (d + 1)] = Meet(f, r[M + d]) BY <1>2, <3>1
    <3>3. r[M + d] = r[M] BY <2>3, <3>1
    <3> QED BY <2>1, <3>2, <3>3 DEF Meet
  <2>4. \A d \in Nat : d \in S
    <3> HIDE DEF S
    <3> QED BY <2>2, <2>3, SetInduction
  <2>5. N - M \in Nat /\ M + (N - M) = N /\ N <= N BY <1>1, <1>9, <1>14
  <2>6. N - M \in S BY <2>4, <2>5
  <2> QED BY <2>5, <2>6
<1>17. Reading(g) = Reading(f)
  <2>1. M \in 0 .. M BY <1>9
  <2> QED BY <1>2, <1>10, <1>15, <1>16, <2>1
<1>18. Read(g) = Read(f) BY <1>17 DEF Read
<1> QED BY <1>3, <1>6, <1>7, <1>18 DEF g

(* Two decks whose source sets have the same files with the same text read   *)
(* the same, whatever stands beside them (SourceSet.read and the digest of a *)
(* plan, SourceSet.digest_with).                                             *)
THEOREM ContentDeterminesSet ==
    ASSUME NEW f, NEW g, IsFiniteSet(DOMAIN f), Root \in DOMAIN f,
           IsFiniteSet(DOMAIN g), Root \in DOMAIN g,
           Content(Read(f), f) = Content(Read(g), g)
    PROVE  Read(f) = Read(g)
<1>1. Read(Content(Read(f), f)) = Read(f) BY ReadAgain
<1>2. Read(Content(Read(g), g)) = Read(g) BY ReadAgain
<1> QED BY <1>1, <1>2
=============================================================================
