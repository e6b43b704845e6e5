----------------------------- MODULE SourceSets -----------------------------
(***************************************************************************)
(* The source set of a deck (source_set.py): the root, the include files   *)
(* that a depth-first reading of the *INCLUDE commands reaches, the graph  *)
(* of those references, and the inline expansion that the semantic index   *)
(* is built from.                                                          *)
(*                                                                         *)
(* files is a function from file names to their text.  All names are       *)
(* relative to the directory of the root, which is where the program       *)
(* resolves every include, nested ones too.                                *)
(***************************************************************************)
EXTENDS Documents

CONSTANTS Root,          \* the input deck
          OutsideNames,  \* spellings that resolve outside the workspace
          AbsoluteNames  \* spellings of an absolute, drive or quoted form

\* _include_spelling: the last FILE option of an *INCLUDE line, "" for none.
IsInclude(line) == FirstField(line) = "*INCL"
Spelling(line) == Option(line, "FILE")

\* SourceSet._candidate_lines: of an include file the lines up to its first
\* *STOP, of the root the lines inside its CLUSTERS blocks with their END.
UpTo(lines, stops) == IF stops = <<>> THEN lines ELSE SubSeq(lines, 1, stops[1])
InsideBlocks(lines, spans) ==
    SelectSeq(lines, LAMBDA line : \E k \in DOMAIN spans :
        /\ line.number > spans[k].start_line
        /\ spans[k].end_line = 0 \/ line.number <= spans[k].end_line)
CandidatesAmong(lines, isRoot) ==
    IF isRoot THEN InsideBlocks(lines, SelectSeq(Blocks(lines), LAMBDA b : b.name = "CLUSTERS"))
    ELSE UpTo(lines, SelectSeq(Indices(lines), LAMBDA n : FirstField(lines[n]) = "*STOP"))
CandidateLines(raw, isRoot) == CandidatesAmong(Lines(raw), isRoot)

-----------------------------------------------------------------------------
\* SourceSet._load: documents in the order of reading and one reference per
\* *INCLUDE line met.

(* slip: a file that was read is not looked for among the ancestors. *)
StatusOfAnyRead(files, loaded, ancestry, spelling) ==
    IF spelling = "" THEN "missing-file-option"
    ELSE IF spelling \in AbsoluteNames THEN "unsupported-path"
    ELSE IF spelling \in OutsideNames THEN "outside-workspace"
    ELSE IF spelling \notin DOMAIN files THEN "missing"
    ELSE IF \E k \in DOMAIN loaded : loaded[k] = spelling THEN "already-loaded"
    ELSE "resolved"

\* The outcome of one *INCLUDE line, tested in the order of the code.
Status(files, loaded, ancestry, spelling) ==
    IF spelling = "" THEN "missing-file-option"
    ELSE IF spelling \in AbsoluteNames THEN "unsupported-path"
    ELSE IF spelling \in OutsideNames THEN "outside-workspace"
    ELSE IF spelling \notin DOMAIN files THEN "missing"
    ELSE IF \E k \in DOMAIN ancestry : ancestry[k] = spelling THEN "cycle"
    ELSE IF \E k \in DOMAIN loaded : loaded[k] = spelling THEN "already-loaded"
    ELSE "resolved"

\* What _load has done and what it has left: the documents, references and
\* diagnostics so far, and the *INCLUDE lines still to be met, those of the
\* file that is being read before those of the files that included it.  Each
\* line comes with the files that are being read, from the root to its own.
IncludeLines(files, path) == SelectSeq(CandidateLines(files[path], path = Root), IsInclude)
ToMeet(files, path, ancestry) ==
    LET lines == IncludeLines(files, path)
    IN  [k \in 1 .. Len(lines) |-> [source |-> path, line |-> lines[k].number,
                                   target |-> Spelling(lines[k]), ancestry |-> ancestry]]

GraphCode == [s \in {"missing-file-option", "unsupported-path", "outside-workspace",
                     "missing", "cycle"} |->
    CASE s = "missing-file-option" -> "E200" [] s = "unsupported-path" -> "E201"
      [] s = "outside-workspace" -> "E202" [] s = "missing" -> "E203" [] s = "cycle" -> "E204"]

\* One *INCLUDE line is met; a file that it resolves to is read before the rest.
Opened(files, item, status) ==
    IF status = "resolved" THEN ToMeet(files, item.target, Append(item.ancestry, item.target)) ELSE <<>>
Noted(files, reading, item, rest, status) ==
    [documents |-> IF status = "resolved" THEN Append(reading.documents, item.target)
                   ELSE reading.documents,
     references |-> Append(reading.references, [source |-> item.source, line |-> item.line,
                                                target |-> item.target, status |-> status]),
     errors |-> IF status \in DOMAIN GraphCode
                THEN Append(reading.errors, [code |-> GraphCode[status], file |-> item.source,
                                             line |-> item.line])
                ELSE reading.errors,
     todo |-> Opened(files, item, status) \o rest]
MeetItem(files, reading, item, rest) ==
    Noted(files, reading, item, rest, Status(files, reading.documents, item.ancestry, item.target))
Meet(files, reading) ==
    IF reading.todo = <<>> THEN reading
    ELSE MeetItem(files, reading, Head(reading.todo), Tail(reading.todo))

\* SourceSet.read: the root is read, and every line is met once at most.
IncludePlaces(files) == UNION {{f} \X (1 .. Len(IncludeLines(files, f))) : f \in DOMAIN files}
Opening(files) == [documents |-> <<Root>>, references |-> <<>>, errors |-> <<>>,
                   todo |-> ToMeet(files, Root, <<Root>>)]
Reading(files) ==
    Over(LAMBDA reading, n : Meet(files, reading), Opening(files), [n \in 1 .. Cardinality(IncludePlaces(files)) |-> n])
SetRead(reading) == [documents |-> reading.documents, references |-> reading.references,
                     errors |-> reading.errors]
Read(files) == SetRead(Reading(files))

\* The files of a set: what SourceSet.digest_with takes the digest of, with
\* the text of some of them replaced.
Documents(set) == {set.documents[k] : k \in DOMAIN set.documents}
Content(set, files) == [f \in Documents(set) |-> files[f]]

\* The graph diagnostics, in the order of reading.
GraphErrors(set) == set.errors

-----------------------------------------------------------------------------
\* SourceSet._semantic_sources: the lines in the order the finite-element
\* reader meets them, in segments that an expanded include separates.

\* The targets that are expanded, by the place of the reference.  The places
\* are those of the files as they were read, whatever text replaces them.
Targets(set) ==
    LET usable == {set.references[k] : k \in DOMAIN set.references}
    IN  {r \in usable : r.status \in {"resolved", "already-loaded"}}

\* The lines of one segment, each with its fields and the file it stands in.
Tagged(path, lines) ==
    Itemised([k \in DOMAIN lines |-> [number |-> lines[k].number, text |-> lines[k].text,
                                    values |-> Values(lines[k]), file |-> path]])

\* lines are the candidate lines of each file.
Expanded(set, lines) ==
    LET expand[path \in Documents(set), ancestry \in SUBSET Documents(set)] ==
            LET Into(line) == {r.target : r \in {t \in Targets(set) :
                                 t.source = path /\ t.line = line.number /\ t.target \notin ancestry}}
                OnLine(x, line) ==
                    IF Into(line) = {} THEN [x EXCEPT !.segment = Append(@, line)]
                    ELSE LET target == CHOOSE t \in Into(line) : TRUE
                         IN  [done |-> x.done \o <<Tagged(path, Append(x.segment, line))>>
                                              \o expand[target, ancestry \cup {target}],
                              segment |-> <<>>]
                last == Over(OnLine, [done |-> <<>>, segment |-> <<>>], lines[path])
            IN  IF last.segment = <<>> THEN last.done ELSE Append(last.done, Tagged(path, last.segment))
    IN  expand[Root, {Root}]
SemanticSources(set, files) ==
    Expanded(set, [f \in Documents(set) |-> CandidateLines(files[f], f = Root)])

-----------------------------------------------------------------------------
\* The graph of the includes, as a reference for the reading: the files that a
\* file includes and can include, and those that are reached from some files.
Resolvable(files) == DOMAIN files \ ({""} \cup OutsideNames \cup AbsoluteNames)
Includes(files, path) ==
    LET lines == IncludeLines(files, path)
    IN  {Spelling(lines[k]) : k \in 1 .. Len(lines)} \cap Resolvable(files)
Closed(files, next) == {S \in SUBSET DOMAIN files : \A f \in S : next[f] \subseteq S}
ReachedBy(files, next, from) ==
    {f \in DOMAIN files : \A S \in Closed(files, next) : from \subseteq S => f \in S}
Reachable(files, from) == ReachedBy(files, [f \in DOMAIN files |-> Includes(files, f)], from)
=============================================================================
