----------------------------- MODULE Documents -----------------------------
(***************************************************************************)
(* Lossless source documents (document.py) and the exact patches that are  *)
(* made to them (change.py).                                               *)
(*                                                                         *)
(* A file is a sequence of tokens.  A token stands for the bytes of one    *)
(* command word, option word, name, number, comma, equals sign or line     *)
(* end, so an offset counts tokens where the code counts bytes; an edit    *)
(* replaces the tokens between two offsets, exactly as the code replaces   *)
(* bytes.  Letter case, blanks and the spelling of line ends are not       *)
(* represented: the parser ignores them and the writer keeps them.         *)
(***************************************************************************)
EXTENDS Integers, Sequences, FiniteSets, TLC

Newline == "\n"
Comma == ","
Equals == "="
Comment == "**"

\* The labels that the small decks use.  Spell and Value convert between a
\* number and its token, as str() and int() do.
Numerals == <<"1", "2", "3", "4", "5", "6", "7", "8", "9">>
NumeralSet == {Numerals[n] : n \in DOMAIN Numerals}
Spell(n) == Numerals[n]
Value == [t \in NumeralSet |-> CHOOSE n \in DOMAIN Numerals : Numerals[n] = t]

\* The command words of the CLUSTERS grammar, by their five-letter prefix, and
\* the constructs of the BOUNDARY block that the small decks use.
Constructs == {"*COND", "*SEQU", "*CONV", "*G-CO"}
Commands == Constructs \cup {"*TYPE", "*NAME", "*DIME", "*INCL", "*NODE", "*ELEM", "*NGEN", "*NCOP",
             "*ELGE", "*NSET", "*ELSE", "*SECT", "*BOUN", "*LOAD", "*SELE", "*SHIF",
             "*BUIL", "*STOP"}

\* The top-level blocks that the small decks use.
BlockNames == {"BOUNDARY", "CLUSTERS"}

Indices(s) == [i \in 1 .. Len(s) |-> i]
ItemsOf(s) == {s[k] : k \in DOMAIN s}

\* The sequence f, written so that TLC evaluates each of its items once.
Itemised(f) == <<>> \o f

\* The left fold of Op over the items of s, linear in the length of s. The choice
\* from a singleton has TLC evaluate a step's state before the step itself.
Over(Op(_, _), base, s) ==
    LET f[i \in 0 .. Len(s)] ==
            IF i = 0 THEN base ELSE CHOOSE next \in {Op(x, s[i]) : x \in {f[i - 1]}} : TRUE
    IN  f[Len(s)]

-----------------------------------------------------------------------------
\* Lines, blocks and diagnostics of one document.

\* SourceDocument._make_lines: the lines with their number, the offsets
\* [start, end) that include the line end, and the text without it.
LinesEndingAt(raw, ends) ==
    [n \in 1 .. Len(ends) - 1 |->
        [number |-> n, start |-> ends[n], end |-> ends[n + 1],
         text |-> SubSeq(raw, ends[n] + 1,
                         IF raw[ends[n + 1]] = Newline THEN ends[n + 1] - 1 ELSE ends[n + 1])]]
Lines(raw) ==
    Itemised(LinesEndingAt(raw, <<0>> \o SelectSeq(Indices(raw), LAMBDA i : raw[i] = Newline \/ i = Len(raw))))

\* SourceLine.first_field.
FirstField(line) == IF line.text = <<>> THEN "" ELSE line.text[1]

\* A line that starts a command: it begins with "*" but is no comment.
IsCommand(line) == FirstField(line) \in Commands

\* A line that carries data: not empty and no comment.
IsRecord(line) == line.text # <<>> /\ FirstField(line) # Comment

\* The comma-separated fields of a line, between the commas and the ends of
\* its text: their offsets, and their tokens.
Cuts(text) == <<0>> \o SelectSeq(Indices(text), LAMBDA i : text[i] = Comma) \o <<Len(text) + 1>>
SpansBetween(from, cuts) ==
    [k \in 1 .. Len(cuts) - 1 |-> [start |-> from + cuts[k], end |-> from + cuts[k + 1] - 1]]
FieldSpans(line) == SpansBetween(line.start, Cuts(line.text))
TextsBetween(text, cuts) ==
    [k \in 1 .. Len(cuts) - 1 |-> SubSeq(text, cuts[k] + 1, cuts[k + 1] - 1)]
Fields(line) == TextsBetween(line.text, Cuts(line.text))

\* The fields of a data record, each a single token ("" for a malformed one).
Single(fields) ==
    [k \in DOMAIN fields |-> IF Len(fields[k]) = 1 THEN fields[k][1] ELSE ""]
Values(line) == Itemised(Single(Fields(line)))

\* _options: the value of an option of a command line, "" when it is absent or
\* a flag.  A repeated option takes its last value.
Options(line, name) ==
    SelectSeq(Tail(Fields(line)), LAMBDA f : f # <<>> /\ f[1] = name)
LastOf(fields) == IF fields = <<>> THEN <<>> ELSE SubSeq(fields[Len(fields)], 3, Len(fields[Len(fields)]))
OnlyToken(value) == IF value = <<>> THEN "" ELSE value[1]
Option(line, name) == OnlyToken(LastOf(SelectSeq(Options(line, name), LAMBDA f : Len(f) = 3)))
HasFlag(line, name) == Options(line, name) # <<>>

\* _record_options: the tokens of an option's value on a data line.
RecordOption(line, name) ==
    LastOf(SelectSeq(Fields(line), LAMBDA f : Len(f) > 2 /\ f[1] = name /\ f[2] = Equals))

\* SourceDocument.blocks: a block runs from its name to the first line that
\* ends it before the next block starts; end_line 0 stands for none.
EndOf(ends) == IF ends = <<>> THEN 0 ELSE ends[1]
BlockEnd(lines, from, to) ==
    EndOf(SelectSeq(Indices(lines), LAMBDA n :
              n > from /\ n < to /\ lines[n].text = <<"END " \o FirstField(lines[from])>>))
BlocksFrom(lines, starts) ==
    [b \in 1 .. Len(starts) - 1 |->
        [name |-> FirstField(lines[starts[b]]), start_line |-> starts[b],
         end_line |-> BlockEnd(lines, starts[b], starts[b + 1])]]
Blocks(lines) ==
    BlocksFrom(lines, Append(SelectSeq(Indices(lines), LAMBDA n : FirstField(lines[n]) \in BlockNames),
                             Len(lines) + 1))

\* SourceDocument.diagnostics: the errors of the root document (a required
\* block is missing); warnings do not enter a validation's errors.
DocumentErrors(lines) ==
    IF \E n \in DOMAIN lines : FirstField(lines[n]) = "CLUSTERS"
    THEN <<>> ELSE <<[code |-> "E100", file |-> "", line |-> 0]>>

-----------------------------------------------------------------------------
\* Exact patches: [file, start, end, old, new].  An operator that may refuse
\* returns a set: empty when it refuses, else the one result.

Splice(raw, patch) ==
    SubSeq(raw, 1, patch.start) \o patch.new \o SubSeq(raw, patch.end + 1, Len(raw))

\* _patched_bytes: the old text must still be there.
Matches(raw, patch) ==
    /\ 0 <= patch.start /\ patch.start <= patch.end /\ patch.end <= Len(raw)
    /\ SubSeq(raw, patch.start + 1, patch.end) = patch.old

\* _patched_bytes_many: sorted by (start, end), none may start before the one
\* before it ended, all are matched against the original text and applied
\* from the back.
Ordered(patches) ==
    SortSeq(patches, LAMBDA p, q : p.start < q.start \/ (p.start = q.start /\ p.end < q.end))
Disjoint(sorted) ==
    \A k \in 1 .. Len(sorted) - 1 : sorted[k + 1].start >= sorted[k].end
PatchedInOrder(raw, sorted) ==
    IF Disjoint(sorted) /\ \A k \in DOMAIN sorted : Matches(raw, sorted[k])
    THEN {Over(Splice, raw, [k \in DOMAIN sorted |-> sorted[Len(sorted) + 1 - k]])} ELSE {}
(* slip: the patches are kept by their offset, so that one of two is lost. *)
PatchedByOffset(raw, patches) ==
    LET Last(k) == \A j \in k + 1 .. Len(patches) : patches[j].start # patches[k].start
        kept == SelectSeq(Indices(patches), Last)
    IN  PatchedInOrder(raw, Ordered([n \in DOMAIN kept |-> patches[kept[n]]]))
PatchedMany(raw, patches) == PatchedInOrder(raw, Ordered(patches))

\* _patched_source_files: the patches of each file that has one.
PatchesFor(patches, file) == SelectSeq(patches, LAMBDA p : p.file = file)
PatchedFiles(files, patches) ==
    LET touched == {patches[k].file : k \in DOMAIN patches}
        results == [f \in touched |-> PatchedMany(files[f], PatchesFor(patches, f))]
    IN  IF touched \subseteq DOMAIN files /\ \A f \in touched : results[f] # {}
        THEN {[f \in DOMAIN files |->
                  IF f \in touched THEN CHOOSE r \in results[f] : TRUE ELSE files[f]]}
        ELSE {}
=============================================================================
