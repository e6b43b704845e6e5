--------------------------- MODULE DocumentsProofs --------------------------
(***************************************************************************)
(* What exact patches do to a text, for texts of any length over any       *)
(* tokens and for any number of patches.                                   *)
(***************************************************************************)
EXTENDS Documents, WellFoundedInduction, TLAPS

-----------------------------------------------------------------------------
(* Pieces of a text *)

(* The tokens between two offsets.                                           *)
Piece(s, a, b) == SubSeq(s, a + 1, b)

(* The text with the tokens between two offsets replaced.                    *)
Exchanged(raw, a, b, new) == SubSeq(raw, 1, a) \o new \o SubSeq(raw, b + 1, Len(raw))

LEMMA SameText ==
    ASSUME NEW T, NEW s \in Seq(T), NEW t \in Seq(T), Len(s) = Len(t),
           \A i \in 1 .. Len(s) : s[i] = t[i]
    PROVE  s = t
OBVIOUS

LEMMA PieceAt ==
    ASSUME NEW T, NEW s \in Seq(T), NEW a \in Nat, NEW b \in Nat, a <= b, b <= Len(s)
    PROVE  /\ SubSeq(s, a + 1, b) \in Seq(T) /\ Len(SubSeq(s, a + 1, b)) = b - a
           /\ \A i \in 1 .. b - a : SubSeq(s, a + 1, b)[i] = s[a + i]
OBVIOUS

LEMMA JoinedAt ==
    ASSUME NEW T, NEW s \in Seq(T), NEW t \in Seq(T)
    PROVE  /\ s \o t \in Seq(T) /\ Len(s \o t) = Len(s) + Len(t)
           /\ \A i \in 1 .. Len(s) + Len(t) :
                  (s \o t)[i] = IF i <= Len(s) THEN s[i] ELSE t[i - Len(s)]
OBVIOUS

(* Equal pieces, wherever each lies.                                         *)
LEMMA SamePiece ==
    ASSUME NEW T, NEW s \in Seq(T), NEW t \in Seq(T),
           NEW a \in Nat, NEW b \in Nat, NEW c \in Nat, NEW d \in Nat,
           a <= b, b <= Len(s), c <= d, d <= Len(t), b - a = d - c,
           \A i \in 1 .. b - a : s[a + i] = t[c + i]
    PROVE  SubSeq(s, a + 1, b) = SubSeq(t, c + 1, d)
<1> DEFINE u == SubSeq(s, a + 1, b)
           v == SubSeq(t, c + 1, d)
<1>1. u \in Seq(T) /\ Len(u) = b - a /\ \A i \in 1 .. b - a : u[i] = s[a + i] OBVIOUS
<1>2. v \in Seq(T) /\ Len(v) = d - c /\ \A i \in 1 .. d - c : v[i] = t[c + i] OBVIOUS
<1> HIDE DEF u, v
<1>3. u = v BY <1>1, <1>2, SameText
<1> QED BY <1>3 DEF u, v

LEMMA ReplacedAt ==
    ASSUME NEW T, NEW raw \in Seq(T), NEW new \in Seq(T), NEW a \in Nat, NEW b \in Nat,
           a <= b, b <= Len(raw)
    PROVE  LET out == Exchanged(raw, a, b, new)
               by == Len(new) - (b - a)
           IN  /\ out \in Seq(T)
               /\ Len(out) = Len(raw) + by
               /\ \A i \in 1 .. Len(out) :
                      out[i] = IF i <= a THEN raw[i]
                               ELSE IF i <= a + Len(new) THEN new[i - a] ELSE raw[i - by]
<1> DEFINE front == SubSeq(raw, 1, a)
           back == SubSeq(raw, b + 1, Len(raw))
           head == front \o new
           by == Len(new) - (b - a)
<1>1. front \in Seq(T) /\ Len(front) = a /\ \A i \in 1 .. a : front[i] = raw[i] OBVIOUS
<1>2. back \in Seq(T) /\ Len(back) = Len(raw) - b /\ \A i \in 1 .. Len(raw) - b : back[i] = raw[b + i]
  OBVIOUS
<1>3. Exchanged(raw, a, b, new) = head \o back BY DEF Exchanged
<1> HIDE DEF front, back
<1>4. /\ head \in Seq(T) /\ Len(head) = a + Len(new)
      /\ \A i \in 1 .. a + Len(new) : head[i] = IF i <= a THEN front[i] ELSE new[i - a]
  BY <1>1, JoinedAt
<1> HIDE DEF head
<1>5. /\ head \o back \in Seq(T) /\ Len(head \o back) = a + Len(new) + (Len(raw) - b)
      /\ \A i \in 1 .. a + Len(new) + (Len(raw) - b) :
             (head \o back)[i] = IF i <= a + Len(new) THEN head[i] ELSE back[i - (a + Len(new))]
  <2>1. Len(head) = a + Len(new) /\ Len(back) = Len(raw) - b BY <1>2, <1>4
  <2>2. /\ head \o back \in Seq(T) /\ Len(head \o back) = Len(head) + Len(back)
        /\ \A i \in 1 .. Len(head) + Len(back) :
               (head \o back)[i] = IF i <= Len(head) THEN head[i] ELSE back[i - Len(head)]
    <3>1. head \in Seq(T) /\ back \in Seq(T) BY <1>2, <1>4
    <3> HIDE DEF by
    <3> QED BY <3>1
  <2> QED BY <2>1, <2>2
<1>6. Len(raw) \in Nat /\ Len(new) \in Nat OBVIOUS
<1>7. ASSUME NEW i \in 1 .. Len(raw) + by
      PROVE  (head \o back)[i] = IF i <= a THEN raw[i]
                                 ELSE IF i <= a + Len(new) THEN new[i - a] ELSE raw[i - by]
  <2>1. i \in 1 .. a + Len(new) + (Len(raw) - b) BY <1>6
  <2>2. CASE i <= a
    <3>1. i \in 1 .. a /\ i \in 1 .. a + Len(new) /\ i <= a + Len(new) BY <1>6, <2>1, <2>2
    <3> QED BY <1>1, <1>4, <1>5, <2>1, <2>2, <3>1
  <2>3. CASE ~(i <= a) /\ i <= a + Len(new)
    <3>1. i \in 1 .. a + Len(new) BY <1>6, <2>1, <2>3
    <3> QED BY <1>4, <1>5, <2>1, <2>3, <3>1
  <2>4. CASE ~(i <= a + Len(new))
    <3>1. /\ i - (a + Len(new)) \in 1 .. Len(raw) - b /\ b + (i - (a + Len(new))) = i - by
          /\ ~(i <= a)
      BY <1>6, <2>1, <2>4
    <3>2. (head \o back)[i] = back[i - (a + Len(new))] BY <1>5, <2>1, <2>4
    <3>3. back[i - (a + Len(new))] = raw[b + (i - (a + Len(new)))] BY <1>2, <3>1
    <3> HIDE DEF by
    <3> QED BY <2>4, <3>1, <3>2, <3>3
  <2> QED BY <2>2, <2>3, <2>4
<1>8. Len(head \o back) = Len(raw) + by BY <1>5, <1>6
<1> QED BY <1>3, <1>5, <1>7, <1>8

-----------------------------------------------------------------------------
(* Two replacements *)

(* What was replaced can be put back.                                        *)
LEMMA PutBack ==
    ASSUME NEW T, NEW raw \in Seq(T), NEW new \in Seq(T), NEW a \in Nat, NEW b \in Nat,
           a <= b, b <= Len(raw)
    PROVE  LET out == Exchanged(raw, a, b, new)
           IN  /\ a + Len(new) <= Len(out)
               /\ SubSeq(out, a + 1, a + Len(new)) = new
               /\ Exchanged(out, a, a + Len(new), SubSeq(raw, a + 1, b)) = raw
<1> DEFINE out == Exchanged(raw, a, b, new)
           old == SubSeq(raw, a + 1, b)
           c == a + Len(new)
           by == Len(new) - (b - a)
           back == Exchanged(out, a, c, old)
<1>1. /\ out \in Seq(T) /\ Len(out) = Len(raw) + by
      /\ \A i \in 1 .. Len(out) :
             out[i] = IF i <= a THEN raw[i] ELSE IF i <= c THEN new[i - a] ELSE raw[i - by]
  BY ReplacedAt
<1>2. old \in Seq(T) /\ Len(old) = b - a /\ \A i \in 1 .. b - a : old[i] = raw[a + i] OBVIOUS
<1>3. Len(raw) \in Nat /\ Len(new) \in Nat OBVIOUS
<1>4. c \in Nat /\ a <= c /\ c = a + Len(new) /\ by = c - b /\ by \in Int BY <1>3
<1>5. c <= Len(out) /\ Len(out) \in Nat BY <1>1, <1>3
<1> HIDE DEF out, old, c, by
<1>6. SubSeq(out, a + 1, c) = new
  <2>1. /\ SubSeq(out, a + 1, c) \in Seq(T) /\ Len(SubSeq(out, a + 1, c)) = c - a
        /\ \A i \in 1 .. c - a : SubSeq(out, a + 1, c)[i] = out[a + i]
    BY <1>1, <1>4, <1>5
  <2>2. c - a = Len(new) BY <1>3, <1>4
  <2>3. ASSUME NEW i \in 1 .. Len(new) PROVE out[a + i] = new[i]
    <3>1. a + i \in 1 .. Len(out) /\ ~(a + i <= a) /\ a + i <= c /\ (a + i) - a = i
      BY <1>3, <1>4, <1>5
    <3> QED BY <1>1, <3>1
  <2> QED BY <2>1, <2>2, <2>3, SameText
<1>7. /\ back \in Seq(T) /\ Len(back) = Len(out) + (Len(old) - (c - a))
      /\ \A i \in 1 .. Len(back) :
             back[i] = IF i <= a THEN out[i] ELSE IF i <= a + Len(old) THEN old[i - a]
                       ELSE out[i - (Len(old) - (c - a))]
  <2>1. out \in Seq(T) /\ old \in Seq(T) /\ c \in Nat /\ a <= c /\ c <= Len(out)
    BY <1>1, <1>2, <1>4, <1>5
  <2> QED BY <2>1, ReplacedAt
<1> HIDE DEF back
<1>8. Len(old) - (c - a) = 0 - by /\ a + Len(old) = b BY <1>2, <1>3, <1>4
<1>9. Len(back) = Len(raw)
  <2>1. Len(back) = Len(out) + (0 - by) BY <1>7, <1>8
  <2>2. Len(out) = Len(raw) + by BY <1>1
  <2> QED BY <1>3, <1>4, <2>1, <2>2
<1>10. ASSUME NEW i \in 1 .. Len(raw) PROVE back[i] = raw[i]
  <2>0. back[i] = IF i <= a THEN out[i] ELSE IF i <= b THEN old[i - a] ELSE out[i + by]
    <3>1. i - (0 - by) = i + by BY <1>3, <1>4
    <3> QED BY <1>7, <1>8, <1>9, <3>1
  <2>1. CASE i <= a
    <3>1. i \in 1 .. Len(out) BY <1>4, <1>5, <2>1
    <3> QED BY <1>1, <2>0, <2>1, <3>1
  <2>2. CASE ~(i <= a) /\ i <= b
    <3>1. i - a \in 1 .. b - a /\ a + (i - a) = i BY <1>3, <2>2
    <3> QED BY <1>2, <2>0, <2>2, <3>1
  <2>3. CASE ~(i <= a) /\ ~(i <= b)
    <3>1. i + by \in 1 .. Len(out) /\ ~(i + by <= a) /\ ~(i + by <= c) /\ (i + by) - by = i
      BY <1>1, <1>3, <1>4, <2>3
    <3> QED BY <1>1, <2>0, <2>3, <3>1
  <2> QED BY <2>1, <2>2, <2>3
<1>11. back = raw BY <1>7, <1>9, <1>10, SameText
<1> QED BY <1>4, <1>5, <1>6, <1>11 DEF out, old, c, back

(* A replacement leaves what lies in front of it in its place.               *)
LEMMA FrontStays ==
    ASSUME NEW T, NEW raw \in Seq(T), NEW new \in Seq(T),
           NEW a \in Nat, NEW b \in Nat, NEW c \in Nat, NEW d \in Nat,
           a <= b, b <= c, c <= d, d <= Len(raw)
    PROVE  LET out == Exchanged(raw, c, d, new)
           IN  b <= Len(out) /\ Piece(out, a, b) = Piece(raw, a, b)
<1> DEFINE out == Exchanged(raw, c, d, new)
           by == Len(new) - (d - c)
<1>1. /\ out \in Seq(T) /\ Len(out) = Len(raw) + by
      /\ \A i \in 1 .. Len(out) :
             out[i] = IF i <= c THEN raw[i]
                      ELSE IF i <= c + Len(new) THEN new[i - c] ELSE raw[i - by]
  BY ReplacedAt
<1>2. Len(raw) \in Nat /\ Len(new) \in Nat OBVIOUS
<1>3. b <= Len(out) /\ b <= Len(raw) /\ Len(out) \in Nat BY <1>1, <1>2
<1> HIDE DEF out, by
<1>4. ASSUME NEW i \in 1 .. b - a PROVE out[a + i] = raw[a + i]
  <2>1. a + i \in 1 .. Len(out) /\ a + i <= c BY <1>3
  <2> QED BY <1>1, <2>1
<1>5. SubSeq(out, a + 1, b) = SubSeq(raw, a + 1, b) BY <1>1, <1>3, <1>4, SamePiece
<1> QED BY <1>3, <1>5 DEF out, Piece

(* Replacements of two separate pieces give the same text in either order,   *)
(* if the later one is moved with the text.                                  *)
LEMMA EitherOrder ==
    ASSUME NEW T, NEW raw \in Seq(T), NEW new \in Seq(T), NEW other \in Seq(T),
           NEW a \in Nat, NEW b \in Nat, NEW c \in Nat, NEW d \in Nat,
           a <= b, b <= c, c <= d, d <= Len(raw)
    PROVE  LET by == Len(new) - (b - a)
           IN  Exchanged(Exchanged(raw, c, d, other), a, b, new)
                   = Exchanged(Exchanged(raw, a, b, new), c + by, d + by, other)
<1> DEFINE by == Len(new) - (b - a)
           to == Len(other) - (d - c)
           x == Exchanged(raw, c, d, other)
           y == Exchanged(raw, a, b, new)
           u == Exchanged(x, a, b, new)
           v == Exchanged(y, c + by, d + by, other)
<1>1. /\ x \in Seq(T) /\ Len(x) = Len(raw) + to
      /\ \A i \in 1 .. Len(x) :
             x[i] = IF i <= c THEN raw[i]
                    ELSE IF i <= c + Len(other) THEN other[i - c] ELSE raw[i - to]
  BY ReplacedAt
<1>2. /\ y \in Seq(T) /\ Len(y) = Len(raw) + by
      /\ \A i \in 1 .. Len(y) :
             y[i] = IF i <= a THEN raw[i]
                    ELSE IF i <= a + Len(new) THEN new[i - a] ELSE raw[i - by]
  <2>1. b <= Len(raw) OBVIOUS
  <2> QED BY <2>1, ReplacedAt
<1>3. Len(raw) \in Nat /\ Len(new) \in Nat /\ Len(other) \in Nat OBVIOUS
<1>4. b <= Len(x) /\ c <= Len(x) /\ Len(x) \in Nat BY <1>1, <1>3
<1>5. /\ c + by \in Nat /\ d + by \in Nat /\ c + by <= d + by /\ d + by <= Len(y) /\ Len(y) \in Nat
      /\ a + Len(new) <= c + by
  BY <1>2, <1>3
<1> HIDE DEF x, y
<1>6. /\ u \in Seq(T) /\ Len(u) = Len(x) + by
      /\ \A i \in 1 .. Len(u) :
             u[i] = IF i <= a THEN x[i] ELSE IF i <= a + Len(new) THEN new[i - a] ELSE x[i - by]
  <2>1. x \in Seq(T) /\ b <= Len(x) BY <1>1, <1>4
  <2> QED BY <2>1, ReplacedAt
<1>7. /\ v \in Seq(T) /\ Len(v) = Len(y) + to
      /\ \A i \in 1 .. Len(v) :
             v[i] = IF i <= c + by THEN y[i]
                    ELSE IF i <= c + by + Len(other) THEN other[i - (c + by)] ELSE y[i - to]
  <2> DEFINE e == c + by
             f == d + by
  <2>1. y \in Seq(T) /\ e \in Nat /\ f \in Nat /\ e <= f /\ f <= Len(y) /\ f - e = d - c
    BY <1>2, <1>5, SMTT(30)
  <2> HIDE DEF e, f
  <2>2. LET w == Exchanged(y, e, f, other)
        IN  /\ w \in Seq(T) /\ Len(w) = Len(y) + (Len(other) - (f - e))
            /\ \A i \in 1 .. Len(w) :
                   w[i] = IF i <= e THEN y[i]
                          ELSE IF i <= e + Len(other) THEN other[i - e]
                          ELSE y[i - (Len(other) - (f - e))]
    BY <2>1, ReplacedAt
  <2> QED BY <2>1, <2>2 DEF e, f
<1> HIDE DEF u, v
<1>8. Len(u) = Len(v) /\ Len(u) = Len(raw) + by + to /\ Len(u) \in Nat BY <1>1, <1>2, <1>3, <1>6, <1>7
<1>9. by \in Int /\ to \in Int /\ by = Len(new) - (b - a) /\ to = Len(other) - (d - c) BY <1>3
<1> HIDE DEF by, to
<1>10. ASSUME NEW i \in 1 .. Len(u) PROVE u[i] = v[i]
  <2>0. i \in 1 .. Len(v) /\ i \in Nat BY <1>8
  <2>1. CASE i <= a
    <3>1. i \in 1 .. Len(x) /\ i \in 1 .. Len(y) /\ i <= c /\ i <= c + by
      BY <1>3, <1>4, <1>5, <1>9, <2>0, <2>1, SMTT(40)
    <3> QED BY <1>1, <1>2, <1>6, <1>7, <2>0, <2>1, <3>1
  <2>2. CASE ~(i <= a) /\ i <= a + Len(new)
    <3>1. i \in 1 .. Len(y) /\ i <= c + by BY <1>3, <1>5, <1>9, <2>0, <2>2
    <3> QED BY <1>2, <1>6, <1>7, <2>0, <2>2, <3>1
  <2>3. CASE ~(i <= a) /\ ~(i <= a + Len(new)) /\ i <= c + by
    <3>1. /\ i \in 1 .. Len(y) /\ i - by \in 1 .. Len(x) /\ i - by <= c
      BY <1>3, <1>4, <1>5, <1>9, <2>0, <2>3, SMTT(40)
    <3>2. u[i] = x[i - by] /\ v[i] = y[i] BY <1>6, <1>7, <2>0, <2>3
    <3> QED BY <1>1, <1>2, <2>3, <3>1, <3>2
  <2>4. CASE ~(i <= a) /\ ~(i <= a + Len(new)) /\ ~(i <= c + by) /\ i <= c + by + Len(other)
    <3>1. /\ i - by \in 1 .. Len(x) /\ ~(i - by <= c) /\ i - by <= c + Len(other)
          /\ (i - by) - c = i - (c + by)
      BY <1>1, <1>3, <1>5, <1>8, <1>9, <2>0, <2>4
    <3>2. u[i] = x[i - by] /\ v[i] = other[i - (c + by)] BY <1>6, <1>7, <2>0, <2>4
    <3> QED BY <1>1, <3>1, <3>2
  <2>5. CASE /\ ~(i <= a) /\ ~(i <= a + Len(new))
             /\ ~(i <= c + by) /\ ~(i <= c + by + Len(other))
    <3>1. /\ i - by \in 1 .. Len(x) /\ ~(i - by <= c) /\ ~(i - by <= c + Len(other))
      BY <1>1, <1>3, <1>5, <1>8, <1>9, <2>0, <2>5
    <3>2. /\ i - to \in 1 .. Len(y) /\ ~(i - to <= a) /\ ~(i - to <= a + Len(new))
          /\ (i - to) - by = (i - by) - to
      <4>1. Len(y) = Len(raw) + by /\ a + Len(new) <= c + by /\ Len(y) \in Nat BY <1>2, <1>5
      <4>2. i <= Len(raw) + by + to /\ i \in Nat BY <1>8, <2>0
      <4>3. i - to > d + by BY <1>3, <1>9, <4>2, <2>5
      <4>4. i - to <= Len(y) /\ i - to \in Int BY <1>3, <1>9, <4>1, <4>2
      <4>5. d + by >= a + Len(new) /\ d + by \in Int BY <1>3, <1>9
      <4>6. i - to > a + Len(new) BY <1>3, <4>3, <4>4, <4>5
      <4>7. (i - to) - by = (i - by) - to BY <1>9, <4>2
      <4> QED BY <1>3, <4>1, <4>4, <4>6, <4>7
    <3>3. u[i] = x[i - by] /\ v[i] = y[i - to] BY <1>6, <1>7, <2>0, <2>5
    <3>4. x[i - by] = raw[(i - by) - to] BY <1>1, <3>1
    <3>5. y[i - to] = raw[(i - to) - by] BY <1>2, <3>2
    <3> QED BY <3>2, <3>3, <3>4, <3>5
  <2>6. i <= a + Len(new) => i <= c + by BY <1>3, <1>5, <1>9, <2>0
  <2>7. i <= c + by => i <= c + by + Len(other) BY <1>3, <1>9, <2>0
  <2> QED BY <2>1, <2>2, <2>3, <2>4, <2>5, <2>6, <2>7
<1>11. u = v BY <1>6, <1>7, <1>8, <1>10, SameText
<1> QED BY <1>11 DEF u, v, x, y, by

-----------------------------------------------------------------------------
(* Two patches *)

PatchesOver(T) == [start : Nat, end : Nat, old : Seq(T), new : Seq(T)]

(* The patch that takes p back, and p where its text has moved.              *)
Reverse(p) == [start |-> p.start, end |-> p.start + Len(p.new), old |-> p.new, new |-> p.old]
Moved(p, by) == [p EXCEPT !.start = @ + by, !.end = @ + by]
Shift(p) == Len(p.new) - (p.end - p.start)

LEMMA SpliceReplaces ==
    ASSUME NEW T, NEW raw \in Seq(T), NEW p \in PatchesOver(T), Matches(raw, p)
    PROVE  /\ p.start \in Nat /\ p.end \in Nat /\ p.old \in Seq(T) /\ p.new \in Seq(T)
           /\ p.start <= p.end /\ p.end <= Len(raw)
           /\ p.old = SubSeq(raw, p.start + 1, p.end)
           /\ Splice(raw, p) = Exchanged(raw, p.start, p.end, p.new)
           /\ Splice(raw, p) \in Seq(T)
<1>1. /\ p.start \in Nat /\ p.end \in Nat /\ p.old \in Seq(T) /\ p.new \in Seq(T)
      /\ p.start <= p.end /\ p.end <= Len(raw) /\ p.old = SubSeq(raw, p.start + 1, p.end)
  BY DEF PatchesOver, Matches
<1>2. Splice(raw, p) = Exchanged(raw, p.start, p.end, p.new) BY DEF Splice, Exchanged
<1>3. Exchanged(raw, p.start, p.end, p.new) \in Seq(T) BY <1>1, ReplacedAt
<1> QED BY <1>1, <1>2, <1>3

(* _patched_bytes: a patch that was applied can be taken back. What it wrote *)
(* lies where it was written, so that the reverse patch matches, and putting *)
(* the old text there restores every token. The old text of a patch is all   *)
(* that a plan keeps of the source.                                          *)
THEOREM PatchIsUndone ==
    ASSUME NEW T, NEW raw \in Seq(T), NEW p \in PatchesOver(T), Matches(raw, p)
    PROVE  /\ Matches(Splice(raw, p), Reverse(p))
           /\ Splice(Splice(raw, p), Reverse(p)) = raw
<1> DEFINE a == p.start
           b == p.end
           new == p.new
           old == p.old
           out == Exchanged(raw, a, b, new)
           c == a + Len(new)
           q == Reverse(p)
<1>1. /\ a \in Nat /\ b \in Nat /\ old \in Seq(T) /\ new \in Seq(T)
      /\ a <= b /\ b <= Len(raw) /\ old = SubSeq(raw, a + 1, b) /\ Splice(raw, p) = out
  BY SpliceReplaces
<1>2. q.start = a /\ q.end = c /\ q.old = new /\ q.new = old BY DEF Reverse
<1> HIDE DEF a, b, new, old, q
<1>3. c <= Len(out) /\ SubSeq(out, a + 1, c) = new /\ Exchanged(out, a, c, old) = raw
  BY <1>1, PutBack
<1>4. 0 <= a /\ a <= c BY <1>1
<1> HIDE DEF out, c
<1>5. Matches(out, q) BY <1>2, <1>3, <1>4 DEF Matches
<1>6. Splice(out, q) = Exchanged(out, a, c, old) BY <1>2 DEF Splice, Exchanged
<1> QED BY <1>1, <1>3, <1>5, <1>6 DEF q

(* _patched_bytes_many, for two patches that do not overlap: applied from    *)
(* the back, the one in front meets its old text at its own offsets; applied *)
(* from the front, the one behind has to be moved; both ways give the same   *)
(* text.                                                                     *)
THEOREM BackToFront ==
    ASSUME NEW T, NEW raw \in Seq(T), NEW p \in PatchesOver(T), NEW q \in PatchesOver(T),
           Matches(raw, p), Matches(raw, q), p.end <= q.start
    PROVE  /\ Matches(Splice(raw, q), p)
           /\ Matches(Splice(raw, p), Moved(q, Shift(p)))
           /\ Splice(Splice(raw, q), p) = Splice(Splice(raw, p), Moved(q, Shift(p)))
<1> DEFINE a == p.start
           b == p.end
           new == p.new
           c == q.start
           d == q.end
           other == q.new
           x == Exchanged(raw, c, d, other)
           y == Exchanged(raw, a, b, new)
           by == Len(new) - (b - a)
           r == Moved(q, Shift(p))
<1>1. /\ a \in Nat /\ b \in Nat /\ new \in Seq(T) /\ a <= b /\ b <= Len(raw)
      /\ p.old = Piece(raw, a, b) /\ Splice(raw, p) = y
  BY SpliceReplaces DEF Piece
<1>2. /\ c \in Nat /\ d \in Nat /\ other \in Seq(T) /\ c <= d /\ d <= Len(raw)
      /\ q.old = Piece(raw, c, d) /\ Splice(raw, q) = x
  BY SpliceReplaces DEF Piece
<1>3. r.start = c + by /\ r.end = d + by /\ r.old = q.old /\ r.new = other
  BY DEF Moved, Shift, PatchesOver
<1>4. b <= c OBVIOUS
<1> HIDE DEF a, b, new, c, d, other, r
<1>5. /\ a \in Nat /\ b \in Nat /\ c \in Nat /\ d \in Nat /\ new \in Seq(T) /\ other \in Seq(T)
      /\ a <= b /\ b <= c /\ c <= d /\ d <= Len(raw)
  BY <1>1, <1>2, <1>4
<1>6. b <= Len(x) /\ Piece(x, a, b) = Piece(raw, a, b) BY <1>5, FrontStays
<1>7. c + by \in Nat /\ d + by <= Len(y) /\ Piece(y, c + by, d + by) = Piece(raw, c, d)
  <2> DEFINE e == c + by
             f == d + by
             u == SubSeq(y, e + 1, f)
             v == SubSeq(raw, c + 1, d)
  <2>1. /\ y \in Seq(T) /\ Len(y) = Len(raw) + by
        /\ \A i \in 1 .. Len(y) :
               y[i] = IF i <= a THEN raw[i]
                      ELSE IF i <= a + Len(new) THEN new[i - a] ELSE raw[i - by]
    <3>1. a \in Nat /\ b \in Nat /\ new \in Seq(T) /\ a <= b /\ b <= Len(raw) BY <1>1
    <3> QED BY <3>1, ReplacedAt
  <2>2. Len(raw) \in Nat /\ Len(new) \in Nat BY <1>1
  <2>3. /\ e \in Nat /\ f \in Nat /\ e <= f /\ f <= Len(y) /\ f - e = d - c
        /\ a + Len(new) <= e /\ a <= e /\ by \in Int /\ e - by = c /\ Len(y) \in Nat
    BY <1>5, <2>1, <2>2
  <2> HIDE DEF y, by, e, f
  <2>4. ASSUME NEW i \in 1 .. f - e PROVE y[e + i] = raw[c + i]
    <3>1. /\ e + i \in 1 .. Len(y) /\ ~(e + i <= a) /\ ~(e + i <= a + Len(new))
          /\ (e + i) - by = c + i
      BY <1>5, <2>2, <2>3
    <3> QED BY <2>1, <3>1
  <2>5. u \in Seq(T) /\ Len(u) = f - e /\ \A i \in 1 .. f - e : u[i] = y[e + i] BY <2>1, <2>3
  <2>6. v \in Seq(T) /\ Len(v) = d - c /\ \A i \in 1 .. d - c : v[i] = raw[c + i] BY <1>5
  <2> HIDE DEF u, v
  <2>7. u = v
    <3>1. f - e = d - c /\ Len(u) = f - e /\ Len(v) = f - e BY <2>3, <2>5, <2>6
    <3>2. ASSUME NEW i \in 1 .. Len(u) PROVE u[i] = v[i]
      <4>1. i \in 1 .. f - e /\ i \in 1 .. d - c BY <3>1
      <4>2. u[i] = y[e + i] BY <2>5, <4>1
      <4>3. v[i] = raw[c + i] BY <2>6, <4>1
      <4> QED BY <2>4, <4>1, <4>2, <4>3
    <3> QED BY <2>5, <2>6, <3>1, <3>2, SameText
  <2> QED BY <2>3, <2>7 DEF u, v, e, f, Piece
<1>8. Exchanged(x, a, b, new) = Exchanged(y, c + by, d + by, other)
  BY <1>5, EitherOrder, SMTT(60)
<1>9. c + by <= d + by /\ by \in Int BY <1>1, <1>2
<1> HIDE DEF x, y, by
<1>10. Matches(x, p) BY <1>1, <1>6 DEF Matches, Piece, a, b
<1>11. Matches(y, r) BY <1>2, <1>3, <1>7, <1>9 DEF Matches, Piece
<1>12. Splice(x, p) = Exchanged(x, a, b, new) BY DEF Splice, Exchanged, a, b, new
<1>13. Splice(y, r) = Exchanged(y, c + by, d + by, other) BY <1>3 DEF Splice, Exchanged
<1> QED BY <1>1, <1>2, <1>8, <1>10, <1>11, <1>12, <1>13 DEF r

-----------------------------------------------------------------------------
(* Any number of patches *)

(* Over is the fold that it is meant to be: the recursive function exists.   *)
LEMMA SplicesUnfold ==
    ASSUME NEW T, NEW raw \in Seq(T), NEW s \in Seq(PatchesOver(T))
    PROVE  \E f : /\ f[0] = raw
                  /\ \A i \in 1 .. Len(s) : f[i] = Splice(f[i - 1], s[i])
                  /\ Over(Splice, raw, s) = f[Len(s)]
<1> DEFINE Fold(n) == \E f : f = [i \in 0 .. n |-> IF i = 0 THEN raw ELSE Splice(f[i - 1], s[i])]
           Bad == {n \in Nat : ~Fold(n)}
<1>1. Bad = {}
  <2> SUFFICES ASSUME Bad # {} PROVE FALSE OBVIOUS
  <2>1. PICK m \in Bad : \A n \in Bad : ~(<<n, m>> \in OpToRel(<, Nat))
    BY NatLessThanWellFounded, WFMin
  <2>2. m \in Nat /\ ~Fold(m) OBVIOUS
  <2>3. \A n \in Nat : n < m => Fold(n) BY <2>1, <2>2 DEF OpToRel
  <2>4. CASE m = 0
    <3> DEFINE f == [i \in 0 .. 0 |-> raw]
    <3>1. f = [i \in 0 .. 0 |-> IF i = 0 THEN raw ELSE Splice(f[i - 1], s[i])] OBVIOUS
    <3> QED BY <2>2, <2>4, <3>1
  <2>5. CASE m # 0
    <3>1. m - 1 \in Nat /\ m - 1 < m BY <2>2, <2>5
    <3>2. PICK f : f = [i \in 0 .. m - 1 |-> IF i = 0 THEN raw ELSE Splice(f[i - 1], s[i])]
      BY <2>3, <3>1
    <3> DEFINE g == [i \in 0 .. m |-> IF i = m THEN Splice(f[m - 1], s[m]) ELSE f[i]]
               h == [i \in 0 .. m |-> IF i = 0 THEN raw ELSE Splice(g[i - 1], s[i])]
    <3>3. ASSUME NEW i \in 0 .. m PROVE g[i] = h[i]
      <4>1. CASE i = 0 BY <2>2, <2>5, <3>2, <4>1
      <4>2. CASE i = m
        <5>1. g[i] = Splice(f[m - 1], s[m]) /\ i # 0 BY <2>5, <4>2
        <5>2. m - 1 \in 0 .. m /\ m - 1 # m BY <2>2, <3>1
        <5>3. g[i - 1] = f[m - 1] BY <4>2, <5>2
        <5> QED BY <4>2, <5>1, <5>3
      <4>3. CASE i # 0 /\ i # m
        <5>1. i \in 0 .. m - 1 /\ i - 1 \in 0 .. m /\ i - 1 # m BY <2>2, <4>3
        <5>2. g[i] = f[i] /\ g[i - 1] = f[i - 1] BY <4>3, <5>1
        <5>3. f[i] = Splice(f[i - 1], s[i]) BY <3>2, <4>3, <5>1
        <5> QED BY <4>3, <5>2, <5>3
      <4> QED BY <4>1, <4>2, <4>3
    <3>4. g = h BY <3>3
    <3> QED BY <2>2, <3>4
  <2> QED BY <2>4, <2>5
<1>2. Len(s) \in Nat OBVIOUS
<1>3. Fold(Len(s)) BY <1>1, <1>2
<1> DEFINE Only(x, i) == CHOOSE next \in {Splice(y, s[i]) : y \in {x}} : TRUE
           f == CHOOSE f : f = [i \in 0 .. Len(s) |-> IF i = 0 THEN raw ELSE Only(f[i - 1], i)]
<1>4. \A x, i : Only(x, i) = Splice(x, s[i])
  <2> SUFFICES ASSUME NEW x, NEW i PROVE Only(x, i) = Splice(x, s[i]) OBVIOUS
  <2>1. {Splice(y, s[i]) : y \in {x}} = {Splice(x, s[i])} OBVIOUS
  <2>2. Splice(x, s[i]) \in {Splice(y, s[i]) : y \in {x}} BY <2>1
  <2>3. Only(x, i) \in {Splice(y, s[i]) : y \in {x}} BY <2>2
  <2> QED BY <2>1, <2>3
<1>5. Over(Splice, raw, s) = f[Len(s)] BY DEF Over
<1>6. f = [i \in 0 .. Len(s) |-> IF i = 0 THEN raw ELSE Splice(f[i - 1], s[i])]
  <2> HIDE DEF Only
  <2>1. PICK g : g = [i \in 0 .. Len(s) |-> IF i = 0 THEN raw ELSE Splice(g[i - 1], s[i])] BY <1>3
  <2>2. g = [i \in 0 .. Len(s) |-> IF i = 0 THEN raw ELSE Only(g[i - 1], i)] BY <2>1, <1>4
  <2>3. f = [i \in 0 .. Len(s) |-> IF i = 0 THEN raw ELSE Only(f[i - 1], i)] BY <2>2
  <2> QED BY <2>3, <1>4
<1> HIDE DEF f
<1>7. f[0] = raw /\ \A i \in 1 .. Len(s) : f[i] = Splice(f[i - 1], s[i]) BY <1>2, <1>6
<1> QED BY <1>5, <1>7

(* A set of naturals that holds 0 and the successor of each of its members.  *)
LEMMA SetInduction ==
    ASSUME NEW S, 0 \in S, \A n \in Nat : n \in S => n + 1 \in S
    PROVE  \A n \in Nat : n \in S
<1> DEFINE Bad == {n \in Nat : n \notin S}
<1> SUFFICES ASSUME Bad # {} PROVE FALSE OBVIOUS
<1>1. PICK m \in Bad : \A n \in Bad : ~(<<n, m>> \in OpToRel(<, Nat))
  BY NatLessThanWellFounded, WFMin
<1>2. m \in Nat /\ m \notin S OBVIOUS
<1>3. \A n \in Nat : n < m => n \in S BY <1>1, <1>2 DEF OpToRel
<1>4. m # 0 BY <1>2
<1>5. m - 1 \in Nat /\ m - 1 < m /\ (m - 1) + 1 = m BY <1>2, <1>4
<1> QED BY <1>2, <1>3, <1>5

(* A patch on a text that is still the planned one up to its end.            *)
LEMMA MeetsItsText ==
    ASSUME NEW T, NEW raw \in Seq(T), NEW x \in Seq(T), NEW p \in PatchesOver(T), Matches(raw, p),
           p.end <= Len(x), \A i \in 1 .. p.end : x[i] = raw[i]
    PROVE  LET out == Splice(x, p)
           IN  /\ Matches(x, p) /\ out \in Seq(T)
               /\ p.start <= Len(out) /\ \A i \in 1 .. p.start : out[i] = raw[i]
               /\ \A i \in 1 .. Len(p.new) : p.start + i <= Len(out) /\ out[p.start + i] = p.new[i]
               /\ \A i \in p.end + 1 .. Len(x) :
                      LET k == i + (Len(out) - Len(x))
                      IN  k > p.start /\ k <= Len(out) /\ out[k] = x[i]
<1> DEFINE a == p.start
           b == p.end
           new == p.new
           by == Len(new) - (b - a)
           out == Exchanged(x, a, b, new)
<1>1. /\ a \in Nat /\ b \in Nat /\ new \in Seq(T) /\ a <= b /\ b <= Len(raw)
      /\ p.old = SubSeq(raw, a + 1, b)
  BY SpliceReplaces
<1>2. Splice(x, p) = out BY DEF Splice, Exchanged
<1>3. b <= Len(x) /\ \A i \in 1 .. b : x[i] = raw[i] OBVIOUS
<1> HIDE DEF a, b, new
<1>4. SubSeq(x, a + 1, b) = SubSeq(raw, a + 1, b)
  <2>1. \A i \in 1 .. b - a : x[a + i] = raw[a + i] BY <1>1, <1>3
  <2> QED BY <1>1, <1>3, <2>1, SamePiece
<1>5. Matches(x, p) BY <1>1, <1>3, <1>4 DEF Matches, a, b
<1>6. /\ out \in Seq(T) /\ Len(out) = Len(x) + by
      /\ \A i \in 1 .. Len(out) :
             out[i] = IF i <= a THEN x[i] ELSE IF i <= a + Len(new) THEN new[i - a] ELSE x[i - by]
  <2>1. a \in Nat /\ b \in Nat /\ new \in Seq(T) /\ a <= b /\ b <= Len(x) BY <1>1, <1>3
  <2> QED BY <2>1, ReplacedAt
<1>7. /\ Len(x) \in Nat /\ Len(new) \in Nat /\ Len(out) \in Nat /\ by \in Int
      /\ by = Len(new) - (b - a)
  BY <1>1, <1>6
<1> HIDE DEF by, out
<1>8. a <= Len(out) BY <1>1, <1>3, <1>6, <1>7
<1>9. ASSUME NEW i \in 1 .. a PROVE out[i] = raw[i]
  <2>1. i \in 1 .. Len(out) /\ i \in 1 .. b /\ i <= a BY <1>1, <1>7, <1>8
  <2> QED BY <1>3, <1>6, <2>1
<1>10. ASSUME NEW i \in b + 1 .. Len(x)
       PROVE  LET k == i + (Len(out) - Len(x)) IN k > a /\ k <= Len(out) /\ out[k] = x[i]
  <2>1. i + (Len(out) - Len(x)) = i + by BY <1>1, <1>6, <1>7
  <2>2. /\ i + by \in 1 .. Len(out) /\ ~(i + by <= a) /\ ~(i + by <= a + Len(new))
        /\ (i + by) - by = i /\ i + by > a /\ i + by <= Len(out)
    BY <1>1, <1>6, <1>7
  <2>3. out[i + by] = x[i] BY <1>6, <2>2
  <2> QED BY <2>1, <2>2, <2>3
<1>11. ASSUME NEW i \in 1 .. Len(new) PROVE a + i <= Len(out) /\ out[a + i] = new[i]
  <2>1. /\ a + i \in 1 .. Len(out) /\ ~(a + i <= a) /\ a + i <= a + Len(new) /\ (a + i) - a = i
    BY <1>1, <1>3, <1>6, <1>7
  <2> QED BY <1>6, <2>1
<1> QED BY <1>2, <1>5, <1>6, <1>8, <1>9, <1>10, <1>11 DEF a, b, new

(* _patched_bytes_many: patches that are in order and do not overlap are all *)
(* applied, from the back. Each meets its old text at its own offsets in the *)
(* text as it then stands, although it was compared with the source only;    *)
(* what lies behind it, the patches applied before among it, is carried      *)
(* along unchanged; and so the result has the new text of each of them.      *)
THEOREM PatchesMeetTheirText ==
    ASSUME NEW T, NEW raw \in Seq(T), NEW sorted \in Seq(PatchesOver(T)), Disjoint(sorted),
           \A k \in DOMAIN sorted : Matches(raw, sorted[k])
    PROVE  LET n == Len(sorted)
           IN  \E f :
                 /\ f[0] = raw /\ PatchedInOrder(raw, sorted) = {f[n]}
                 /\ \A j \in 0 .. n - 1 :
                       /\ Matches(f[j], sorted[n - j])
                       /\ f[j + 1] = Splice(f[j], sorted[n - j])
                 /\ \A j \in 0 .. n : \A i \in 1 .. Len(f[j]) :
                       (j < n => i > sorted[n - j].end)
                           => f[n][i + (Len(f[n]) - Len(f[j]))] = f[j][i]
                 /\ \A j \in 0 .. n - 1 :
                       LET p == sorted[n - j]
                       IN  \A i \in 1 .. Len(p.new) :
                               f[n][p.start + i + (Len(f[n]) - Len(f[j + 1]))] = p.new[i]
<1> DEFINE n == Len(sorted)
           s == [k \in DOMAIN sorted |-> sorted[Len(sorted) + 1 - k]]
<1>1. n \in Nat /\ DOMAIN sorted = 1 .. n OBVIOUS
<1>2. \A k \in 1 .. n : sorted[k] \in PatchesOver(T) /\ Matches(raw, sorted[k]) BY <1>1
<1>3. \A k \in 1 .. n : /\ sorted[k].start \in Nat /\ sorted[k].end \in Nat
                        /\ sorted[k].start <= sorted[k].end /\ sorted[k].end <= Len(raw)
  BY <1>2, SpliceReplaces
<1>4. \A k \in 1 .. n - 1 : sorted[k].end <= sorted[k + 1].start
  BY <1>1, <1>3 DEF Disjoint
<1>5. s \in Seq(PatchesOver(T)) /\ Len(s) = n /\ \A k \in 1 .. n : s[k] = sorted[n + 1 - k]
  <2>1. \A k \in 1 .. n : n + 1 - k \in 1 .. n BY <1>1
  <2>2. s \in [1 .. n -> PatchesOver(T)] BY <1>1, <1>2, <2>1
  <2> QED BY <1>1, <2>2
<1> HIDE DEF n
<1>6. PICK f : /\ f[0] = raw
               /\ \A i \in 1 .. n : f[i] = Splice(f[i - 1], s[i])
               /\ Over(Splice, raw, s) = f[n]
  <2> HIDE DEF s
  <2>1. \E g : /\ g[0] = raw
               /\ \A i \in 1 .. Len(s) : g[i] = Splice(g[i - 1], s[i])
               /\ Over(Splice, raw, s) = g[Len(s)]
    <3>1. s \in Seq(PatchesOver(T)) BY <1>5
    <3> QED BY <3>1, SplicesUnfold, ZenonT(60)
  <2>2. Len(s) = n BY <1>5
  <2> QED BY <2>1, <2>2
<1>7. PatchedInOrder(raw, sorted) = {f[n]} BY <1>6 DEF PatchedInOrder
<1>8. \A j \in 0 .. n - 1 : f[j + 1] = Splice(f[j], sorted[n - j])
  <2> TAKE j \in 0 .. n - 1
  <2>1. j + 1 \in 1 .. n /\ (j + 1) - 1 = j /\ n + 1 - (j + 1) = n - j BY <1>1
  <2> QED BY <1>5, <1>6, <2>1
<1> HIDE DEF s
<1> DEFINE Ok == {j \in Nat :
                   /\ j <= n => f[j] \in Seq(T)
                   /\ j < n => /\ sorted[n - j].end <= Len(f[j])
                              /\ \A i \in 1 .. sorted[n - j].end : f[j][i] = raw[i]}
<1>9. ASSUME NEW j \in 0 .. n - 1, j \in Ok
      PROVE  LET p == sorted[n - j]
                 x == f[j]
                 out == f[j + 1]
             IN  /\ x \in Seq(T) /\ Matches(x, p) /\ out \in Seq(T)
                 /\ p.start <= Len(out) /\ \A i \in 1 .. p.start : out[i] = raw[i]
                 /\ \A i \in 1 .. Len(p.new) : p.start + i <= Len(out) /\ out[p.start + i] = p.new[i]
                 /\ \A i \in p.end + 1 .. Len(x) :
                        LET k == i + (Len(out) - Len(x))
                        IN  k > p.start /\ k <= Len(out) /\ out[k] = x[i]
  <2> DEFINE p == sorted[n - j]
             x == f[j]
  <2>1. n - j \in 1 .. n /\ j <= n /\ j < n BY <1>1
  <2>2. p \in PatchesOver(T) /\ Matches(raw, p) BY <1>2, <2>1
  <2>3. x \in Seq(T) /\ p.end <= Len(x) /\ \A i \in 1 .. p.end : x[i] = raw[i] BY <1>9, <2>1
  <2>4. f[j + 1] = Splice(x, p) BY <1>8
  <2> HIDE DEF p, x
  <2>5. LET out == Splice(x, p)
        IN  /\ Matches(x, p) /\ out \in Seq(T)
            /\ p.start <= Len(out) /\ \A i \in 1 .. p.start : out[i] = raw[i]
            /\ \A i \in 1 .. Len(p.new) : p.start + i <= Len(out) /\ out[p.start + i] = p.new[i]
            /\ \A i \in p.end + 1 .. Len(x) :
                   LET k == i + (Len(out) - Len(x))
                   IN  k > p.start /\ k <= Len(out) /\ out[k] = x[i]
    BY <2>2, <2>3, MeetsItsText, SMTT(60)
  <2> QED BY <2>3, <2>4, <2>5 DEF p, x
<1>10. \A j \in Nat : j \in Ok
  <2>1. 0 \in Ok
    <3>1. f[0] \in Seq(T) BY <1>6
    <3>2. ASSUME 0 < n
          PROVE  sorted[n - 0].end <= Len(f[0]) /\ \A i \in 1 .. sorted[n - 0].end : f[0][i] = raw[i]
      <4>1. n - 0 \in 1 .. n BY <1>1, <3>2
      <4> QED BY <1>3, <1>6, <4>1
    <3> QED BY <3>1, <3>2
  <2>2. ASSUME NEW j \in Nat, j \in Ok PROVE j + 1 \in Ok
    <3>1. CASE j >= n BY <1>1, <3>1
    <3>2. CASE j < n
      <4> DEFINE p == sorted[n - j]
                 q == sorted[n - (j + 1)]
                 out == f[j + 1]
      <4>1. j \in 0 .. n - 1 BY <1>1, <3>2
      <4>2. out \in Seq(T) /\ p.start <= Len(out) /\ \A i \in 1 .. p.start : out[i] = raw[i]
        BY <1>9, <2>2, <4>1
      <4>3. ASSUME j + 1 < n
            PROVE  q.end <= Len(out) /\ \A i \in 1 .. q.end : out[i] = raw[i]
        <5>1. n - (j + 1) \in 1 .. n - 1 /\ (n - (j + 1)) + 1 = n - j BY <1>1, <4>3
        <5>2. q.end <= p.start BY <1>4, <5>1
        <5>3. q.end \in Nat /\ p.start \in Nat
          <6>1. n - (j + 1) \in 1 .. n /\ n - j \in 1 .. n BY <1>1, <4>3
          <6> QED BY <1>3, <6>1
        <5>4. Len(out) \in Nat BY <4>2
        <5> HIDE DEF p, q, out
        <5> QED BY <4>2, <5>2, <5>3, <5>4
      <4> QED BY <4>2, <4>3
    <3> QED BY <1>1, <3>1, <3>2
  <2> HIDE DEF Ok
  <2> QED BY <2>1, <2>2, SetInduction
<1> HIDE DEF Ok
<1>11. ASSUME NEW j \in 0 .. n - 1 PROVE Matches(f[j], sorted[n - j])
  <2>1. j \in Nat BY <1>1
  <2>2. j \in Ok BY <1>10, <2>1
  <2> QED BY <1>9, <2>2
<1>12. ASSUME NEW j \in 0 .. n, NEW i \in 1 .. Len(f[j]), j < n => i > sorted[n - j].end
       PROVE  f[n][i + (Len(f[n]) - Len(f[j]))] = f[j][i]
  <2> DEFINE at(m) == i + (Len(f[m]) - Len(f[j]))
             Kept == {d \in Nat : j + d <= n =>
                        /\ at(j + d) \in 1 .. Len(f[j + d]) /\ f[j + d][at(j + d)] = f[j][i]
                        /\ j + d < n => at(j + d) > sorted[n - (j + d)].end}
  <2>1. \A m \in 0 .. n : Len(f[m]) \in Nat
    <3> TAKE m \in 0 .. n
    <3>1. f[m] \in Seq(T)
      <4>1. m \in Nat /\ m <= n BY <1>1
      <4> QED BY <1>10, <4>1 DEF Ok
    <3> QED BY <3>1
  <2>2. j \in Nat /\ j <= n /\ i \in Nat BY <1>1
  <2>3. 0 \in Kept
    <3>1. j + 0 = j /\ at(j) = i BY <2>1, <2>2
    <3> HIDE DEF at
    <3> QED BY <1>12, <2>2, <3>1
  <2>4. ASSUME NEW d \in Nat, d \in Kept, j + (d + 1) <= n PROVE d + 1 \in Kept
    <3> DEFINE m == j + d
               p == sorted[n - m]
               q == sorted[n - (m + 1)]
               lm == Len(f[m])
               lo == Len(f[m + 1])
               k == at(m)
    <3>1. m \in 0 .. n - 1 /\ m + 1 \in 0 .. n /\ m \in 0 .. n /\ j + (d + 1) = m + 1 /\ m \in Nat
      BY <1>1, <2>2, <2>4
    <3>2. k \in 1 .. lm /\ f[m][k] = f[j][i] /\ k > p.end
      <4>1. j + d <= n /\ j + d < n BY <1>1, <2>2, <3>1
      <4> HIDE DEF at
      <4> QED BY <2>4, <4>1
    <3>3. \A l \in p.end + 1 .. lm :
             LET o == l + (lo - lm) IN o > p.start /\ o <= lo /\ f[m + 1][o] = f[m][l]
      <4>1. m \in Ok BY <1>10, <3>1
      <4> QED BY <1>9, <3>1, <4>1
    <3>4. lm \in Nat /\ lo \in Nat /\ Len(f[j]) \in Nat BY <2>1, <2>2, <3>1
    <3>5. at(m + 1) = k + (lo - lm)
      <4>1. at(m + 1) = i + (lo - Len(f[j])) /\ k = i + (lm - Len(f[j])) OBVIOUS
      <4> HIDE DEF k, lm, lo, at
      <4> DEFINE l0 == Len(f[j])
      <4>2. l0 \in Nat /\ i \in Nat /\ at(m + 1) = i + (lo - l0) /\ k = i + (lm - l0)
        BY <2>2, <3>4, <4>1
      <4> HIDE DEF l0, m
      <4> QED BY <3>4, <4>2
    <3>6. p.start \in Nat /\ p.end \in Nat
      <4>1. n - m \in 1 .. n BY <1>1, <3>1
      <4> QED BY <1>3, <4>1
    <3>7. ASSUME m + 1 < n PROVE q.end \in Nat /\ q.end <= p.start
      <4>1. n - (m + 1) \in 1 .. n - 1 /\ n - (m + 1) \in 1 .. n /\ (n - (m + 1)) + 1 = n - m
        BY <1>1, <3>1, <3>7
      <4> QED BY <1>3, <1>4, <4>1
    <3> HIDE DEF k, lm, lo, p, q
    <3>8. /\ k + (lo - lm) > p.start /\ k + (lo - lm) <= lo
          /\ f[m + 1][k + (lo - lm)] = f[m][k]
      <4>1. k \in p.end + 1 .. lm BY <3>2, <3>4, <3>6
      <4> QED BY <3>3, <4>1
    <3>9. /\ at(m + 1) \in 1 .. lo /\ f[m + 1][at(m + 1)] = f[j][i]
          /\ m + 1 < n => at(m + 1) > q.end
      <4> HIDE DEF at, m
      <4>1. k + (lo - lm) \in Int BY <3>2, <3>4
      <4> QED BY <3>2, <3>4, <3>5, <3>6, <3>7, <3>8, <4>1
    <3> HIDE DEF at
    <3> QED BY <3>1, <3>9 DEF q, lo
  <2>5. ASSUME NEW d \in Nat, d \in Kept PROVE d + 1 \in Kept
    <3>1. CASE j + (d + 1) <= n BY <2>4, <2>5, <3>1
    <3>2. CASE ~(j + (d + 1) <= n)
      <4>1. d + 1 \in Nat OBVIOUS
      <4> HIDE DEF at
      <4> QED BY <3>2, <4>1
    <3> QED BY <3>1, <3>2
  <2>6. n - j \in Nat /\ j + (n - j) = n BY <1>1, <2>2
  <2>7. n - j \in Kept
    <3> HIDE DEF Kept
    <3> QED BY <2>3, <2>5, <2>6, SetInduction
  <2>8. f[n][at(n)] = f[j][i]
    <3> HIDE DEF at
    <3> QED BY <1>1, <2>6, <2>7
  <2> QED BY <2>8
<1>13. ASSUME NEW j \in 0 .. n - 1, NEW i \in 1 .. Len(sorted[n - j].new)
       PROVE  LET p == sorted[n - j]
              IN  f[n][p.start + i + (Len(f[n]) - Len(f[j + 1]))] = p.new[i]
  <2> DEFINE p == sorted[n - j]
             q == sorted[n - (j + 1)]
             x == f[j + 1]
             k == p.start + i
  <2>1. j \in Nat /\ n - j \in 1 .. n /\ j + 1 \in 0 .. n BY <1>1
  <2>2. j \in Ok BY <1>10, <2>1
  <2>3. x \in Seq(T) /\ k <= Len(x) /\ x[k] = p.new[i] BY <1>9, <2>2
  <2>4. p.start \in Nat /\ i \in Nat /\ i >= 1 BY <1>3, <2>1
  <2>5. ASSUME j + 1 < n PROVE q.end \in Nat /\ q.end <= p.start
    <3>1. n - (j + 1) \in 1 .. n - 1 /\ n - (j + 1) \in 1 .. n /\ (n - (j + 1)) + 1 = n - j
      BY <1>1, <2>1, <2>5
    <3> QED BY <1>3, <1>4, <3>1
  <2>6. k \in 1 .. Len(x) /\ (j + 1 < n => k > q.end)
    <3>1. Len(x) \in Nat BY <2>3
    <3> HIDE DEF p, q, x
    <3> QED BY <2>3, <2>4, <2>5, <3>1
  <2>7. f[n][k + (Len(f[n]) - Len(x))] = x[k]
    <3> HIDE DEF k
    <3> QED BY <1>12, <2>1, <2>6
  <2> QED BY <2>3, <2>7
<1> QED BY <1>6, <1>7, <1>8, <1>11, <1>12, <1>13, ZenonT(60) DEF n
=============================================================================
