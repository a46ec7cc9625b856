-------------------------- MODULE ScopedEditTexts --------------------------
(***************************************************************************)
(* What the operators of ScopedEdit do to texts.  Texts under Join are a   *)
(* monoid: Join is associative and the text of one blank line is its unit. *)
(* A text is what is before a place joined to what is after it, and a      *)
(* place in a text that was joined of two is a place in one of them; so an *)
(* edit of one part leaves the other part alone, and the range of an edit  *)
(* moves by the lines that were put above it.                              *)
(***************************************************************************)
EXTENDS ScopedEdit, SequenceTheorems, NaturalsInduction, WellFoundedInduction, TLAPS

\* The texts of files and buffers.
Texts == Seq(Line) \ {<< >>}

\* The places in a text: before a line, or the end.
PlacesIn(text) == 1..Len(text) + 1

-----------------------------------------------------------------------------
(* Joining texts.                                                          *)

\* A number of lines is one or more.
LEMMA OneOrMore == \A n \in Nat : n >= 1 => n = 1 \/ n > 1
  OBVIOUS

\* Two lines that are run together are a line.
LEMMA GlueType == \A a, b \in Line : Glue(a, b) \in Line
  BY DEF Glue, Line

\* Running lines together is associative, and the empty line is its unit.
LEMMA GlueAssociative ==
    /\ \A a, b, c : Glue(Glue(a, b), c) = Glue(a, Glue(b, c))
    /\ \A a : Glue(Blank, a) = a /\ Glue(a, Blank) = a
  BY LinesAssumption DEF Glue

\* A text has a first and a last line.
LEMMA TextEnds ==
    ASSUME NEW a \in Texts
    PROVE  /\ Len(a) \in Nat /\ Len(a) >= 1
           /\ \A i \in 1..Len(a) : a[i] \in Line
  BY EmptySeq, LenProperties, ElementOfSeq DEF Texts

\* A text of one, two or three lines.
LEMMA ShortTexts ==
    /\ \A a \in Line : <<a>> \in Texts /\ Len(<<a>>) = 1 /\ <<a>>[1] = a
    /\ \A a, b \in Line :
           /\ <<a, b>> \in Texts /\ Len(<<a, b>>) = 2 /\ <<a, b>>[1] = a /\ <<a, b>>[2] = b
    /\ \A a, b, c \in Line :
           /\ <<a, b, c>> \in Texts /\ Len(<<a, b, c>>) = 3
           /\ <<a, b, c>>[1] = a /\ <<a, b, c>>[2] = b /\ <<a, b, c>>[3] = c
  BY DEF Texts

\* Texts with the same lines are the same.
LEMMA SameText ==
    ASSUME NEW a \in Texts, NEW b \in Texts, Len(a) = Len(b),
           \A i \in 1..Len(a) : a[i] = b[i]
    PROVE  a = b
  BY SeqEqual DEF Texts

\* A line more.
LEMMA LineAppended ==
    ASSUME NEW a \in Line, NEW b \in Line, NEW c \in Line
    PROVE  <<a>> \o <<b>> = <<a, b>> /\ <<a, b>> \o <<c>> = <<a, b, c>>
<1>1. /\ <<a>> \in Texts /\ Len(<<a>>) = 1 /\ <<a>>[1] = a
      /\ <<b>> \in Texts /\ Len(<<b>>) = 1 /\ <<b>>[1] = b
      /\ <<c>> \in Texts /\ Len(<<c>>) = 1 /\ <<c>>[1] = c
  BY ShortTexts
<1>2. <<a, b>> \in Texts /\ Len(<<a, b>>) = 2 /\ <<a, b>>[1] = a /\ <<a, b>>[2] = b
  BY ShortTexts
<1>3. /\ <<a, b, c>> \in Texts /\ Len(<<a, b, c>>) = 3
      /\ <<a, b, c>>[1] = a /\ <<a, b, c>>[2] = b /\ <<a, b, c>>[3] = c
  BY ShortTexts
<1> DEFINE u == <<a>> \o <<b>>
           v == <<a, b>> \o <<c>>
<1>4. u \in Seq(Line) /\ Len(u) = 2 /\ u[1] = a /\ u[2] = b
  BY <1>1, ConcatProperties DEF Texts
<1>5. v \in Seq(Line) /\ Len(v) = 3 /\ v[1] = a /\ v[2] = b /\ v[3] = c
  BY <1>1, <1>2, ConcatProperties DEF Texts
<1> HIDE DEF u, v
<1>6. (\A i \in 1..2 : i = 1 \/ i = 2) /\ (\A i \in 1..3 : i = 1 \/ i = 2 \/ i = 3)
  OBVIOUS
<1>7. u # << >> /\ v # << >>
  <2>1. Len(u) # 0 /\ Len(v) # 0
    BY <1>4, <1>5
  <2>2. Len(<< >>) = 0
    OBVIOUS
  <2> QED
    BY <2>1, <2>2
<1>8. u = <<a, b>>
  BY <1>2, <1>4, <1>6, <1>7, SameText DEF Texts
<1>9. v = <<a, b, c>>
  BY <1>3, <1>5, <1>6, <1>7, SameText DEF Texts
<1> QED
  BY <1>8, <1>9 DEF u, v

\* The part of a text from line m to line n.
LEMMA PartOf ==
    ASSUME NEW a \in Texts, NEW m \in Nat, NEW n \in Int, m >= 1, n <= Len(a)
    PROVE  /\ SubSeq(a, m, n) \in Seq(Line)
           /\ Len(SubSeq(a, m, n)) = IF m <= n THEN n - m + 1 ELSE 0
           /\ \A i \in 1..n - m + 1 : SubSeq(a, m, n)[i] = a[m + i - 1]
<1>1. \A i \in m..n : a[i] \in Line
  BY TextEnds
<1> QED
  BY <1>1, SubSeqProperties

\* The first lines of a text.
LEMMA FirstLines ==
    ASSUME NEW a \in Texts, NEW n \in 0..Len(a)
    PROVE  /\ SubSeq(a, 1, n) \in Seq(Line)
           /\ Len(SubSeq(a, 1, n)) = n
           /\ \A i \in 1..n : SubSeq(a, 1, n)[i] = a[i]
<1>1. Len(a) \in Nat /\ n \in Int /\ n <= Len(a) /\ 1 \in Nat /\ 1 >= 1
  BY TextEnds
<1>2. /\ SubSeq(a, 1, n) \in Seq(Line)
      /\ Len(SubSeq(a, 1, n)) = IF 1 <= n THEN n - 1 + 1 ELSE 0
      /\ \A i \in 1..n - 1 + 1 : SubSeq(a, 1, n)[i] = a[1 + i - 1]
  BY <1>1, PartOf
<1>3. n - 1 + 1 = n /\ \A i \in 1..n : 1 + i - 1 = i
  BY <1>1
<1> QED
  BY <1>1, <1>2, <1>3

\* The lines of a text from line m on.
LEMMA LinesFrom ==
    ASSUME NEW a \in Texts, NEW m \in 1..Len(a) + 1
    PROVE  /\ SubSeq(a, m, Len(a)) \in Seq(Line)
           /\ Len(SubSeq(a, m, Len(a))) = Len(a) - m + 1
           /\ \A i \in 1..Len(a) - m + 1 : SubSeq(a, m, Len(a))[i] = a[m + i - 1]
<1>1. Len(a) \in Int /\ Len(a) <= Len(a) /\ m \in Nat /\ m >= 1
  BY TextEnds
<1>2. /\ SubSeq(a, m, Len(a)) \in Seq(Line)
      /\ Len(SubSeq(a, m, Len(a))) = IF m <= Len(a) THEN Len(a) - m + 1 ELSE 0
      /\ \A i \in 1..Len(a) - m + 1 : SubSeq(a, m, Len(a))[i] = a[m + i - 1]
  BY <1>1, PartOf
<1>3. m <= Len(a) \/ Len(a) - m + 1 = 0
  BY <1>1
<1> QED
  BY <1>1, <1>2, <1>3

\* Join runs the last line of the one text and the first of the other together.
LEMMA JoinLines ==
    ASSUME NEW a \in Texts, NEW b \in Texts
    PROVE  /\ Join(a, b) \in Texts
           /\ Len(Join(a, b)) = Len(a) + Len(b) - 1
           /\ \A i \in 1..Len(a) - 1 : Join(a, b)[i] = a[i]
           /\ Join(a, b)[Len(a)] = Glue(a[Len(a)], b[1])
           /\ \A i \in Len(a) + 1..Len(a) + Len(b) - 1 : Join(a, b)[i] = b[i - Len(a) + 1]
<1> DEFINE s == SubSeq(a, 1, Len(a) - 1)
           g == <<Glue(a[Len(a)], b[1])>>
           t == SubSeq(b, 2, Len(b))
<1>1. /\ Len(a) \in Nat /\ Len(a) >= 1 /\ Len(b) \in Nat /\ Len(b) >= 1
      /\ a[Len(a)] \in Line /\ b[1] \in Line
  BY TextEnds
<1>2. /\ s \in Seq(Line) /\ Len(s) = Len(a) - 1
      /\ \A i \in 1..Len(a) - 1 : s[i] = a[i]
  <2>1. Len(a) - 1 \in 0..Len(a)
    BY <1>1
  <2> QED
    BY <2>1, FirstLines
<1>3. /\ t \in Seq(Line) /\ Len(t) = Len(b) - 1
      /\ \A i \in 1..Len(b) - 1 : t[i] = b[i + 1]
  <2>1. 2 \in 1..Len(b) + 1
    BY <1>1
  <2>2. /\ t \in Seq(Line) /\ Len(t) = Len(b) - 2 + 1
        /\ \A i \in 1..Len(b) - 2 + 1 : t[i] = b[2 + i - 1]
    BY <2>1, LinesFrom
  <2>3. Len(b) - 2 + 1 = Len(b) - 1 /\ \A i \in 1..Len(b) - 1 : 2 + i - 1 = i + 1
    BY <1>1
  <2> QED
    BY <2>2, <2>3
<1>4. g \in Seq(Line) /\ Len(g) = 1 /\ g[1] = Glue(a[Len(a)], b[1])
  BY <1>1, GlueType, ShortTexts DEF Texts
<1> HIDE DEF s, g, t
<1>5. /\ s \o g \in Seq(Line) /\ Len(s \o g) = Len(a)
      /\ \A i \in 1..Len(a) - 1 : (s \o g)[i] = a[i]
      /\ (s \o g)[Len(a)] = g[1]
  <2>1. /\ s \o g \in Seq(Line) /\ Len(s \o g) = Len(s) + Len(g)
        /\ \A i \in 1..Len(s) + Len(g) : (s \o g)[i] = IF i <= Len(s) THEN s[i] ELSE g[i - Len(s)]
    BY <1>2, <1>4, ConcatProperties
  <2>2. Len(s) + Len(g) = Len(a) /\ Len(a) - Len(s) = 1 /\ ~(Len(a) <= Len(s))
    BY <1>1, <1>2, <1>4
  <2>3. \A i \in 1..Len(a) - 1 : i \in 1..Len(a) /\ i <= Len(s)
    BY <1>1, <1>2
  <2>4. Len(a) \in 1..Len(a)
    BY <1>1
  <2> QED
    BY <1>2, <2>1, <2>2, <2>3, <2>4
<1> DEFINE u == s \o g
<1>5a. /\ u \in Seq(Line) /\ Len(u) = Len(a)
       /\ \A i \in 1..Len(a) - 1 : u[i] = a[i]
       /\ u[Len(a)] = g[1]
  BY <1>5
<1> HIDE DEF u
<1>6. /\ u \o t \in Seq(Line)
      /\ Len(u \o t) = Len(a) + Len(b) - 1
      /\ \A i \in 1..Len(a) + Len(b) - 1 :
             (u \o t)[i] = IF i <= Len(a) THEN u[i] ELSE t[i - Len(a)]
  <2>1. Len(u) + Len(t) = Len(a) + Len(b) - 1
    BY <1>1, <1>3, <1>5a
  <2> QED
    <3>1. /\ u \o t \in Seq(Line) /\ Len(u \o t) = Len(u) + Len(t)
          /\ \A i \in 1..Len(u) + Len(t) : (u \o t)[i] =
                 IF i <= Len(u) THEN u[i] ELSE t[i - Len(u)]
      <4>1. u \in Seq(Line) /\ t \in Seq(Line)
        BY <1>3, <1>5a
      <4> QED
        BY <4>1, ConcatProperties
    <3> QED
      BY <1>5a, <2>1, <3>1
<1>7. \A i \in 1..Len(a) - 1 : (u \o t)[i] = a[i]
  BY <1>1, <1>5a, <1>6
<1>8. (u \o t)[Len(a)] = g[1]
  BY <1>1, <1>5a, <1>6
<1>9. \A i \in Len(a) + 1..Len(a) + Len(b) - 1 : (u \o t)[i] = b[i - Len(a) + 1]
  <2>1. SUFFICES ASSUME NEW i \in Len(a) + 1..Len(a) + Len(b) - 1
                 PROVE  (u \o t)[i] = b[i - Len(a) + 1]
    OBVIOUS
  <2>2. i \in 1..Len(a) + Len(b) - 1 /\ ~(i <= Len(a)) /\ i - Len(a) \in 1..Len(b) - 1
    BY <1>1
  <2>3. (u \o t)[i] = t[i - Len(a)]
    BY <1>6, <2>2
  <2> QED
    BY <1>3, <2>2, <2>3
<1>10. u \o t # << >>
  BY <1>1, <1>6, EmptySeq
<1>11. Join(a, b) = u \o t
  BY DEF Join, s, g, t, u
<1> QED
  BY <1>4, <1>6, <1>7, <1>8, <1>9, <1>10, <1>11 DEF Texts

\* Join is associative.
LEMMA JoinAssociative ==
    ASSUME NEW a \in Texts, NEW b \in Texts, NEW c \in Texts
    PROVE  Join(Join(a, b), c) = Join(a, Join(b, c))
<1> DEFINE ab == Join(a, b)
           bc == Join(b, c)
           l == Join(ab, c)
           r == Join(a, bc)
<1>1. /\ Len(a) \in Nat /\ Len(a) >= 1 /\ Len(b) \in Nat /\ Len(b) >= 1
      /\ Len(c) \in Nat /\ Len(c) >= 1
  BY TextEnds
<1>2. /\ ab \in Texts /\ Len(ab) = Len(a) + Len(b) - 1
      /\ \A i \in 1..Len(a) - 1 : ab[i] = a[i]
      /\ ab[Len(a)] = Glue(a[Len(a)], b[1])
      /\ \A i \in Len(a) + 1..Len(a) + Len(b) - 1 : ab[i] = b[i - Len(a) + 1]
  BY JoinLines
<1>3. /\ bc \in Texts /\ Len(bc) = Len(b) + Len(c) - 1
      /\ \A i \in 1..Len(b) - 1 : bc[i] = b[i]
      /\ bc[Len(b)] = Glue(b[Len(b)], c[1])
      /\ \A i \in Len(b) + 1..Len(b) + Len(c) - 1 : bc[i] = c[i - Len(b) + 1]
  BY JoinLines
<1> HIDE DEF ab, bc
<1>4. /\ l \in Texts /\ Len(l) = Len(ab) + Len(c) - 1
      /\ \A i \in 1..Len(ab) - 1 : l[i] = ab[i]
      /\ l[Len(ab)] = Glue(ab[Len(ab)], c[1])
      /\ \A i \in Len(ab) + 1..Len(ab) + Len(c) - 1 : l[i] = c[i - Len(ab) + 1]
  BY <1>2, JoinLines
<1>5. /\ r \in Texts /\ Len(r) = Len(a) + Len(bc) - 1
      /\ \A i \in 1..Len(a) - 1 : r[i] = a[i]
      /\ r[Len(a)] = Glue(a[Len(a)], bc[1])
      /\ \A i \in Len(a) + 1..Len(a) + Len(bc) - 1 : r[i] = bc[i - Len(a) + 1]
  BY <1>3, JoinLines
<1> HIDE DEF l, r
<1>6. Len(l) = Len(a) + Len(b) + Len(c) - 2 /\ Len(r) = Len(l)
  BY <1>1, <1>2, <1>3, <1>4, <1>5
<1>7. Len(b) = 1 \/ Len(b) > 1
  BY <1>1, OneOrMore
<1>8. ASSUME NEW i \in 1..Len(l)
      PROVE  l[i] = r[i]
  <2>1. CASE i < Len(a)
    <3>1. i \in 1..Len(a) - 1 /\ i \in 1..Len(ab) - 1
      BY <1>1, <1>2, <2>1
    <3> QED
      BY <1>2, <1>4, <1>5, <3>1
  <2>2. CASE i = Len(a)
    <3>1. CASE Len(b) = 1
      <4>1. l[i] = Glue(Glue(a[Len(a)], b[1]), c[1])
        BY <1>1, <1>2, <1>4, <2>2, <3>1
      <4>2. r[i] = Glue(a[Len(a)], Glue(b[1], c[1]))
        BY <1>1, <1>3, <1>5, <2>2, <3>1
      <4> QED
        BY <4>1, <4>2, GlueAssociative
    <3>2. CASE Len(b) > 1
      <4>1. Len(a) \in 1..Len(ab) - 1 /\ 1 \in 1..Len(b) - 1
        BY <1>1, <1>2, <3>2
      <4> QED
        BY <1>2, <1>3, <1>4, <1>5, <2>2, <4>1
    <3> QED
      BY <1>7, <3>1, <3>2
  <2>3. CASE Len(a) < i /\ i < Len(a) + Len(b) - 1
    <3>1. l[i] = b[i - Len(a) + 1]
      BY <1>1, <1>2, <1>4, <2>3
    <3>2. r[i] = bc[i - Len(a) + 1]
      BY <1>1, <1>3, <1>5, <2>3
    <3> QED
      BY <1>1, <1>3, <2>3, <3>1, <3>2
  <2>4. CASE Len(a) < i /\ i = Len(a) + Len(b) - 1
    <3>1. l[i] = Glue(b[Len(b)], c[1])
      <4>1. i = Len(ab)
        BY <1>2, <2>4
      <4>2. i \in Len(a) + 1..Len(a) + Len(b) - 1 /\ i - Len(a) + 1 = Len(b)
        BY <1>1, <2>4
      <4>3. ab[i] = b[i - Len(a) + 1]
        BY <1>2, <4>2
      <4> QED
        BY <1>4, <4>1, <4>2, <4>3
    <3>2. r[i] = bc[Len(b)]
      BY <1>1, <1>3, <1>5, <2>4
    <3> QED
      BY <1>3, <3>1, <3>2
  <2>5. CASE i > Len(a) + Len(b) - 1
    <3>1. l[i] = c[i - (Len(a) + Len(b) - 1) + 1]
      BY <1>1, <1>2, <1>4, <1>6, <2>5
    <3>2. CASE i > Len(a)
      <4>1. r[i] = bc[i - Len(a) + 1]
        BY <1>1, <1>3, <1>5, <1>6, <2>5, <3>2
      <4>2. i - Len(a) + 1 \in Len(b) + 1..Len(b) + Len(c) - 1
        BY <1>1, <1>6, <2>5
      <4>3. bc[i - Len(a) + 1] = c[(i - Len(a) + 1) - Len(b) + 1]
        BY <1>3, <4>2
      <4>4. (i - Len(a) + 1) - Len(b) + 1 = i - (Len(a) + Len(b) - 1) + 1
        BY <1>1
      <4> QED
        BY <3>1, <4>1, <4>3, <4>4
    <3> QED
      BY <1>1, <2>5, <3>2
  <2> QED
    BY <1>1, <1>6, <2>1, <2>2, <2>3, <2>4, <2>5
<1>9. l = r
  BY <1>4, <1>5, <1>6, <1>8, SameText
<1> QED
  BY <1>9 DEF l, r, ab, bc

\* The blank text is the unit of Join.
LEMMA JoinUnit ==
    ASSUME NEW a \in Texts
    PROVE  <<Blank>> \in Texts /\ Join(a, <<Blank>>) = a /\ Join(<<Blank>>, a) = a
<1>1. Blank \in Line
  BY DEF Line
<1>2. <<Blank>> \in Texts /\ Len(<<Blank>>) = 1 /\ <<Blank>>[1] = Blank
  BY <1>1, ShortTexts
<1>3. Len(a) \in Nat /\ Len(a) >= 1
  BY TextEnds
<1> DEFINE l == Join(a, <<Blank>>)
           r == Join(<<Blank>>, a)
<1>4. /\ l \in Texts /\ Len(l) = Len(a)
      /\ \A i \in 1..Len(a) - 1 : l[i] = a[i]
      /\ l[Len(a)] = Glue(a[Len(a)], Blank)
  <2>1. Len(l) = Len(a) + 1 - 1 /\ l[Len(a)] = Glue(a[Len(a)], <<Blank>>[1])
    BY <1>2, JoinLines
  <2>2. l \in Texts /\ \A i \in 1..Len(a) - 1 : l[i] = a[i]
    BY <1>2, JoinLines
  <2> QED
    BY <1>2, <1>3, <2>1, <2>2
<1>5. /\ r \in Texts /\ Len(r) = Len(a)
      /\ r[1] = Glue(Blank, a[1])
      /\ \A i \in 2..Len(a) : r[i] = a[i]
  <2>1. \A i \in 1 + 1..1 + Len(a) - 1 : r[i] = a[i - 1 + 1]
    BY <1>2, JoinLines
  <2>2. \A i \in 2..Len(a) : i - 1 + 1 = i /\ i \in 1 + 1..1 + Len(a) - 1
    BY <1>3
  <2>3. Len(r) = 1 + Len(a) - 1 /\ r[1] = Glue(<<Blank>>[1], a[1]) /\ r \in Texts
    <3>1. /\ Len(r) = Len(<<Blank>>) + Len(a) - 1 /\ r \in Texts
          /\ r[Len(<<Blank>>)] = Glue(<<Blank>>[Len(<<Blank>>)], a[1])
      BY <1>2, JoinLines
    <3> QED
      BY <1>2, <3>1
  <2>4. Len(r) = Len(a)
    BY <1>3, <2>3
  <2> QED
    BY <1>2, <2>1, <2>2, <2>3, <2>4
<1> HIDE DEF l, r
<1>6. l = a
  <2>1. \A i \in 1..Len(l) : l[i] = a[i]
    BY <1>3, <1>4, GlueAssociative
  <2> QED
    BY <1>4, <2>1, SameText
<1>7. r = a
  <2>1. \A i \in 1..Len(r) : r[i] = a[i]
    BY <1>3, <1>5, GlueAssociative
  <2> QED
    BY <1>5, <2>1, SameText
<1> QED
  BY <1>2, <1>6, <1>7 DEF l, r

-----------------------------------------------------------------------------
(* What is before a place, and what is after it.                           *)

\* What is before a line is what stands there and a blank line.
LEMMA BeforeLine ==
    ASSUME NEW a \in Texts, NEW p \in 1..Len(a)
    PROVE  /\ Before(a, p) \in Texts /\ Len(Before(a, p)) = p
           /\ \A i \in 1..p - 1 : Before(a, p)[i] = a[i]
           /\ Before(a, p)[p] = Blank
<1> DEFINE s == SubSeq(a, 1, p - 1)
           g == <<Blank>>
<1>1. Len(a) \in Nat /\ p \in Nat /\ p >= 1 /\ p <= Len(a) /\ p - 1 \in 0..Len(a)
  BY TextEnds
<1>2. s \in Seq(Line) /\ Len(s) = p - 1 /\ \A i \in 1..p - 1 : s[i] = a[i]
  BY <1>1, FirstLines
<1>3. g \in Seq(Line) /\ Len(g) = 1 /\ g[1] = Blank
  <2>1. Blank \in Line
    BY DEF Line
  <2> QED
    BY <2>1, ShortTexts DEF Texts
<1>4. Before(a, p) = s \o g
  BY <1>1 DEF Before
<1> HIDE DEF s, g
<1>5. /\ s \o g \in Seq(Line) /\ Len(s \o g) = Len(s) + Len(g)
      /\ \A i \in 1..Len(s) + Len(g) : (s \o g)[i] = IF i <= Len(s) THEN s[i] ELSE g[i - Len(s)]
  BY <1>2, <1>3, ConcatProperties
<1>6. Len(s) + Len(g) = p
  BY <1>1, <1>2, <1>3
<1>7. s \o g # << >>
  BY <1>1, <1>5, <1>6, EmptySeq
<1>8. \A i \in 1..p - 1 : i \in 1..p /\ i <= Len(s)
  BY <1>1, <1>2
<1>9. p \in 1..p /\ ~(p <= Len(s)) /\ p - Len(s) = 1
  BY <1>1, <1>2
<1> QED
  BY <1>2, <1>3, <1>4, <1>5, <1>6, <1>7, <1>8, <1>9 DEF Texts

\* All of a text is before its end.
LEMMA BeforeEnd ==
    ASSUME NEW a \in Texts
    PROVE  Before(a, Len(a) + 1) = a
<1>1. ~(Len(a) + 1 <= Len(a))
  BY TextEnds
<1> QED
  BY <1>1 DEF Before

\* What is after a place is the rest of the lines.
LEMMA AfterLine ==
    ASSUME NEW a \in Texts, NEW p \in 1..Len(a)
    PROVE  /\ After(a, p) \in Texts /\ Len(After(a, p)) = Len(a) - p + 1
           /\ \A i \in 1..Len(a) - p + 1 : After(a, p)[i] = a[p + i - 1]
<1>1. Len(a) \in Nat /\ p \in Nat /\ p <= Len(a) /\ p \in 1..Len(a) + 1
  BY TextEnds
<1>2. After(a, p) = SubSeq(a, p, Len(a))
  BY <1>1 DEF After
<1>3. /\ SubSeq(a, p, Len(a)) \in Seq(Line)
      /\ Len(SubSeq(a, p, Len(a))) = Len(a) - p + 1
      /\ \A i \in 1..Len(a) - p + 1 : SubSeq(a, p, Len(a))[i] = a[p + i - 1]
  BY <1>1, LinesFrom
<1>4. Len(a) - p + 1 # 0
  BY <1>1
<1>5. SubSeq(a, p, Len(a)) # << >>
  BY <1>3, <1>4, EmptySeq
<1> QED
  BY <1>2, <1>3, <1>5 DEF Texts

\* Nothing is after the end.
LEMMA AfterEnd ==
    ASSUME NEW a \in Texts
    PROVE  After(a, Len(a) + 1) = <<Blank>>
<1>1. ~(Len(a) + 1 <= Len(a))
  BY TextEnds
<1> QED
  BY <1>1 DEF After

\* A place is a line's beginning or the end.
LEMMA PlaceCases ==
    ASSUME NEW a \in Texts, NEW p \in PlacesIn(a)
    PROVE  p \in 1..Len(a) \/ p = Len(a) + 1
<1>1. Len(a) \in Nat /\ p \in 1..Len(a) + 1
  BY TextEnds DEF PlacesIn
<1>2. \A n \in Nat : \A q \in 1..n + 1 : q \in 1..n \/ q = n + 1
  OBVIOUS
<1> QED
  BY <1>1, <1>2

\* What is before and after a place are texts.
LEMMA BeforeAfterType ==
    ASSUME NEW a \in Texts, NEW p \in PlacesIn(a)
    PROVE  Before(a, p) \in Texts /\ After(a, p) \in Texts
<1>1. CASE p \in 1..Len(a)
  BY <1>1, BeforeLine, AfterLine
<1>2. CASE p = Len(a) + 1
  BY <1>2, BeforeEnd, AfterEnd, JoinUnit
<1> QED
  BY <1>1, <1>2, PlaceCases

\* A text is what is before a place and what is after it.
LEMMA BeforeJoinAfter ==
    ASSUME NEW a \in Texts, NEW p \in PlacesIn(a)
    PROVE  Join(Before(a, p), After(a, p)) = a
<1>1. CASE p = Len(a) + 1
  BY <1>1, BeforeEnd, AfterEnd, JoinUnit
<1>2. CASE p \in 1..Len(a)
  <2> DEFINE b == Before(a, p)
             c == After(a, p)
             j == Join(b, c)
  <2>1. Len(a) \in Nat /\ p \in Nat /\ p >= 1 /\ p <= Len(a)
    BY <1>2, TextEnds
  <2>2. b \in Texts /\ Len(b) = p /\ (\A i \in 1..p - 1 : b[i] = a[i]) /\ b[p] = Blank
    BY <1>2, BeforeLine
  <2>3. /\ c \in Texts /\ Len(c) = Len(a) - p + 1
        /\ \A i \in 1..Len(a) - p + 1 : c[i] = a[p + i - 1]
    BY <1>2, AfterLine
  <2> HIDE DEF b, c
  <2>4. /\ j \in Texts /\ Len(j) = Len(b) + Len(c) - 1
        /\ \A i \in 1..Len(b) - 1 : j[i] = b[i]
        /\ j[Len(b)] = Glue(b[Len(b)], c[1])
        /\ \A i \in Len(b) + 1..Len(b) + Len(c) - 1 : j[i] = c[i - Len(b) + 1]
    BY <2>2, <2>3, JoinLines
  <2> HIDE DEF j
  <2>5. Len(b) + Len(c) - 1 = Len(a)
    BY <2>1, <2>2, <2>3
  <2>6. ASSUME NEW i \in 1..Len(a) PROVE j[i] = a[i]
    <3>1. CASE i < p
      <4>1. i \in 1..p - 1
        BY <2>1, <3>1
      <4> QED
        BY <2>2, <2>4, <4>1
    <3>2. CASE i = p
      <4>1. 1 \in 1..Len(a) - p + 1 /\ p + 1 - 1 = p
        BY <2>1
      <4>2. c[1] = a[p]
        BY <2>3, <4>1
      <4> QED
        BY <2>2, <2>4, <3>2, <4>2, GlueAssociative
    <3>3. CASE i > p
      <4>1. i \in p + 1..Len(a) /\ i - p + 1 \in 1..Len(a) - p + 1 /\ p + (i - p + 1) - 1 = i
        BY <2>1, <3>3
      <4>2. j[i] = c[i - p + 1]
        BY <2>2, <2>4, <2>5, <4>1
      <4>3. c[i - p + 1] = a[p + (i - p + 1) - 1]
        BY <2>3, <4>1
      <4> QED
        BY <4>1, <4>2, <4>3
    <3>4. i \in Int /\ p \in Int
      BY <2>1
    <3>5. i < p \/ i = p \/ i > p
      BY <3>4
    <3> QED
      BY <3>1, <3>2, <3>3, <3>5
  <2>7. j = a
    BY <2>4, <2>5, <2>6, SameText
  <2> QED
    BY <2>7 DEF j, b, c
<1> QED
  BY <1>1, <1>2, PlaceCases

-----------------------------------------------------------------------------
(* Places in a text that was joined of two.                                *)

\* Before a line of the first text.
LEMMA BeforeInFirst ==
    ASSUME NEW a \in Texts, NEW b \in Texts, NEW p \in 1..Len(a)
    PROVE  p \in 1..Len(Join(a, b)) /\ Before(Join(a, b), p) = Before(a, p)
<1> DEFINE j == Join(a, b)
           l == Before(j, p)
           r == Before(a, p)
<1>1. /\ Len(a) \in Nat /\ Len(b) \in Nat /\ Len(b) >= 1
      /\ p \in Nat /\ p >= 1 /\ p <= Len(a)
  BY TextEnds
<1>2. /\ j \in Texts /\ Len(j) = Len(a) + Len(b) - 1
      /\ \A i \in 1..Len(a) - 1 : j[i] = a[i]
  BY JoinLines
<1> HIDE DEF j
<1>3. p \in 1..Len(j)
  BY <1>1, <1>2
<1>4. l \in Texts /\ Len(l) = p /\ (\A i \in 1..p - 1 : l[i] = j[i]) /\ l[p] = Blank
  BY <1>2, <1>3, BeforeLine
<1>5. r \in Texts /\ Len(r) = p /\ (\A i \in 1..p - 1 : r[i] = a[i]) /\ r[p] = Blank
  BY BeforeLine
<1> HIDE DEF l, r
<1>6. ASSUME NEW i \in 1..p PROVE l[i] = r[i]
  <2>1. i # p => i \in 1..p - 1 /\ i \in 1..Len(a) - 1
    BY <1>1
  <2> QED
    BY <1>2, <1>4, <1>5, <2>1
<1>7. l = r
  BY <1>4, <1>5, <1>6, SameText
<1> QED
  BY <1>3, <1>7 DEF l, r, j

\* After a line of the first text.
LEMMA AfterInFirst ==
    ASSUME NEW a \in Texts, NEW b \in Texts, NEW p \in 1..Len(a)
    PROVE  After(Join(a, b), p) = Join(After(a, p), b)
<1> DEFINE j == Join(a, b)
           c == After(a, p)
           l == After(j, p)
           r == Join(c, b)
<1>1. /\ Len(a) \in Nat /\ Len(b) \in Nat /\ Len(b) >= 1
      /\ p \in Nat /\ p >= 1 /\ p <= Len(a)
  BY TextEnds
<1>2. /\ j \in Texts /\ Len(j) = Len(a) + Len(b) - 1
      /\ \A i \in 1..Len(a) - 1 : j[i] = a[i]
      /\ j[Len(a)] = Glue(a[Len(a)], b[1])
      /\ \A i \in Len(a) + 1..Len(a) + Len(b) - 1 : j[i] = b[i - Len(a) + 1]
  BY JoinLines
<1>3. /\ c \in Texts /\ Len(c) = Len(a) - p + 1
      /\ \A i \in 1..Len(a) - p + 1 : c[i] = a[p + i - 1]
  BY AfterLine
<1> HIDE DEF j, c
<1>4. p \in 1..Len(j)
  BY <1>1, <1>2
<1>5. /\ l \in Texts /\ Len(l) = Len(j) - p + 1
      /\ \A i \in 1..Len(j) - p + 1 : l[i] = j[p + i - 1]
  BY <1>2, <1>4, AfterLine
<1>6. /\ r \in Texts /\ Len(r) = Len(c) + Len(b) - 1
      /\ \A i \in 1..Len(c) - 1 : r[i] = c[i]
      /\ r[Len(c)] = Glue(c[Len(c)], b[1])
      /\ \A i \in Len(c) + 1..Len(c) + Len(b) - 1 : r[i] = b[i - Len(c) + 1]
  BY <1>3, JoinLines
<1> HIDE DEF l, r
<1>7. Len(l) = Len(a) + Len(b) - p /\ Len(r) = Len(l)
  BY <1>1, <1>2, <1>3, <1>5, <1>6
<1>8. ASSUME NEW i \in 1..Len(l) PROVE l[i] = r[i]
  <2>1. i \in 1..Len(j) - p + 1 /\ l[i] = j[p + i - 1]
    BY <1>5
  <2>2. CASE i < Len(a) - p + 1
    <3>1. /\ i \in 1..Len(c) - 1 /\ i \in 1..Len(a) - p + 1
          /\ p + i - 1 \in 1..Len(a) - 1
      BY <1>1, <1>3, <2>2
    <3>2. j[p + i - 1] = a[p + i - 1]
      BY <1>2, <3>1
    <3> QED
      BY <1>3, <1>6, <2>1, <3>1, <3>2
  <2>3. CASE i = Len(a) - p + 1
    <3>1. i = Len(c) /\ p + i - 1 = Len(a) /\ i \in 1..Len(a) - p + 1
      BY <1>1, <1>3, <2>3
    <3>2. c[i] = a[p + i - 1]
      BY <1>3, <3>1
    <3> QED
      BY <1>2, <1>6, <2>1, <3>1, <3>2
  <2>4. CASE i > Len(a) - p + 1
    <3>1. p + i - 1 \in Len(a) + 1..Len(a) + Len(b) - 1
      BY <1>1, <1>7, <2>4
    <3>2. i \in Len(c) + 1..Len(c) + Len(b) - 1
      BY <1>1, <1>3, <1>7, <2>4
    <3>3. (p + i - 1) - Len(a) + 1 = i - Len(c) + 1
      BY <1>1, <1>3
    <3>4. j[p + i - 1] = b[(p + i - 1) - Len(a) + 1]
      BY <1>2, <3>1
    <3>5. r[i] = b[i - Len(c) + 1]
      BY <1>6, <3>2
    <3> QED
      BY <2>1, <3>3, <3>4, <3>5
  <2>5. \A m, n \in Int : m < n \/ m = n \/ m > n
    OBVIOUS
  <2>6. i \in Int /\ Len(a) - p + 1 \in Int
    BY <1>1
  <2> QED
    BY <2>2, <2>3, <2>4, <2>5, <2>6
<1>9. l = r
  BY <1>5, <1>6, <1>7, <1>8, SameText
<1> QED
  BY <1>9 DEF l, r, j, c

\* Before a place of the second text, when the first one ends with a blank line.
LEMMA BeforeInSecond ==
    ASSUME NEW a \in Texts, NEW b \in Texts, a[Len(a)] = Blank, NEW p \in PlacesIn(b)
    PROVE  /\ Len(a) - 1 + p \in PlacesIn(Join(a, b))
           /\ Before(Join(a, b), Len(a) - 1 + p) = Join(a, Before(b, p))
<1> DEFINE j == Join(a, b)
           m == Len(a) - 1 + p
           c == Before(b, p)
           l == Before(j, m)
           r == Join(a, c)
<1>1. Len(a) \in Nat /\ Len(a) >= 1 /\ Len(b) \in Nat /\ Len(b) >= 1
  BY TextEnds
<1>2. /\ j \in Texts /\ Len(j) = Len(a) + Len(b) - 1
      /\ \A i \in 1..Len(a) - 1 : j[i] = a[i]
      /\ j[Len(a)] = Glue(a[Len(a)], b[1])
      /\ \A i \in Len(a) + 1..Len(a) + Len(b) - 1 : j[i] = b[i - Len(a) + 1]
  BY JoinLines
<1> HIDE DEF j
<1>3. m \in PlacesIn(j)
  BY <1>1, <1>2 DEF PlacesIn
<1>4. CASE p = Len(b) + 1
  <2>1. m = Len(j) + 1
    BY <1>1, <1>2, <1>4
  <2>2. l = j
    BY <1>2, <2>1, BeforeEnd
  <2>3. c = b
    BY <1>4, BeforeEnd
  <2> QED
    BY <1>3, <2>2, <2>3 DEF j
<1>5. CASE p \in 1..Len(b)
  <2>1. p \in Nat /\ p >= 1 /\ p <= Len(b) /\ m \in 1..Len(j)
    BY <1>1, <1>2, <1>5
  <2>2. c \in Texts /\ Len(c) = p /\ (\A i \in 1..p - 1 : c[i] = b[i]) /\ c[p] = Blank
    BY <1>5, BeforeLine
  <2> HIDE DEF c
  <2>3. l \in Texts /\ Len(l) = m /\ (\A i \in 1..m - 1 : l[i] = j[i]) /\ l[m] = Blank
    BY <1>2, <2>1, BeforeLine
  <2>4. /\ r \in Texts /\ Len(r) = Len(a) + Len(c) - 1
        /\ \A i \in 1..Len(a) - 1 : r[i] = a[i]
        /\ r[Len(a)] = Glue(a[Len(a)], c[1])
        /\ \A i \in Len(a) + 1..Len(a) + Len(c) - 1 : r[i] = c[i - Len(a) + 1]
    BY <2>2, JoinLines
  <2> HIDE DEF l, r
  <2>5. Len(r) = Len(l)
    BY <1>1, <2>1, <2>2, <2>3, <2>4
  <2>6. ASSUME NEW i \in 1..Len(l) PROVE l[i] = r[i]
    <3>1. i \in 1..m
      BY <2>3
    <3>2. CASE i < Len(a)
      <4>1. i \in 1..Len(a) - 1 /\ i \in 1..m - 1
        BY <1>1, <2>1, <3>1, <3>2
      <4> QED
        BY <1>2, <2>3, <2>4, <4>1
    <3>3. CASE i = Len(a) /\ p = 1
      <4>1. m = Len(a)
        BY <1>1, <3>3
      <4>2. r[i] = Glue(Blank, Blank)
        BY <2>2, <2>4, <3>3
      <4> QED
        BY <2>3, <3>3, <4>1, <4>2, GlueAssociative
    <3>4. CASE i = Len(a) /\ p > 1
      <4>1. Len(a) \in 1..m - 1 /\ 1 \in 1..p - 1
        BY <1>1, <2>1, <3>4
      <4> QED
        BY <1>2, <2>2, <2>3, <2>4, <3>4, <4>1
    <3>5. CASE i > Len(a) /\ i < m
      <4>1. /\ i \in 1..m - 1 /\ i \in Len(a) + 1..Len(a) + Len(b) - 1
            /\ i \in Len(a) + 1..Len(a) + Len(c) - 1 /\ i - Len(a) + 1 \in 1..p - 1
        BY <1>1, <2>1, <2>2, <3>1, <3>5
      <4>2. l[i] = b[i - Len(a) + 1]
        BY <1>2, <2>3, <4>1
      <4>3. r[i] = c[i - Len(a) + 1]
        BY <2>4, <4>1
      <4> QED
        BY <2>2, <4>1, <4>2, <4>3
    <3>6. CASE i > Len(a) /\ i = m
      <4>1. i \in Len(a) + 1..Len(a) + Len(c) - 1 /\ i - Len(a) + 1 = p
        BY <1>1, <2>1, <2>2, <3>1, <3>6
      <4>2. r[i] = c[i - Len(a) + 1]
        BY <2>4, <4>1
      <4> QED
        BY <2>2, <2>3, <3>6, <4>1, <4>2
    <3>7. \A x, y \in Int : x < y \/ x = y \/ x > y
      OBVIOUS
    <3>8. i \in Int /\ Len(a) \in Int /\ m \in Int /\ i <= m
      BY <1>1, <2>1, <3>1
    <3>9. \A x, y \in Int : x <= y => x < y \/ x = y
      OBVIOUS
    <3>10. p = 1 \/ p > 1
      BY <2>1, OneOrMore
    <3> HIDE DEF m
    <3> QED
      BY <3>2, <3>3, <3>4, <3>5, <3>6, <3>7, <3>8, <3>9, <3>10
  <2>7. l = r
    BY <2>3, <2>4, <2>5, <2>6, SameText
  <2> QED
    BY <1>3, <2>7 DEF l, r, j, c
<1> QED
  BY <1>4, <1>5, PlaceCases

\* After a place of the second text, when the first one ends with a blank line.
LEMMA AfterInSecond ==
    ASSUME NEW a \in Texts, NEW b \in Texts, a[Len(a)] = Blank, NEW p \in PlacesIn(b)
    PROVE  After(Join(a, b), Len(a) - 1 + p) = After(b, p)
<1> DEFINE j == Join(a, b)
           m == Len(a) - 1 + p
           l == After(j, m)
           r == After(b, p)
<1>1. /\ Len(a) \in Nat /\ Len(a) >= 1 /\ Len(b) \in Nat /\ Len(b) >= 1
      /\ \A i \in 1..Len(b) : b[i] \in Line
  BY TextEnds
<1>2. /\ j \in Texts /\ Len(j) = Len(a) + Len(b) - 1
      /\ j[Len(a)] = Glue(a[Len(a)], b[1])
      /\ \A i \in Len(a) + 1..Len(a) + Len(b) - 1 : j[i] = b[i - Len(a) + 1]
  BY JoinLines
<1> HIDE DEF j
<1>3. CASE p = Len(b) + 1
  <2>1. m = Len(j) + 1
    BY <1>1, <1>2, <1>3
  <2> QED
    BY <1>2, <1>3, <2>1, AfterEnd DEF j
<1>4. CASE p \in 1..Len(b)
  <2>1. p \in Nat /\ p >= 1 /\ p <= Len(b) /\ m \in 1..Len(j)
    BY <1>1, <1>2, <1>4
  <2>2. /\ r \in Texts /\ Len(r) = Len(b) - p + 1
        /\ \A i \in 1..Len(b) - p + 1 : r[i] = b[p + i - 1]
    BY <1>4, AfterLine
  <2>3. /\ l \in Texts /\ Len(l) = Len(j) - m + 1
        /\ \A i \in 1..Len(j) - m + 1 : l[i] = j[m + i - 1]
    BY <1>2, <2>1, AfterLine
  <2> HIDE DEF l, r
  <2>4. Len(j) - m + 1 = Len(b) - p + 1
    BY <1>1, <1>2, <2>1
  <2>5. ASSUME NEW i \in 1..Len(b) - p + 1 PROVE l[i] = r[i]
    <3>1. l[i] = j[m + i - 1] /\ r[i] = b[p + i - 1]
      BY <2>2, <2>3, <2>4
    <3>2. CASE p + i - 1 = 1
      <4>1. m + i - 1 = Len(a)
        BY <1>1, <2>1, <3>2
      <4> QED
        BY <1>2, <3>1, <3>2, <4>1, GlueAssociative
    <3>3. CASE p + i - 1 > 1
      <4>1. m + i - 1 \in Len(a) + 1..Len(a) + Len(b) - 1
        BY <1>1, <2>1, <3>3
      <4>2. (m + i - 1) - Len(a) + 1 = p + i - 1
        BY <1>1, <2>1
      <4> QED
        BY <1>2, <3>1, <4>1, <4>2
    <3>4. p + i - 1 \in Nat /\ p + i - 1 >= 1
      BY <2>1
    <3> QED
      BY <3>2, <3>3, <3>4, OneOrMore
  <2>6. l = r
    BY <2>2, <2>3, <2>4, <2>5, SameText
  <2> QED
    BY <2>6 DEF l, r, j
<1> QED
  BY <1>3, <1>4, PlaceCases

-----------------------------------------------------------------------------
(* Edits.                                                                  *)

\* An edit leaves a text.
LEMMA SubstitutedType ==
    ASSUME NEW a \in Texts, NEW r, r.first \in PlacesIn(a), r.last \in PlacesIn(a), NEW b \in Texts
    PROVE  Substituted(a, r, b) \in Texts
<1>1. Before(a, r.first) \in Texts /\ After(a, r.last) \in Texts
  BY BeforeAfterType
<1>2. Join(Before(a, r.first), b) \in Texts
  BY <1>1, JoinLines
<1>3. Join(Join(Before(a, r.first), b), After(a, r.last)) \in Texts
  BY <1>1, <1>2, JoinLines
<1> QED
  BY <1>3 DEF Substituted

\* An edit above a text that is joined on leaves that text alone.
LEMMA SubstitutedInFirst ==
    ASSUME NEW a \in Texts, NEW b \in Texts, NEW c \in Texts,
           NEW r, r.first \in 1..Len(a), r.last \in 1..Len(a)
    PROVE  Substituted(Join(a, b), r, c) = Join(Substituted(a, r, c), b)
<1> DEFINE u == Before(a, r.first)
           v == After(a, r.last)
<1>1. Before(Join(a, b), r.first) = u /\ After(Join(a, b), r.last) = Join(v, b)
  BY BeforeInFirst, AfterInFirst
<1>2. u \in Texts /\ v \in Texts
  BY BeforeLine, AfterLine
<1>3. Join(u, c) \in Texts
  BY <1>2, JoinLines
<1>4. Join(Join(u, c), Join(v, b)) = Join(Join(Join(u, c), v), b)
  BY <1>2, <1>3, JoinAssociative
<1>5. Substituted(Join(a, b), r, c) = Join(Join(u, c), Join(v, b))
  BY <1>1 DEF Substituted
<1>6. Substituted(a, r, c) = Join(Join(u, c), v)
  BY DEF Substituted
<1> QED
  BY <1>4, <1>5, <1>6

\* An edit below a text that ends with a blank line leaves that text alone, when it is
\* made that text's lines further down.
LEMMA SubstitutedInSecond ==
    ASSUME NEW a \in Texts, NEW b \in Texts, NEW c \in Texts, a[Len(a)] = Blank,
           NEW r, r.first \in PlacesIn(b), r.last \in PlacesIn(b),
           NEW s, s.first = Len(a) - 1 + r.first, s.last = Len(a) - 1 + r.last
    PROVE  Substituted(Join(a, b), s, c) = Join(a, Substituted(b, r, c))
<1> DEFINE u == Before(b, r.first)
           v == After(b, r.last)
<1>1. Before(Join(a, b), s.first) = Join(a, u) /\ After(Join(a, b), s.last) = v
  BY BeforeInSecond, AfterInSecond
<1>2. u \in Texts /\ v \in Texts
  BY BeforeAfterType
<1>3. Join(u, c) \in Texts
  BY <1>2, JoinLines
<1>4. Join(Join(a, u), c) = Join(a, Join(u, c))
  BY <1>2, JoinAssociative
<1>5. Join(Join(a, Join(u, c)), v) = Join(a, Join(Join(u, c), v))
  BY <1>2, <1>3, JoinAssociative
<1>6. Substituted(Join(a, b), s, c) = Join(Join(Join(a, u), c), v)
  BY <1>1 DEF Substituted
<1>7. Substituted(b, r, c) = Join(Join(u, c), v)
  BY DEF Substituted
<1> QED
  BY <1>4, <1>5, <1>6, <1>7

\* Between a place and itself there is a blank line.
LEMMA SliceAt ==
    ASSUME NEW a \in Texts, NEW p \in PlacesIn(a)
    PROVE  Slice(a, At(p)) = <<Blank>>
<1>1. Slice(a, At(p)) = After(Before(a, p), p)
  BY DEF Slice, At
<1>2. CASE p = Len(a) + 1
  BY <1>1, <1>2, BeforeEnd, AfterEnd
<1>3. CASE p \in 1..Len(a)
  <2> DEFINE b == Before(a, p)
             c == After(b, p)
  <2>1. p \in Nat /\ p \in 1..p /\ p - p + 1 = 1 /\ p + 1 - 1 = p /\ 1 \in 1..1
    BY <1>3
  <2>2. b \in Texts /\ Len(b) = p /\ b[p] = Blank
    BY <1>3, BeforeLine
  <2> HIDE DEF b
  <2>3. c \in Texts /\ Len(c) = p - p + 1 /\ \A i \in 1..p - p + 1 : c[i] = b[p + i - 1]
    BY <2>1, <2>2, AfterLine
  <2> HIDE DEF c
  <2>4. c \in Texts /\ Len(c) = 1 /\ c[1] = Blank
    BY <2>1, <2>2, <2>3
  <2>5. <<Blank>> \in Texts /\ Len(<<Blank>>) = 1 /\ <<Blank>>[1] = Blank
    <3>1. Blank \in Line
      BY DEF Line
    <3> QED
      BY <3>1, ShortTexts
  <2>6. \A i \in 1..1 : i = 1
    OBVIOUS
  <2>7. \A i \in 1..Len(c) : c[i] = <<Blank>>[i]
    BY <2>4, <2>5, <2>6
  <2>8. c = <<Blank>>
    BY <2>4, <2>5, <2>7, SameText
  <2> QED
    BY <1>1, <2>8 DEF c, b
<1> QED
  BY <1>2, <1>3, PlaceCases

\* A range above what is joined on holds what it held.
LEMMA SliceInFirst ==
    ASSUME NEW a \in Texts, NEW b \in Texts, NEW r, r.last \in 1..Len(a)
    PROVE  Slice(Join(a, b), r) = Slice(a, r)
  BY BeforeInFirst DEF Slice

\* A range below a text that ends with a blank line holds what it held before, that
\* text's lines further down.
LEMMA SliceInSecond ==
    ASSUME NEW a \in Texts, NEW b \in Texts, a[Len(a)] = Blank,
           NEW r, r.first \in PlacesIn(b), r.last \in PlacesIn(b), r.first <= r.last,
           NEW s, s.first = Len(a) - 1 + r.first, s.last = Len(a) - 1 + r.last
    PROVE  Slice(Join(a, b), s) = Slice(b, r)
<1> DEFINE u == Before(b, r.last)
<1>1. Before(Join(a, b), s.last) = Join(a, u)
  BY BeforeInSecond
<1>2. u \in Texts
  BY BeforeAfterType
<1>3. r.first \in PlacesIn(u)
  <2>1. Len(b) \in Nat /\ r.first \in 1..Len(b) + 1 /\ r.last \in 1..Len(b) + 1
    BY TextEnds DEF PlacesIn
  <2>2. CASE r.last \in 1..Len(b)
    <3>1. Len(u) = r.last
      BY <2>2, BeforeLine
    <3> QED
      BY <2>1, <3>1 DEF PlacesIn
  <2>3. CASE r.last = Len(b) + 1
    <3>1. u = b
      BY <2>3, BeforeEnd
    <3> QED
      BY <3>1
  <2> QED
    BY <2>2, <2>3, PlaceCases
<1> HIDE DEF u
<1>4. After(Join(a, u), s.first) = After(u, r.first)
  BY <1>2, <1>3, AfterInSecond
<1> QED
  BY <1>1, <1>4 DEF Slice, u

\* The host leaves a range alone that is within the text.
LEMMA ValidatedWithin ==
    ASSUME NEW a \in Texts, NEW r, r.first \in PlacesIn(a), r.last \in PlacesIn(a)
    PROVE  Validated(a, r) = [first |-> r.first, last |-> r.last]
<1>1. \A p \in PlacesIn(a) : (IF p <= Len(a) THEN p ELSE Len(a) + 1) = p
  BY TextEnds DEF PlacesIn
<1> QED
  BY <1>1 DEF Validated

\* Whatever the range, the host makes it one within the text.
LEMMA ValidatedPlaces ==
    ASSUME NEW a \in Texts, NEW r, r.first \in Nat, r.first >= 1, r.last \in Nat, r.first <= r.last
    PROVE  /\ Validated(a, r).first \in PlacesIn(a) /\ Validated(a, r).last \in PlacesIn(a)
           /\ Validated(a, r).first <= Validated(a, r).last
<1> DEFINE m(p) == IF p <= Len(a) THEN p ELSE Len(a) + 1
<1>1. Len(a) \in Nat
  BY TextEnds
<1>2. \A p \in Nat : p >= 1 => m(p) \in 1..Len(a) + 1
  BY <1>1
<1>3. \A p, q \in Nat : p <= q => m(p) <= m(q)
  BY <1>1
<1>4. Validated(a, r).first = m(r.first) /\ Validated(a, r).last = m(r.last)
  BY DEF Validated
<1> HIDE DEF m
<1>5. r.last >= 1
  OBVIOUS
<1> QED
  BY <1>2, <1>3, <1>4, <1>5 DEF PlacesIn

\* An insertion keeps its one place.
LEMMA ValidatedAt ==
    ASSUME NEW a \in Texts, NEW r, r.first = r.last
    PROVE  Validated(a, r) = At(Validated(a, r).first)
  BY DEF Validated, At

-----------------------------------------------------------------------------
(* The imports' place and their lines.                                     *)

\* A set of numbers that is not empty has a least one.
LEMMA LeastPlace ==
    ASSUME NEW T \in SUBSET Nat, T # {}
    PROVE  \E x \in T : \A y \in T : x <= y
<1>1. PICK x \in T : \A y \in T : ~ (<<y, x>> \in OpToRel(<, Nat))
  BY NatLessThanWellFounded, WFMin
<1>2. \A y \in T : ~(y < x)
  BY <1>1 DEF OpToRel
<1> QED
  BY <1>2

\* The first line that is not in a set is there, if only at the end.
LEMMA FirstNotPlace ==
    ASSUME NEW a \in Texts, NEW S, NEW from \in PlacesIn(a)
    PROVE  FirstNot(a, S, from) \in PlacesIn(a)
<1> DEFINE Stops(i) == i = Len(a) + 1 \/ a[i] \notin S
           T == {i \in from..Len(a) + 1 : Stops(i)}
<1>1. Len(a) \in Nat /\ from \in 1..Len(a) + 1
  BY TextEnds DEF PlacesIn
<1>2. T \in SUBSET Nat
  BY <1>1
<1>3. Len(a) + 1 \in T
  BY <1>1
<1>4. PICK i \in T : \A y \in T : i <= y
  BY <1>2, <1>3, LeastPlace
<1>5. i \in from..Len(a) + 1 /\ Stops(i)
  BY <1>4
<1>6. ASSUME NEW j \in from..i - 1 PROVE a[j] \in S
  <2>1. j \in from..Len(a) + 1 /\ ~(i <= j)
    BY <1>1, <1>5
  <2>2. j \notin T
    BY <1>4, <2>1
  <2> QED
    BY <2>1, <2>2
<1>7. \E k \in from..Len(a) + 1 :
          /\ k = Len(a) + 1 \/ a[k] \notin S
          /\ \A j \in from..k - 1 : a[j] \in S
  BY <1>5, <1>6
<1>8. FirstNot(a, S, from) \in from..Len(a) + 1
  BY <1>7 DEF FirstNot
<1> QED
  BY <1>1, <1>8 DEF PlacesIn

\* The imports' line is a place of the text.
LEMMA InsertLinePlace ==
    ASSUME NEW a \in Texts
    PROVE  InsertLine(a) \in PlacesIn(a)
<1>1. 1 \in PlacesIn(a)
  BY TextEnds DEF PlacesIn
<1>2. GenericLine(a) \in PlacesIn(a)
  BY <1>1, FirstNotPlace DEF GenericLine
<1>3. JsTsLine(a) \in PlacesIn(a)
  BY <1>1, FirstNotPlace DEF JsTsLine
<1>4. GoLine(a) \in PlacesIn(a)
  BY <1>1, <1>2, FirstNotPlace DEF GoLine
<1> QED
  BY <1>2, <1>3, <1>4 DEF InsertLine

\* What the import action puts in: the import, perhaps a blank line, and a new line.
Block(text) == ImportBlock(text) \o <<Blank>>

\* The block is a text of the import and blank lines.
LEMMA BlockLines ==
    ASSUME NEW a
    PROVE  /\ Block(a) \in Texts
           /\ Len(ImportBlock(a)) \in {1, 2} /\ Len(Block(a)) = Len(ImportBlock(a)) + 1
           /\ Block(a)[1] = NewImport
           /\ \A i \in 2..Len(Block(a)) : Block(a)[i] = Blank
<1>1. NewImport \in Line /\ Blank \in Line
  BY DEF Line
<1>2. CASE Separated(a)
  <2>1. ImportBlock(a) = <<NewImport, Blank>> /\ Block(a) = <<NewImport, Blank, Blank>>
    BY <1>1, <1>2, LineAppended DEF ImportBlock, Block
  <2>2. \A i \in 2..3 : i = 2 \/ i = 3
    OBVIOUS
  <2>3. /\ <<NewImport, Blank>> \in Texts /\ Len(<<NewImport, Blank>>) = 2
        /\ <<NewImport, Blank, Blank>> \in Texts /\ Len(<<NewImport, Blank, Blank>>) = 3
        /\ <<NewImport, Blank, Blank>>[1] = NewImport /\ <<NewImport, Blank, Blank>>[2] = Blank
        /\ <<NewImport, Blank, Blank>>[3] = Blank
    BY <1>1, ShortTexts
  <2> QED
    BY <2>1, <2>2, <2>3
<1>3. CASE ~Separated(a)
  <2>1. ImportBlock(a) = <<NewImport>> /\ Block(a) = <<NewImport, Blank>>
    BY <1>1, <1>3, LineAppended DEF ImportBlock, Block
  <2>2. \A i \in 2..2 : i = 2
    OBVIOUS
  <2>3. /\ Len(<<NewImport>>) = 1
        /\ <<NewImport, Blank>> \in Texts /\ Len(<<NewImport, Blank>>) = 2
        /\ <<NewImport, Blank>>[1] = NewImport /\ <<NewImport, Blank>>[2] = Blank
    BY <1>1, ShortTexts
  <2> QED
    BY <2>1, <2>2, <2>3
<1> QED
  BY <1>2, <1>3

-----------------------------------------------------------------------------
(* Which lines are left.                                                   *)

\* A line that is not blank is still there when its text is joined to another, or was
\* glued to a line of it.
LEMMA LinesOfJoin ==
    ASSUME NEW a \in Texts, NEW b \in Texts, NEW x \in LinesOf(a) \union LinesOf(b), x # Blank
    PROVE  x \in LinesOf(Join(a, b)) \/ Glued \in LinesOf(Join(a, b))
<1> DEFINE j == Join(a, b)
<1>1. Len(a) \in Nat /\ Len(a) >= 1 /\ Len(b) \in Nat /\ Len(b) >= 1
  BY TextEnds
<1>2. /\ Len(j) = Len(a) + Len(b) - 1
      /\ \A i \in 1..Len(a) - 1 : j[i] = a[i]
      /\ j[Len(a)] = Glue(a[Len(a)], b[1])
      /\ \A i \in Len(a) + 1..Len(a) + Len(b) - 1 : j[i] = b[i - Len(a) + 1]
  BY JoinLines
<1> HIDE DEF j
<1>3. /\ Len(a) \in 1..Len(j)
      /\ \A i \in 1..Len(a) - 1 : i \in 1..Len(j)
      /\ \A i \in Len(a) + 1..Len(a) + Len(b) - 1 : i \in 1..Len(j)
  BY <1>1, <1>2
<1>4. \A i \in 1..Len(j) : j[i] \in LinesOf(j)
  BY DEF LinesOf
<1>5. \A y, z : (y # Blank => Glue(y, z) \in {y, Glued}) /\ (z # Blank => Glue(y, z) \in {z, Glued})
  BY DEF Glue
<1>6. ASSUME NEW i \in 1..Len(a), x = a[i]
      PROVE  x \in LinesOf(j) \/ Glued \in LinesOf(j)
  <2>1. CASE i = Len(a)
    <3>1. j[Len(a)] \in {x, Glued}
      BY <1>2, <1>5, <1>6, <2>1
    <3> QED
      BY <1>3, <1>4, <3>1
  <2>2. CASE i # Len(a)
    <3>1. i \in 1..Len(a) - 1
      BY <1>1, <2>2
    <3> QED
      BY <1>2, <1>3, <1>4, <1>6, <3>1
  <2> QED
    BY <2>1, <2>2
<1>7. ASSUME NEW i \in 1..Len(b), x = b[i]
      PROVE  x \in LinesOf(j) \/ Glued \in LinesOf(j)
  <2>1. CASE i = 1
    <3>1. j[Len(a)] \in {x, Glued}
      BY <1>2, <1>5, <1>7, <2>1
    <3> QED
      BY <1>3, <1>4, <3>1
  <2>2. CASE i # 1
    <3> DEFINE k == i + Len(a) - 1
    <3>1. k \in Len(a) + 1..Len(a) + Len(b) - 1 /\ k - Len(a) + 1 = i
      BY <1>1, <2>2
    <3>2. j[k] = b[k - Len(a) + 1]
      BY <1>2, <3>1
    <3>3. j[k] = x
      BY <1>7, <3>1, <3>2
    <3> HIDE DEF k
    <3> QED
      BY <1>3, <1>4, <3>1, <3>3
  <2> QED
    BY <2>1, <2>2
<1>8. (\E i \in 1..Len(a) : x = a[i]) \/ (\E i \in 1..Len(b) : x = b[i])
  BY DEF LinesOf
<1> QED
  BY <1>6, <1>7, <1>8 DEF j

\* A joined text has the lines of its two parts, and perhaps a glued one.
LEMMA LinesFromJoin ==
    ASSUME NEW a \in Texts, NEW b \in Texts, NEW x \in LinesOf(Join(a, b)), x # Glued
    PROVE  x \in LinesOf(a) \union LinesOf(b)
<1> DEFINE j == Join(a, b)
<1>1. Len(a) \in Nat /\ Len(a) >= 1 /\ Len(b) \in Nat /\ Len(b) >= 1
  BY TextEnds
<1>2. /\ Len(j) = Len(a) + Len(b) - 1
      /\ \A i \in 1..Len(a) - 1 : j[i] = a[i]
      /\ j[Len(a)] = Glue(a[Len(a)], b[1])
      /\ \A i \in Len(a) + 1..Len(a) + Len(b) - 1 : j[i] = b[i - Len(a) + 1]
  BY JoinLines
<1>3. PICK i \in 1..Len(j) : x = j[i]
  BY DEF LinesOf
<1> HIDE DEF j
<1>4. Len(a) \in 1..Len(a) /\ 1 \in 1..Len(b)
  BY <1>1
<1>5. \A y, z : Glue(y, z) \in {y, z, Glued}
  BY DEF Glue
<1>6. CASE i = Len(a)
  BY <1>2, <1>3, <1>4, <1>5, <1>6 DEF LinesOf
<1>7. CASE i \in 1..Len(a) - 1
  <2>1. i \in 1..Len(a)
    BY <1>1, <1>7
  <2> QED
    BY <1>2, <1>3, <1>7, <2>1 DEF LinesOf
<1>8. CASE i \in Len(a) + 1..Len(a) + Len(b) - 1
  <2>1. i - Len(a) + 1 \in 1..Len(b)
    BY <1>1, <1>8
  <2> QED
    BY <1>2, <1>3, <1>8, <2>1 DEF LinesOf
<1>9. i \in 1..Len(a) - 1 \/ i = Len(a) \/ i \in Len(a) + 1..Len(a) + Len(b) - 1
  BY <1>1, <1>2
<1> QED
  BY <1>6, <1>7, <1>8, <1>9

\* A line before a place, that is not blank, is that line of the text.
LEMMA BeforeIndex ==
    ASSUME NEW a \in Texts, NEW p \in PlacesIn(a), NEW i \in 1..Len(Before(a, p)),
           Before(a, p)[i] # Blank
    PROVE  i \in 1..Len(a) /\ i < p /\ Before(a, p)[i] = a[i]
<1>1. Len(a) \in Nat
  BY TextEnds
<1>2. CASE p = Len(a) + 1
  <2>1. Before(a, p) = a
    BY <1>2, BeforeEnd
  <2> QED
    BY <1>1, <1>2, <2>1
<1>3. CASE p \in 1..Len(a)
  <2>1. /\ Len(Before(a, p)) = p /\ Before(a, p)[p] = Blank
        /\ \A k \in 1..p - 1 : Before(a, p)[k] = a[k]
    BY <1>3, BeforeLine
  <2>2. i \in 1..p /\ i # p
    BY <2>1
  <2>3. i \in 1..p - 1 /\ i \in 1..Len(a) /\ i < p
    BY <1>1, <1>3, <2>2
  <2> QED
    BY <2>1, <2>3
<1> QED
  BY <1>2, <1>3, PlaceCases

\* A line after a place, that is not blank, is a line of the text from that place on.
LEMMA AfterIndex ==
    ASSUME NEW a \in Texts, NEW p \in PlacesIn(a), NEW i \in 1..Len(After(a, p)),
           After(a, p)[i] # Blank
    PROVE  p + i - 1 \in 1..Len(a) /\ p + i - 1 >= p /\ After(a, p)[i] = a[p + i - 1]
<1>1. Len(a) \in Nat
  BY TextEnds
<1>2. CASE p = Len(a) + 1
  <2>1. After(a, p) = <<Blank>> /\ Len(<<Blank>>) = 1 /\ <<Blank>>[1] = Blank
    BY <1>2, AfterEnd
  <2>2. \A k \in 1..1 : k = 1
    OBVIOUS
  <2>3. i = 1
    BY <2>1, <2>2
  <2> QED
    BY <2>1, <2>3
<1>3. CASE p \in 1..Len(a)
  <2>1. /\ Len(After(a, p)) = Len(a) - p + 1
        /\ \A k \in 1..Len(a) - p + 1 : After(a, p)[k] = a[p + k - 1]
    BY <1>3, AfterLine
  <2>2. p + i - 1 \in 1..Len(a) /\ p + i - 1 >= p
    BY <1>1, <1>3, <2>1
  <2> QED
    BY <2>1, <2>2
<1> QED
  BY <1>2, <1>3, PlaceCases

\* A line of a text is before a range, after it, or in it.
LEMMA LineIsSomewhere ==
    ASSUME NEW a \in Texts, NEW r, r.first \in PlacesIn(a), r.last \in PlacesIn(a),
           NEW x \in LinesOf(a)
    PROVE  \/ x \in LinesOf(Before(a, r.first))
           \/ x \in LinesOf(After(a, r.last))
           \/ x \in LinesOf(Slice(a, r))
<1>1. PICK i \in 1..Len(a) : x = a[i]
  BY DEF LinesOf
<1>2. Len(a) \in Nat /\ r.first \in 1..Len(a) + 1 /\ r.last \in 1..Len(a) + 1
  BY TextEnds DEF PlacesIn
<1>3. CASE i < r.first
  <2>1. CASE r.first = Len(a) + 1
    BY <1>1, <2>1, BeforeEnd DEF LinesOf
  <2>2. CASE r.first \in 1..Len(a)
    <3>1. /\ Len(Before(a, r.first)) = r.first
          /\ \A k \in 1..r.first - 1 : Before(a, r.first)[k] = a[k]
      BY <2>2, BeforeLine
    <3>2. i \in 1..r.first - 1 /\ i \in 1..r.first
      BY <1>2, <1>3
    <3> QED
      BY <1>1, <3>1, <3>2 DEF LinesOf
  <2> QED
    BY <2>1, <2>2, PlaceCases
<1>4. CASE i >= r.last
  <2>1. r.last \in 1..Len(a)
    BY <1>2, <1>4
  <2>2. /\ Len(After(a, r.last)) = Len(a) - r.last + 1
        /\ \A k \in 1..Len(a) - r.last + 1 : After(a, r.last)[k] = a[r.last + k - 1]
    BY <2>1, AfterLine
  <2>3. i - r.last + 1 \in 1..Len(a) - r.last + 1 /\ r.last + (i - r.last + 1) - 1 = i
    BY <1>2, <1>4
  <2>4. After(a, r.last)[i - r.last + 1] = x
    BY <1>1, <2>2, <2>3
  <2> QED
    BY <2>2, <2>3, <2>4 DEF LinesOf
<1>5. CASE r.first <= i /\ i < r.last
  <2> DEFINE u == Before(a, r.last)
             v == After(u, r.first)
  <2>1. u \in Texts /\ i \in 1..Len(u) /\ u[i] = x
    <3>1. CASE r.last = Len(a) + 1
      BY <1>1, <3>1, BeforeEnd
    <3>2. CASE r.last \in 1..Len(a)
      <4>1. /\ u \in Texts /\ Len(u) = r.last
            /\ \A k \in 1..r.last - 1 : u[k] = a[k]
        BY <3>2, BeforeLine
      <4>2. i \in 1..r.last - 1 /\ i \in 1..r.last
        BY <1>2, <1>5
      <4> QED
        BY <1>1, <4>1, <4>2
    <3> QED
      BY <3>1, <3>2, PlaceCases
  <2> HIDE DEF u
  <2>2. Len(u) \in Nat
    BY <2>1, TextEnds
  <2>3. r.first \in 1..Len(u)
    BY <1>2, <1>5, <2>1, <2>2
  <2>4. /\ Len(v) = Len(u) - r.first + 1
        /\ \A k \in 1..Len(u) - r.first + 1 : v[k] = u[r.first + k - 1]
    BY <2>1, <2>3, AfterLine
  <2> HIDE DEF v
  <2>5. i - r.first + 1 \in 1..Len(u) - r.first + 1 /\ r.first + (i - r.first + 1) - 1 = i
    BY <1>2, <1>5, <2>1, <2>2
  <2>6. v[i - r.first + 1] = x
    BY <2>1, <2>4, <2>5
  <2>7. x \in LinesOf(v)
    BY <2>4, <2>5, <2>6 DEF LinesOf
  <2> QED
    BY <2>7 DEF Slice, u, v
<1>6. i < r.first \/ i >= r.last \/ (r.first <= i /\ i < r.last)
  BY <1>2
<1> QED
  BY <1>3, <1>4, <1>5, <1>6

\* What is before and after an edit, and what it puts in, is there afterwards, unless it
\* was glued.
LEMMA LinesOfSubstituted ==
    ASSUME NEW a \in Texts, NEW r, r.first \in PlacesIn(a), r.last \in PlacesIn(a), NEW b \in Texts,
           NEW x, x # Blank,
           \/ x \in LinesOf(Before(a, r.first)) \/ x \in LinesOf(b)
           \/ x \in LinesOf(After(a, r.last))
    PROVE  x \in LinesOf(Substituted(a, r, b)) \/ Glued \in LinesOf(Substituted(a, r, b))
<1> DEFINE u == Before(a, r.first)
           v == After(a, r.last)
           j == Join(u, b)
<1>1. u \in Texts /\ v \in Texts
  BY BeforeAfterType
<1> HIDE DEF u, v
<1>2. j \in Texts
  BY <1>1, JoinLines
<1>3. x \in LinesOf(j) \/ Glued \in LinesOf(j) \/ x \in LinesOf(v)
  BY <1>1, LinesOfJoin DEF u, v
<1> HIDE DEF j
<1>4. Glued # Blank
  BY LinesAssumption
<1>5. x \in LinesOf(Join(j, v)) \/ Glued \in LinesOf(Join(j, v))
  BY <1>1, <1>2, <1>3, <1>4, LinesOfJoin
<1> QED
  BY <1>5 DEF Substituted, j, u, v

-----------------------------------------------------------------------------
(* One import.                                                             *)

\* A text has the new import once at most.
Once(text) == \A i, j \in 1..Len(text) : text[i] = NewImport /\ text[j] = NewImport => i = j

\* What is not in the text that was joined of two is in neither.
LEMMA OnceJoin ==
    ASSUME NEW a \in Texts, NEW b \in Texts, Once(a), Once(b),
           NewImport \notin LinesOf(a) \/ NewImport \notin LinesOf(b)
    PROVE  Once(Join(a, b))
<1> DEFINE j == Join(a, b)
<1>1. Len(a) \in Nat /\ Len(a) >= 1 /\ Len(b) \in Nat /\ Len(b) >= 1
  BY TextEnds
<1>2. /\ Len(j) = Len(a) + Len(b) - 1
      /\ \A i \in 1..Len(a) - 1 : j[i] = a[i]
      /\ j[Len(a)] = Glue(a[Len(a)], b[1])
      /\ \A i \in Len(a) + 1..Len(a) + Len(b) - 1 : j[i] = b[i - Len(a) + 1]
  BY JoinLines
<1> HIDE DEF j
<1>3. \A y, z : Glue(y, z) = NewImport => y = NewImport \/ z = NewImport
  BY LinesAssumption DEF Glue
<1>4. ASSUME NEW i \in 1..Len(j), j[i] = NewImport
      PROVE  \/ i \in 1..Len(a) /\ a[i] = NewImport
             \/ i - Len(a) + 1 \in 1..Len(b) /\ b[i - Len(a) + 1] = NewImport
  <2>1. CASE i \in 1..Len(a) - 1
    <3>1. i \in 1..Len(a)
      BY <1>1, <2>1
    <3> QED
      BY <1>2, <1>4, <2>1, <3>1
  <2>2. CASE i = Len(a)
    <3>1. i \in 1..Len(a) /\ 1 \in 1..Len(b) /\ i - Len(a) + 1 = 1
      BY <1>1, <2>2
    <3>2. a[i] = NewImport \/ b[1] = NewImport
      BY <1>2, <1>3, <1>4, <2>2
    <3> QED
      BY <3>1, <3>2
  <2>3. CASE i \in Len(a) + 1..Len(a) + Len(b) - 1
    <3>1. i - Len(a) + 1 \in 1..Len(b)
      BY <1>1, <2>3
    <3> QED
      BY <1>2, <1>4, <2>3, <3>1
  <2>4. i \in 1..Len(a) - 1 \/ i = Len(a) \/ i \in Len(a) + 1..Len(a) + Len(b) - 1
    BY <1>1, <1>2
  <2> QED
    BY <2>1, <2>2, <2>3, <2>4
<1>5. ASSUME NEW i \in 1..Len(j), NEW k \in 1..Len(j), j[i] = NewImport, j[k] = NewImport
      PROVE  i = k
  <2> DEFINE A(n) == n \in 1..Len(a) /\ a[n] = NewImport
             B(n) == n - Len(a) + 1 \in 1..Len(b) /\ b[n - Len(a) + 1] = NewImport
  <2>1. (A(i) \/ B(i)) /\ (A(k) \/ B(k))
    BY <1>4, <1>5
  <2>2. ~(A(i) /\ B(k)) /\ ~(B(i) /\ A(k))
    BY DEF LinesOf
  <2>3. A(i) /\ A(k) => i = k
    BY DEF Once
  <2>4. B(i) /\ B(k) => i - Len(a) + 1 = k - Len(a) + 1
    BY DEF Once
  <2>5. i - Len(a) + 1 = k - Len(a) + 1 => i = k
    BY <1>1
  <2> QED
    BY <2>1, <2>2, <2>3, <2>4, <2>5
<1> QED
  BY <1>5 DEF Once, j

\* An import is before a range or after it, not both.
LEMMA OnceBeforeAfter ==
    ASSUME NEW a \in Texts, NEW p \in PlacesIn(a), NEW q \in PlacesIn(a), p <= q, Once(a)
    PROVE  /\ Once(Before(a, p)) /\ Once(After(a, q))
           /\ NewImport \notin LinesOf(Before(a, p)) \/ NewImport \notin LinesOf(After(a, q))
<1> DEFINE u == Before(a, p)
           v == After(a, q)
<1>1. NewImport # Blank
  BY LinesAssumption
<1>2. \A i \in 1..Len(u) : u[i] = NewImport => i \in 1..Len(a) /\ i < p /\ a[i] = NewImport
  BY <1>1, BeforeIndex
<1>3. \A i \in 1..Len(v) : v[i] = NewImport =>
          q + i - 1 \in 1..Len(a) /\ q + i - 1 >= q /\ a[q + i - 1] = NewImport
  BY <1>1, AfterIndex
<1>4. Len(a) \in Nat /\ p \in 1..Len(a) + 1 /\ q \in 1..Len(a) + 1
  BY TextEnds DEF PlacesIn
<1>5. u \in Texts /\ v \in Texts
  BY BeforeAfterType
<1> HIDE DEF u, v
<1>6. Once(u)
  BY <1>2 DEF Once
<1>7. Once(v)
  <2>1. SUFFICES ASSUME NEW i \in 1..Len(v), NEW j \in 1..Len(v), v[i] = NewImport, v[j] = NewImport
                 PROVE  i = j
    BY DEF Once
  <2>2. q + i - 1 = q + j - 1
    <3>1. /\ q + i - 1 \in 1..Len(a) /\ a[q + i - 1] = NewImport
          /\ q + j - 1 \in 1..Len(a) /\ a[q + j - 1] = NewImport
      BY <1>3, <2>1
    <3> QED
      BY <3>1 DEF Once
  <2>3. i \in Int /\ j \in Int
    BY <1>5, TextEnds
  <2> QED
    BY <1>4, <2>2, <2>3
<1>8. ~(NewImport \in LinesOf(u) /\ NewImport \in LinesOf(v))
  <2>1. SUFFICES ASSUME NEW i \in 1..Len(u), NEW j \in 1..Len(v), u[i] = NewImport, v[j] = NewImport
                 PROVE  FALSE
    BY DEF LinesOf
  <2>2. i \in 1..Len(a) /\ i < p /\ a[i] = NewImport
    BY <1>2, <2>1
  <2>3. q + j - 1 \in 1..Len(a) /\ q + j - 1 >= q /\ a[q + j - 1] = NewImport
    BY <1>3, <2>1
  <2>4. i = q + j - 1
    BY <2>2, <2>3 DEF Once
  <2> QED
    BY <1>4, <2>2, <2>3, <2>4
<1> QED
  BY <1>6, <1>7, <1>8 DEF u, v

\* An edit that puts in no import leaves the text with one at most.
LEMMA OnceSubstituted ==
    ASSUME NEW a \in Texts, NEW r, r.first \in PlacesIn(a), r.last \in PlacesIn(a),
           r.first <= r.last, NEW b \in Texts, Once(a), Once(b),
           NewImport \notin LinesOf(a) \/ NewImport \notin LinesOf(b)
    PROVE  Once(Substituted(a, r, b))
<1> DEFINE u == Before(a, r.first)
           v == After(a, r.last)
           j == Join(u, b)
<1>1. u \in Texts /\ v \in Texts
  BY BeforeAfterType
<1>2. /\ Once(u) /\ Once(v)
      /\ NewImport \notin LinesOf(u) \/ NewImport \notin LinesOf(v)
  BY OnceBeforeAfter
<1>3. /\ NewImport \in LinesOf(u) => NewImport \in LinesOf(a)
      /\ NewImport \in LinesOf(v) => NewImport \in LinesOf(a)
  <2>1. NewImport # Blank
    BY LinesAssumption
  <2>2. \A i \in 1..Len(u) : u[i] = NewImport => i \in 1..Len(a) /\ a[i] = NewImport
    BY <2>1, BeforeIndex
  <2>3. \A i \in 1..Len(v) : v[i] = NewImport =>
            r.last + i - 1 \in 1..Len(a) /\ a[r.last + i - 1] = NewImport
    BY <2>1, AfterIndex
  <2> QED
    BY <2>2, <2>3 DEF LinesOf
<1> HIDE DEF u, v
<1>4. NewImport # Glued
  BY LinesAssumption
<1>5. Once(j) /\ j \in Texts
  BY <1>1, <1>2, <1>3, OnceJoin, JoinLines
<1>6. NewImport \in LinesOf(j) => NewImport \in LinesOf(u) \union LinesOf(b)
  BY <1>1, <1>4, LinesFromJoin
<1> HIDE DEF j
<1>7. NewImport \notin LinesOf(j) \/ NewImport \notin LinesOf(v)
  BY <1>2, <1>3, <1>6
<1>8. Once(Join(j, v))
  BY <1>1, <1>2, <1>5, <1>7, OnceJoin
<1> QED
  BY <1>8 DEF Substituted, j, u, v

\* The rows that are put together.
LEMMA RowsJoined ==
    ASSUME NEW s \in Seq(Line), NEW t \in Seq(Line)
    PROVE  /\ s \o t \in Seq(Line) /\ Len(s \o t) = Len(s) + Len(t)
           /\ \A i \in 1..Len(s) : (s \o t)[i] = s[i]
           /\ \A i \in Len(s) + 1..Len(s) + Len(t) : (s \o t)[i] = t[i - Len(s)]
<1>1. /\ s \o t \in Seq(Line) /\ Len(s \o t) = Len(s) + Len(t)
      /\ \A i \in 1..Len(s) + Len(t) : (s \o t)[i] = IF i <= Len(s) THEN s[i] ELSE t[i - Len(s)]
  BY ConcatProperties
<1>2. Len(s) \in Nat /\ Len(t) \in Nat
  BY LenProperties
<1>3. \A i \in 1..Len(s) : i \in 1..Len(s) + Len(t) /\ i <= Len(s)
  BY <1>2
<1>4. \A i \in Len(s) + 1..Len(s) + Len(t) : i \in 1..Len(s) + Len(t) /\ ~(i <= Len(s))
  BY <1>2
<1> QED
  BY <1>1, <1>3, <1>4

\* A line that the user types in is no import.
LEMMA LineTyped ==
    ASSUME NEW a \in Texts, NEW p \in 1..Len(a), NEW x \in Line, x # NewImport
    PROVE  LET b == SubSeq(a, 1, p - 1) \o <<x>> \o SubSeq(a, p, Len(a))
           IN  /\ b \in Texts
               /\ Once(a) => Once(b)
               /\ NewImport \in LinesOf(b) => NewImport \in LinesOf(a)
<1> DEFINE s == SubSeq(a, 1, p - 1)
           g == <<x>>
           t == SubSeq(a, p, Len(a))
           u == s \o g
           b == u \o t
<1>1. Len(a) \in Nat /\ p \in Nat /\ p >= 1 /\ p <= Len(a) /\ p - 1 \in 0..Len(a) /\ p \in 1..Len(a) + 1
  BY TextEnds
<1>2. s \in Seq(Line) /\ Len(s) = p - 1 /\ \A i \in 1..p - 1 : s[i] = a[i]
  BY <1>1, FirstLines
<1>3. t \in Seq(Line) /\ Len(t) = Len(a) - p + 1 /\ \A i \in 1..Len(a) - p + 1 : t[i] = a[p + i - 1]
  BY <1>1, LinesFrom
<1>4. g \in Seq(Line) /\ Len(g) = 1 /\ g[1] = x
  BY ShortTexts DEF Texts
<1> HIDE DEF s, g, t
<1>5. /\ u \in Seq(Line) /\ Len(u) = Len(s) + Len(g)
      /\ \A i \in 1..Len(s) : u[i] = s[i]
      /\ \A i \in Len(s) + 1..Len(s) + Len(g) : u[i] = g[i - Len(s)]
  BY <1>2, <1>4, RowsJoined
<1> HIDE DEF u
<1>6. /\ b \in Seq(Line) /\ Len(b) = Len(u) + Len(t)
      /\ \A i \in 1..Len(u) : b[i] = u[i]
      /\ \A i \in Len(u) + 1..Len(u) + Len(t) : b[i] = t[i - Len(u)]
  BY <1>3, <1>5, RowsJoined
<1> HIDE DEF b
<1>7. Len(u) = p /\ Len(b) = Len(a) + 1
  BY <1>1, <1>2, <1>3, <1>4, <1>5, <1>6
<1>8. \A i \in 1..p - 1 : i \in 1..Len(a) /\ b[i] = a[i]
  <2>1. ASSUME NEW i \in 1..p - 1 PROVE i \in 1..Len(a) /\ i \in 1..Len(s) /\ i \in 1..Len(u)
    BY <1>1, <1>2, <1>7
  <2> QED
    BY <1>2, <1>5, <1>6, <2>1
<1>9. b[p] = x
  <2>1. p \in Len(s) + 1..Len(s) + Len(g) /\ p - Len(s) = 1 /\ p \in 1..Len(u)
    BY <1>1, <1>2, <1>4, <1>7
  <2> QED
    BY <1>4, <1>5, <1>6, <2>1
<1>10. \A i \in p + 1..Len(a) + 1 : i - 1 \in 1..Len(a) /\ b[i] = a[i - 1]
  <2>1. ASSUME NEW i \in p + 1..Len(a) + 1
        PROVE  /\ i - 1 \in 1..Len(a) /\ i \in Len(u) + 1..Len(u) + Len(t)
               /\ i - Len(u) \in 1..Len(a) - p + 1 /\ p + (i - Len(u)) - 1 = i - 1
    BY <1>1, <1>3, <1>7
  <2>2. ASSUME NEW i \in p + 1..Len(a) + 1
        PROVE  b[i] = a[i - 1]
    <3>1. b[i] = t[i - Len(u)]
      BY <1>6, <2>1
    <3>2. t[i - Len(u)] = a[p + (i - Len(u)) - 1]
      BY <1>3, <2>1
    <3> QED
      BY <2>1, <3>1, <3>2
  <2> QED
    BY <2>1, <2>2
<1>11. \A i \in 1..Len(b) : i \in 1..p - 1 \/ i = p \/ i \in p + 1..Len(a) + 1
  BY <1>1, <1>7
<1>12. \A i \in 1..Len(b) : b[i] = NewImport =>
           \/ i \in 1..p - 1 /\ i \in 1..Len(a) /\ a[i] = NewImport
           \/ i \in p + 1..Len(a) + 1 /\ i - 1 \in 1..Len(a) /\ a[i - 1] = NewImport
  BY <1>8, <1>9, <1>10, <1>11
<1>13. Once(a) => Once(b)
  <2>1. SUFFICES ASSUME Once(a), NEW i \in 1..Len(b), NEW j \in 1..Len(b),
                        b[i] = NewImport, b[j] = NewImport
                 PROVE  i = j
    BY DEF Once
  <2>2. CASE i \in 1..p - 1 /\ a[i] = NewImport /\ j \in 1..p - 1 /\ a[j] = NewImport
    BY <1>8, <2>1, <2>2 DEF Once
  <2>3. CASE /\ i \in 1..p - 1 /\ a[i] = NewImport
             /\ j \in p + 1..Len(a) + 1 /\ a[j - 1] = NewImport
    <3>1. i = j - 1
      BY <1>8, <1>10, <2>1, <2>3 DEF Once
    <3> QED
      BY <1>1, <2>3, <3>1
  <2>4. CASE /\ j \in 1..p - 1 /\ a[j] = NewImport
             /\ i \in p + 1..Len(a) + 1 /\ a[i - 1] = NewImport
    <3>1. j = i - 1
      BY <1>8, <1>10, <2>1, <2>4 DEF Once
    <3> QED
      BY <1>1, <2>4, <3>1
  <2>5. CASE /\ i \in p + 1..Len(a) + 1 /\ a[i - 1] = NewImport
             /\ j \in p + 1..Len(a) + 1 /\ a[j - 1] = NewImport
    <3>1. i - 1 = j - 1
      BY <1>10, <2>1, <2>5 DEF Once
    <3> QED
      BY <1>1, <2>5, <3>1
  <2> QED
    BY <1>12, <2>1, <2>2, <2>3, <2>4, <2>5
<1>14. NewImport \in LinesOf(b) => NewImport \in LinesOf(a)
  BY <1>12 DEF LinesOf
<1>15. b # << >>
  BY <1>1, <1>6, <1>7, EmptySeq
<1> QED
  BY <1>6, <1>13, <1>14, <1>15 DEF Texts, b, u, s, g, t

\* A line that the user erases.
LEMMA LineErased ==
    ASSUME NEW a \in Texts, NEW p \in 1..Len(a) - 1
    PROVE  LET b == SubSeq(a, 1, p - 1) \o SubSeq(a, p + 1, Len(a))
           IN  /\ b \in Texts
               /\ Once(a) => Once(b)
               /\ NewImport \in LinesOf(b) => NewImport \in LinesOf(a)
<1> DEFINE s == SubSeq(a, 1, p - 1)
           t == SubSeq(a, p + 1, Len(a))
           b == s \o t
<1>1. /\ Len(a) \in Nat /\ p \in Nat /\ p >= 1 /\ p <= Len(a) - 1
      /\ p - 1 \in 0..Len(a) /\ p + 1 \in 1..Len(a) + 1
  BY TextEnds
<1>2. s \in Seq(Line) /\ Len(s) = p - 1 /\ \A i \in 1..p - 1 : s[i] = a[i]
  BY <1>1, FirstLines
<1>3. /\ t \in Seq(Line) /\ Len(t) = Len(a) - (p + 1) + 1
      /\ \A i \in 1..Len(a) - (p + 1) + 1 : t[i] = a[(p + 1) + i - 1]
  BY <1>1, LinesFrom
<1> HIDE DEF s, t
<1>4. /\ b \in Seq(Line) /\ Len(b) = Len(s) + Len(t)
      /\ \A i \in 1..Len(s) : b[i] = s[i]
      /\ \A i \in Len(s) + 1..Len(s) + Len(t) : b[i] = t[i - Len(s)]
  BY <1>2, <1>3, RowsJoined
<1> HIDE DEF b
<1>5. Len(b) = Len(a) - 1
  BY <1>1, <1>2, <1>3, <1>4
<1>6. \A i \in 1..p - 1 : i \in 1..Len(a) /\ b[i] = a[i]
  <2>1. ASSUME NEW i \in 1..p - 1 PROVE i \in 1..Len(a) /\ i \in 1..Len(s)
    BY <1>1, <1>2
  <2> QED
    BY <1>2, <1>4, <2>1
<1>7. \A i \in p..Len(a) - 1 : i + 1 \in 1..Len(a) /\ b[i] = a[i + 1]
  <2>1. ASSUME NEW i \in p..Len(a) - 1
        PROVE  /\ i + 1 \in 1..Len(a) /\ i \in Len(s) + 1..Len(s) + Len(t)
               /\ i - Len(s) \in 1..Len(a) - (p + 1) + 1 /\ (p + 1) + (i - Len(s)) - 1 = i + 1
    BY <1>1, <1>2, <1>3
  <2>2. ASSUME NEW i \in p..Len(a) - 1
        PROVE  b[i] = a[i + 1]
    <3>1. b[i] = t[i - Len(s)]
      BY <1>4, <2>1
    <3>2. t[i - Len(s)] = a[(p + 1) + (i - Len(s)) - 1]
      BY <1>3, <2>1
    <3> QED
      BY <2>1, <3>1, <3>2
  <2> QED
    BY <2>1, <2>2
<1>8. \A i \in 1..Len(b) : i \in 1..p - 1 \/ i \in p..Len(a) - 1
  BY <1>1, <1>5
<1>9. \A i \in 1..Len(b) : b[i] = NewImport =>
          \/ i \in 1..p - 1 /\ i \in 1..Len(a) /\ a[i] = NewImport
          \/ i \in p..Len(a) - 1 /\ i + 1 \in 1..Len(a) /\ a[i + 1] = NewImport
  BY <1>6, <1>7, <1>8
<1>10. Once(a) => Once(b)
  <2>1. SUFFICES ASSUME Once(a), NEW i \in 1..Len(b), NEW j \in 1..Len(b),
                        b[i] = NewImport, b[j] = NewImport
                 PROVE  i = j
    BY DEF Once
  <2>2. CASE i \in 1..p - 1 /\ a[i] = NewImport /\ j \in 1..p - 1 /\ a[j] = NewImport
    BY <1>6, <2>1, <2>2 DEF Once
  <2>3. CASE /\ i \in 1..p - 1 /\ a[i] = NewImport
             /\ j \in p..Len(a) - 1 /\ a[j + 1] = NewImport
    <3>1. i = j + 1
      BY <1>6, <1>7, <2>1, <2>3 DEF Once
    <3> QED
      BY <1>1, <2>3, <3>1
  <2>4. CASE /\ j \in 1..p - 1 /\ a[j] = NewImport
             /\ i \in p..Len(a) - 1 /\ a[i + 1] = NewImport
    <3>1. j = i + 1
      BY <1>6, <1>7, <2>1, <2>4 DEF Once
    <3> QED
      BY <1>1, <2>4, <3>1
  <2>5. CASE /\ i \in p..Len(a) - 1 /\ a[i + 1] = NewImport
             /\ j \in p..Len(a) - 1 /\ a[j + 1] = NewImport
    <3>1. i + 1 = j + 1
      BY <1>7, <2>1, <2>5 DEF Once
    <3> QED
      BY <1>1, <2>5, <3>1
  <2> QED
    BY <1>9, <2>1, <2>2, <2>3, <2>4, <2>5
<1>11. NewImport \in LinesOf(b) => NewImport \in LinesOf(a)
  BY <1>9 DEF LinesOf
<1>12. b # << >>
  BY <1>1, <1>4, <1>5, EmptySeq
<1> QED
  BY <1>4, <1>10, <1>11, <1>12 DEF Texts, b, s, t
=============================================================================
